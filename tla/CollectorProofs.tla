--------------------------- MODULE CollectorProofs ---------------------------
(***************************************************************************)
(* The safety invariants of Collector, for every set of queryids, texts    *)
(* and rows, and every retention, and what readers of it get.              *)
(***************************************************************************)
EXTENDS Collector, TimeSeqProofs

\* While a restart loads: rows come oldest first, and none is older than what
\* the history of its queryid already holds, or later than now.
LoadOrder ==
  /\ loading # <<>> => scrapeStep = "new"
  /\ OldestFirst(loading)
  /\ \A q \in DOMAIN samples : \A i \in 1 .. Len(samples[q]) : \A j \in 1 .. Len(loading) :
       loading[j].qid = q => samples[q][i].at <= loading[j].at
  /\ \A j \in 1 .. Len(loading) : loading[j].at <= now

\* The clocks: a scrape is stamped with a time not after now and not before the
\* last complete scrape, and no stored sample is later than the row being read.
ClockOrder ==
  /\ scrapeAt <= now
  /\ lastScrapeTime <= scrapeAt
  /\ scrapeStep = "new" => lastScrapeTime = 0
  /\ scrapeStep = "prune" => lastScrapeTime = scrapeAt
  /\ \A q \in DOMAIN samples : \A i \in 1 .. Len(samples[q]) :
       /\ samples[q][i].at <= now
       /\ scrapeStep = "rows" => samples[q][i].at <= scrapeAt
-----------------------------------------------------------------------------
\* The fields of a sample.
LEMMA SampleFacts ==
  \A s \in Sample : s.at \in Nat /\ s.at \in Int /\ s.qid \in QueryID /\ s.fp \in Fingerprint
BY DEF Sample

\* Backfill turns a stored row into a sample of the same queryid and time.
LEMMA RestoredTyped ==
  ASSUME NEW row \in StoredRow(Nat)
  PROVE  /\ Restored(row) \in Sample
         /\ Restored(row).qid = row.qid /\ Restored(row).at = row.at
<1>1. /\ row.qid \in QueryID /\ row.text \in QueryText /\ row.lat \in Latency
      /\ row.at \in Nat
  BY Zenon DEF StoredRow
<1>2. FingerprintQuery[row.text] \in Fingerprint
  BY Zenon, <1>1, CollectorAssumption
<1> QED BY Zenon, <1>1, <1>2 DEF Restored, Sample

\* A history is a sequence of samples with integer times.
LEMMA HistoryTyped ==
  ASSUME CollectorTypeOK, NEW q
  PROVE  History(q) \in Seq(Sample) /\ TimesOK(History(q))
<1>1. History(q) \in Seq(Sample)
  BY DEF History, CollectorTypeOK, IsMap
<1>2. \A i \in 1 .. Len(History(q)) : History(q)[i] \in Sample
  BY Zenon, <1>1, ElementOfSeq
<1> QED BY Zenon, <1>1, <1>2, SampleFacts DEF TimesOK

\* What storing one sample does to the histories.
LEMMA StoreSampleHistories ==
  ASSUME CollectorTypeOK, NEW s \in Sample, StoreSample(s)
  PROVE  /\ DOMAIN samples' = DOMAIN samples \cup {s.qid}
         /\ \A q \in DOMAIN samples : q # s.qid => samples'[q] = samples[q]
         /\ samples'[s.qid] \in Seq(Sample)
         /\ Len(History(s.qid)) \in Nat
         /\ Len(samples'[s.qid]) = Len(History(s.qid)) + 1
         /\ \A i \in 1 .. Len(History(s.qid)) : samples'[s.qid][i] = History(s.qid)[i]
         /\ samples'[s.qid][Len(History(s.qid)) + 1] = s
<1>1. samples' = Put(samples, s.qid, Append(History(s.qid), s))
  BY Zenon DEF StoreSample
<1>2. /\ DOMAIN samples' = DOMAIN samples \cup {s.qid}
      /\ \A q \in DOMAIN samples : q # s.qid => samples'[q] = samples[q]
      /\ samples'[s.qid] = Append(History(s.qid), s)
  BY Zenon, <1>1 DEF Put
<1>3. History(s.qid) \in Seq(Sample)
  BY Zenon, HistoryTyped
<1>4. Len(History(s.qid)) \in Nat
  BY Zenon, <1>3, LenProperties
<1> QED BY <1>2, <1>3, <1>4, AppendProperties

\* The index after the eviction from an old fingerprint: what IndexConsistent
\* says, without q unless q keeps its fingerprint.
LEMMA EvictedIndex ==
  ASSUME IndexConsistent, NEW q, NEW fp
  PROVE  LET E == Evicted(q, fp)
             Left(f) == {p \in DOMAIN queryFingerprint :
                           queryFingerprint[p] = f /\ (p # q \/ f = fp)}
         IN  /\ \A f \in DOMAIN E : E[f] = Left(f) /\ Left(f) # {}
             /\ \A f : Left(f) # {} => f \in DOMAIN E
<1> DEFINE Left(f) == {p \in DOMAIN queryFingerprint :
                         queryFingerprint[p] = f /\ (p # q \/ f = fp)}
           Filed(f) == {p \in DOMAIN queryFingerprint : queryFingerprint[p] = f}
           E == Evicted(q, fp)
           Goal == /\ \A f \in DOMAIN E : E[f] = Left(f) /\ Left(f) # {}
                   /\ \A f : Left(f) # {} => f \in DOMAIN E
<1>1. /\ \A f \in DOMAIN fingerprintIndex : fingerprintIndex[f] = Filed(f) /\ Filed(f) # {}
      /\ \A f : Filed(f) # {} => f \in DOMAIN fingerprintIndex
  BY Zenon DEF IndexConsistent
<1>2. CASE ~ (q \in DOMAIN queryFingerprint /\ queryFingerprint[q] # fp)
  <2>1. \A f : Left(f) = Filed(f)
    BY Zenon, <1>2
  <2>2. Evicted(q, fp) = fingerprintIndex
    BY Zenon, <1>2 DEF Evicted
  <2> QED BY Zenon, <1>1, <2>1, <2>2
<1>3. ASSUME q \in DOMAIN queryFingerprint, queryFingerprint[q] # fp PROVE Goal
  <2> DEFINE old == queryFingerprint[q]
  <2>1. \A f : f # old => Left(f) = Filed(f)
    BY Zenon, <1>3
  <2>2. Left(old) = Filed(old) \ {q}
    BY Zenon, <1>3
  <2>3. old \in DOMAIN fingerprintIndex /\ fingerprintIndex[old] = Filed(old)
    <3>1. q \in Filed(old)
      BY Zenon, <1>3
    <3> QED BY Zenon, <1>1, <3>1
  <2>4. E = IF Left(old) = {} THEN Drop(fingerprintIndex, old)
                         ELSE Put(fingerprintIndex, old, Left(old))
    BY Zenon, <1>3, <2>2, <2>3 DEF Evicted, RemoveFromIndex
  <2> HIDE DEF old, Left, Filed, E
  <2>5. CASE Left(old) = {}
    BY Zenon, <1>1, <2>1, <2>4, <2>5 DEF Drop
  <2>6. CASE Left(old) # {}
    BY Zenon, <1>1, <2>1, <2>3, <2>4, <2>6 DEF Put
  <2> QED BY Zenon, <2>5, <2>6
<1> QED BY Zenon, <1>2, <1>3

\* indexFingerprintLocked keeps the index the inverse of queryFingerprint.
LEMMA IndexAfterStore ==
  ASSUME CollectorTypeOK, IndexConsistent, NEW s \in Sample, StoreSample(s)
  PROVE  /\ IndexConsistent'
         /\ queryFingerprint'[s.qid] = s.fp
         /\ \A q \in DOMAIN queryFingerprint : q # s.qid => queryFingerprint'[q] = queryFingerprint[q]
         /\ IsMap(queryFingerprint', QueryID, Fingerprint)
         /\ IsMap(fingerprintIndex', Fingerprint, SUBSET QueryID)
<1> DEFINE q == s.qid
           fp == s.fp
           E == Evicted(q, fp)
           Left(f) == {p \in DOMAIN queryFingerprint :
                         queryFingerprint[p] = f /\ (p # q \/ f = fp)}
           sharing == IF fp \in DOMAIN E THEN E[fp] ELSE {}
<1>1. /\ \A f \in DOMAIN E : E[f] = Left(f) /\ Left(f) # {}
      /\ \A f : Left(f) # {} => f \in DOMAIN E
  BY Zenon, EvictedIndex
<1>2. /\ queryFingerprint' = Put(queryFingerprint, q, fp)
      /\ fingerprintIndex' = Put(E, fp, sharing \cup {q})
  BY Zenon DEF StoreSample, IndexFingerprint
<1>3. /\ DOMAIN queryFingerprint' = DOMAIN queryFingerprint \cup {q}
      /\ queryFingerprint'[q] = fp
      /\ \A p \in DOMAIN queryFingerprint : p # q => queryFingerprint'[p] = queryFingerprint[p]
  BY Zenon, <1>2 DEF Put
<1>4. sharing = Left(fp)
  <2> HIDE DEF E, Left
  <2> QED BY Zenon, <1>1
<1>5. /\ DOMAIN fingerprintIndex' = DOMAIN E \cup {fp}
      /\ fingerprintIndex'[fp] = Left(fp) \cup {q}
      /\ \A f \in DOMAIN E : f # fp => fingerprintIndex'[f] = E[f]
  <2> HIDE DEF E, Left, sharing
  <2> QED BY Zenon, <1>2, <1>4 DEF Put
<1> DEFINE Filed(f) == {p \in DOMAIN queryFingerprint' : queryFingerprint'[p] = f}
<1>6. Filed(fp) = Left(fp) \cup {q}
  <2> HIDE DEF q, fp
  <2> QED BY Zenon, <1>3
<1>7. \A f : f # fp => Filed(f) = Left(f)
  <2> HIDE DEF q, fp
  <2> QED BY Zenon, <1>3
<1> HIDE DEF Left, E
<1>8. /\ \A f \in DOMAIN fingerprintIndex' : fingerprintIndex'[f] = Filed(f) /\ Filed(f) # {}
      /\ \A f : Filed(f) # {} => f \in DOMAIN fingerprintIndex'
  <2> HIDE DEF Filed, q, fp
  <2> QED BY Zenon, <1>1, <1>5, <1>6, <1>7
<1>9. DOMAIN fingerprintIndex' = {queryFingerprint'[p] : p \in DOMAIN queryFingerprint'}
  BY <1>8
<1>10. DOMAIN queryFingerprint' = DOMAIN samples'
  BY Zenon, <1>3, StoreSampleHistories DEF IndexConsistent
<1>11. IndexConsistent'
  BY Zenon, <1>8, <1>9, <1>10 DEF IndexConsistent
<1>12. q \in QueryID /\ fp \in Fingerprint
  BY Zenon, SampleFacts
<1>13. IsMap(queryFingerprint', QueryID, Fingerprint)
  BY Zenon, <1>3, <1>12 DEF IsMap, CollectorTypeOK
<1>14. IsMap(fingerprintIndex', Fingerprint, SUBSET QueryID)
  BY Zenon, <1>8, <1>9, <1>13 DEF IsMap
<1> QED BY Zenon, <1>3, <1>11, <1>13, <1>14

\* The parts of the invariant about the stored data.
DataInv ==
  /\ IsMap(samples, QueryID, Seq(Sample))
  /\ IsMap(queryFingerprint, QueryID, Fingerprint)
  /\ IsMap(fingerprintIndex, Fingerprint, SUBSET QueryID)
  /\ IndexConsistent
  /\ HistoriesOrdered
  /\ FingerprintCurrent

\* Storing a sample that is not older than its history keeps the data invariant,
\* and adds nothing but that sample.
LEMMA StoreSampleKeeps ==
  ASSUME CollectorTypeOK, DataInv, NEW s \in Sample, StoreSample(s),
         \A i \in 1 .. Len(History(s.qid)) : History(s.qid)[i].at <= s.at
  PROVE  /\ DataInv'
         /\ \A q \in DOMAIN samples' : \A i \in 1 .. Len(samples'[q]) :
              \/ samples'[q][i] = s /\ q = s.qid
              \/ q \in DOMAIN samples /\ \E j \in 1 .. Len(samples[q]) : samples'[q][i] = samples[q][j]
         /\ \A q \in DOMAIN samples : q \in DOMAIN samples' /\ \A i \in 1 .. Len(samples[q]) :
              \E j \in 1 .. Len(samples'[q]) : samples'[q][j] = samples[q][i]
<1> DEFINE k == s.qid
           h == History(k)
           n == Len(h)
<1>1. /\ DOMAIN samples' = DOMAIN samples \cup {k}
      /\ \A q \in DOMAIN samples : q # k => samples'[q] = samples[q]
      /\ samples'[k] \in Seq(Sample)
      /\ n \in Nat
      /\ Len(samples'[k]) = n + 1
      /\ \A i \in 1 .. n : samples'[k][i] = h[i]
      /\ samples'[k][n + 1] = s
  BY Zenon, StoreSampleHistories
<1>2. /\ IndexConsistent'
      /\ queryFingerprint'[k] = s.fp
      /\ \A q \in DOMAIN queryFingerprint : q # k => queryFingerprint'[q] = queryFingerprint[q]
      /\ IsMap(queryFingerprint', QueryID, Fingerprint)
      /\ IsMap(fingerprintIndex', Fingerprint, SUBSET QueryID)
  BY Zenon, IndexAfterStore DEF DataInv
<1>3. k \in QueryID /\ s.at \in Nat
  BY Zenon, SampleFacts
<1>4. IsMap(samples', QueryID, Seq(Sample))
  BY Zenon, <1>1, <1>3 DEF IsMap, DataInv
<1>5. k \in DOMAIN samples => h = samples[k]
  BY Zenon DEF History
<1>6. k \notin DOMAIN samples => n = 0
  BY Zenon DEF History
<1>7. TimesOK(h) /\ \A i \in 1 .. n : h[i].qid = k
  BY <1>5, <1>6, HistoryTyped DEF DataInv, HistoriesOrdered
<1>8. Chronological(h)
  <2>1. CASE k \in DOMAIN samples
    BY Zenon, <1>5, <2>1 DEF DataInv, HistoriesOrdered
  <2>2. CASE k \notin DOMAIN samples
    BY <1>6, <2>2 DEF Chronological
  <2> QED BY Zenon, <2>1, <2>2
<1>9. \A i \in 1 .. n : h[i].at <= s.at
  BY Zenon
<1> HIDE DEF h, n
<1>10. Chronological(samples'[k])
  <2>1. ASSUME NEW i \in 1 .. n + 1, NEW j \in 1 .. n + 1, i <= j
        PROVE  samples'[k][i].at <= samples'[k][j].at
    <3>1. CASE j \in 1 .. n
      <4>1. i \in 1 .. n
        BY <1>1, <2>1, <3>1
      <4> QED BY SMTT(30), <1>1, <1>8, <2>1, <3>1, <4>1 DEF Chronological, n
    <3>2. CASE j = n + 1 /\ i \in 1 .. n
      BY Zenon, <1>1, <1>9, <3>2
    <3>3. CASE j = n + 1 /\ i = n + 1
      BY <1>1, <1>3, <3>3
    <3> QED BY <1>1, <3>1, <3>2, <3>3
  <2> QED BY Zenon, <1>1, <2>1 DEF Chronological
<1>11. \A i \in 1 .. n + 1 : samples'[k][i].qid = k
  <2>1. \A i \in 1 .. n + 1 : i \in 1 .. n \/ i = n + 1
    BY <1>1
  <2> QED BY Zenon, <1>1, <1>7, <2>1
<1>12. HistoriesOrdered'
  <2> SUFFICES ASSUME NEW q \in DOMAIN samples'
               PROVE  /\ samples'[q] # <<>>
                      /\ \A i \in 1 .. Len(samples'[q]) : samples'[q][i].qid = q
                      /\ Chronological(samples'[q])
    BY Zenon DEF HistoriesOrdered
  <2>1. CASE q = k
    BY <1>1, <1>10, <1>11, <2>1
  <2>2. CASE q # k
    BY Zenon, <1>1, <2>2 DEF DataInv, HistoriesOrdered
  <2> QED BY Zenon, <2>1, <2>2
<1>13. FingerprintCurrent'
  <2> SUFFICES ASSUME NEW q \in DOMAIN samples'
               PROVE  /\ q \in DOMAIN queryFingerprint'
                      /\ queryFingerprint'[q] = samples'[q][Len(samples'[q])].fp
    BY Zenon DEF FingerprintCurrent
  <2>0. q \in DOMAIN queryFingerprint'
    BY Zenon, <1>2 DEF IndexConsistent
  <2>1. CASE q = k
    BY Zenon, <1>1, <1>2, <2>0, <2>1
  <2>2. CASE q # k
    BY Zenon, <1>1, <1>2, <2>0, <2>2 DEF DataInv, FingerprintCurrent
  <2> QED BY Zenon, <2>1, <2>2
<1>14. DataInv'
  BY Zenon, <1>2, <1>4, <1>12, <1>13 DEF DataInv
<1>15. ASSUME NEW q \in DOMAIN samples', NEW i \in 1 .. Len(samples'[q])
       PROVE  \/ samples'[q][i] = s /\ q = k
              \/ q \in DOMAIN samples /\ \E j \in 1 .. Len(samples[q]) : samples'[q][i] = samples[q][j]
  <2>1. CASE q # k
    BY Zenon, <1>1, <2>1
  <2>2. CASE q = k /\ i = n + 1
    BY Zenon, <1>1, <2>2
  <2>3. CASE q = k /\ i # n + 1
    <3>1. i \in 1 .. n
      BY <1>1, <2>3
    <3>2. k \in DOMAIN samples /\ h = samples[k]
      BY <1>5, <1>6, <3>1
    <3> QED BY Zenon, <1>1, <2>3, <3>1, <3>2 DEF n
  <2> QED BY Zenon, <2>1, <2>2, <2>3
<1>16. ASSUME NEW q \in DOMAIN samples, NEW i \in 1 .. Len(samples[q])
       PROVE  q \in DOMAIN samples' /\ \E j \in 1 .. Len(samples'[q]) : samples'[q][j] = samples[q][i]
  <2>1. CASE q # k
    BY Zenon, <1>1, <2>1
  <2>2. CASE q = k
    <3>1. i \in 1 .. n /\ i \in 1 .. n + 1
      BY <1>1, <1>5, <2>2 DEF n
    <3> QED BY Zenon, <1>1, <1>5, <2>2, <3>1
  <2> QED BY Zenon, <2>1, <2>2
<1> QED BY Zenon, <1>1, <1>14, <1>15, <1>16

\* Pruning keeps the data invariant; what is left is not older than the cutoff,
\* and what goes is.
LEMMA PruneKeeps ==
  ASSUME CollectorTypeOK, DataInv, NEW hist, DOMAIN hist = DOMAIN samples,
         \A q \in DOMAIN samples : hist[q] = samples[q],
         NEW cutoff \in Int, PruneLocked(hist, cutoff)
  PROVE  /\ DataInv'
         /\ \A q \in DOMAIN samples' : \A i \in 1 .. Len(samples'[q]) :
              /\ samples'[q][i].at >= cutoff
              /\ q \in DOMAIN samples /\ \E j \in 1 .. Len(samples[q]) : samples'[q][i] = samples[q][j]
         /\ \A q \in DOMAIN samples : \A i \in 1 .. Len(samples[q]) :
              \/ samples[q][i].at < cutoff
              \/ q \in DOMAIN samples' /\ \E j \in 1 .. Len(samples'[q]) : samples'[q][j] = samples[q][i]
<1> DEFINE kept == Surviving(hist, cutoff)
           gone == DOMAIN hist \ kept
           forgotten(fp) == {q \in gone \cap DOMAIN queryFingerprint : queryFingerprint[q] = fp}
           sharing(fp) == fingerprintIndex[fp] \ forgotten(fp)
           a(q) == Aged(hist, q, cutoff)
<1>1. \A q \in DOMAIN samples :
        /\ samples[q] \in Seq(Sample) /\ TimesOK(samples[q]) /\ Chronological(samples[q])
        /\ samples[q] # <<>> /\ Len(samples[q]) \in Nat
        /\ \A i \in 1 .. Len(samples[q]) : samples[q][i].qid = q /\ samples[q][i] \in Sample
  <2> SUFFICES ASSUME NEW q \in DOMAIN samples
               PROVE  /\ samples[q] \in Seq(Sample) /\ TimesOK(samples[q]) /\ Chronological(samples[q])
                      /\ samples[q] # <<>> /\ Len(samples[q]) \in Nat
                      /\ \A i \in 1 .. Len(samples[q]) : samples[q][i].qid = q /\ samples[q][i] \in Sample
    BY Zenon
  <2>1. samples[q] \in Seq(Sample)
    BY Zenon DEF DataInv, IsMap
  <2>2. TimesOK(samples[q])
    BY Zenon, HistoryTyped DEF History
  <2> QED BY Zenon, <2>1, <2>2, ElementOfSeq, LenProperties DEF DataInv, HistoriesOrdered
<1>2. \A q \in DOMAIN samples :
        /\ a(q) \in 0 .. Len(samples[q])
        /\ \A i \in 1 .. a(q) : samples[q][i].at < cutoff
        /\ \A i \in a(q) + 1 .. Len(samples[q]) : samples[q][i].at >= cutoff
  BY Zenon, <1>1, FirstNotBeforeBasic, FirstNotBeforeSplits DEF Aged
<1>3. /\ kept \subseteq DOMAIN samples
      /\ \A q \in DOMAIN samples : q \in kept <=> a(q) < Len(samples[q])
  BY Zenon DEF Surviving
<1>4. /\ samples' = [q \in kept |-> SubSeq(hist[q], a(q) + 1, Len(hist[q]))]
      /\ queryFingerprint' = [q \in DOMAIN queryFingerprint \ gone |-> queryFingerprint[q]]
      /\ fingerprintIndex' =
           [fp \in {f \in DOMAIN fingerprintIndex : sharing(f) # {} \/ forgotten(f) = {}}
              |-> sharing(fp)]
  BY Zenon DEF PruneLocked
<1> HIDE DEF a, kept
<1>5. /\ DOMAIN samples' = kept
      /\ \A q \in kept : samples'[q] = SubSeq(samples[q], a(q) + 1, Len(samples[q]))
  BY Zenon, <1>3, <1>4
<1>6. ASSUME NEW q \in kept
      PROVE  /\ samples'[q] \in Seq(Sample)
             /\ Len(samples'[q]) = Len(samples[q]) - a(q)
             /\ Len(samples'[q]) \in Nat \ {0}
             /\ \A i \in 1 .. Len(samples'[q]) :
                  a(q) + i \in a(q) + 1 .. Len(samples[q]) /\ samples'[q][i] = samples[q][a(q) + i]
  <2>1. /\ q \in DOMAIN samples /\ a(q) \in 0 .. Len(samples[q]) /\ a(q) < Len(samples[q])
        /\ Len(samples[q]) \in Nat
    BY Zenon, <1>1, <1>2, <1>3
  <2>2. \A i \in a(q) + 1 .. Len(samples[q]) : samples[q][i] \in Sample
    BY <1>1, <2>1
  <2> DEFINE b == SubSeq(samples[q], a(q) + 1, Len(samples[q]))
  <2>3. /\ b \in Seq(Sample)
        /\ Len(b) = IF a(q) + 1 <= Len(samples[q]) THEN Len(samples[q]) - (a(q) + 1) + 1 ELSE 0
        /\ \A i \in 1 .. Len(samples[q]) - (a(q) + 1) + 1 : b[i] = samples[q][(a(q) + 1) + i - 1]
    <3>1. a(q) + 1 \in Int /\ Len(samples[q]) \in Int
      BY <2>1
    <3> QED BY SMTT(30), <2>2, <3>1, SubSeqProperties
  <2>4. samples'[q] = b
    BY Zenon, <1>5
  <2> HIDE DEF b
  <2>5. Len(b) = Len(samples[q]) - a(q) /\ Len(b) \in Nat \ {0}
    BY <2>1, <2>3
  <2>6. ASSUME NEW i \in 1 .. Len(b)
        PROVE  a(q) + i \in a(q) + 1 .. Len(samples[q]) /\ b[i] = samples[q][a(q) + i]
    <3>1. /\ i \in 1 .. Len(samples[q]) - (a(q) + 1) + 1 /\ (a(q) + 1) + i - 1 = a(q) + i
          /\ a(q) + i \in a(q) + 1 .. Len(samples[q])
      BY SMTT(30), <2>1, <2>5
    <3> QED BY Zenon, <2>3, <3>1
  <2> QED BY Zenon, <2>3, <2>4, <2>5, <2>6
<1>7. HistoriesOrdered' /\ IsMap(samples', QueryID, Seq(Sample))
  <2> SUFFICES ASSUME NEW q \in kept
               PROVE  /\ samples'[q] # <<>> /\ samples'[q] \in Seq(Sample) /\ q \in QueryID
                      /\ \A i \in 1 .. Len(samples'[q]) : samples'[q][i].qid = q
                      /\ Chronological(samples'[q])
    BY Zenon, <1>5 DEF HistoriesOrdered, IsMap
  <2>0. q \in DOMAIN samples /\ a(q) \in Nat /\ Len(samples[q]) \in Nat
    BY <1>1, <1>2, <1>3
  <2>1. \A i \in 1 .. Len(samples'[q]) :
          a(q) + i \in 1 .. Len(samples[q]) /\ samples'[q][i] = samples[q][a(q) + i]
    BY <1>6, <2>0
  <2>2. ASSUME NEW i \in 1 .. Len(samples'[q]), NEW j \in 1 .. Len(samples'[q]), i <= j
        PROVE  samples'[q][i].at <= samples'[q][j].at
    <3>1. a(q) + i <= a(q) + j
      BY <2>0, <2>2
    <3> QED BY ZenonT(40), <1>1, <2>0, <2>1, <3>1 DEF Chronological
  <2>3. Chronological(samples'[q])
    BY Zenon, <2>2 DEF Chronological
  <2>4. q \in QueryID
    BY Zenon, <2>0 DEF DataInv, IsMap
  <2>5. samples'[q] # <<>>
    BY Zenon, <1>6
  <2>6. ASSUME NEW i \in 1 .. Len(samples'[q])
        PROVE  samples'[q][i].qid = q
    <3>1. PICK k \in 1 .. Len(samples[q]) : k = a(q) + i
      BY Zenon, <2>1
    <3>2. samples'[q][i] = samples[q][k]
      BY Zenon, <2>1, <3>1
    <3>3. samples[q][k].qid = q
      BY Zenon, <2>0 DEF DataInv, HistoriesOrdered
    <3> QED BY Zenon, <3>2, <3>3
  <2>7. samples'[q] \in Seq(Sample)
    BY Zenon, <1>6
  <2> QED BY Zenon, <2>3, <2>4, <2>5, <2>6, <2>7
<1>8. DOMAIN queryFingerprint = DOMAIN samples
  BY Zenon DEF DataInv, IndexConsistent
<1>9. /\ DOMAIN queryFingerprint' = kept
      /\ \A q \in kept : queryFingerprint'[q] = queryFingerprint[q]
  BY Zenon, <1>3, <1>4, <1>8
<1>10. FingerprintCurrent'
  <2> SUFFICES ASSUME NEW q \in kept
               PROVE  queryFingerprint'[q] = samples'[q][Len(samples'[q])].fp
    BY Zenon, <1>5, <1>9 DEF FingerprintCurrent
  <2>1. q \in DOMAIN samples /\ a(q) \in Nat /\ Len(samples[q]) \in Nat
    BY <1>1, <1>2, <1>3
  <2>2. Len(samples'[q]) \in 1 .. Len(samples'[q]) /\ a(q) + Len(samples'[q]) = Len(samples[q])
    BY SMTT(30), <1>6, <2>1
  <2>3. samples'[q][Len(samples'[q])] = samples[q][Len(samples[q])]
    BY SMTT(30), <1>6, <2>2
  <2> QED BY Zenon, <1>9, <2>1, <2>3 DEF DataInv, FingerprintCurrent
<1>11. \A f \in DOMAIN fingerprintIndex :
         /\ sharing(f) = {q \in kept : queryFingerprint[q] = f}
         /\ forgotten(f) = {} => sharing(f) # {}
  <2> SUFFICES ASSUME NEW f \in DOMAIN fingerprintIndex
               PROVE  /\ sharing(f) = {q \in kept : queryFingerprint[q] = f}
                      /\ forgotten(f) = {} => sharing(f) # {}
    BY Zenon
  <2>1. /\ fingerprintIndex[f] = {q \in DOMAIN queryFingerprint : queryFingerprint[q] = f}
        /\ fingerprintIndex[f] # {}
    BY DEF DataInv, IndexConsistent
  <2> QED BY Zenon, <1>3, <1>8, <2>1
<1>12. /\ DOMAIN fingerprintIndex' = {f \in DOMAIN fingerprintIndex : sharing(f) # {}}
       /\ \A f \in DOMAIN fingerprintIndex' : fingerprintIndex'[f] = sharing(f)
  <2> HIDE DEF sharing, forgotten
  <2> QED BY Zenon, <1>4, <1>11
<1>13. \A q \in kept : queryFingerprint[q] \in DOMAIN fingerprintIndex
  BY Zenon, <1>3, <1>8 DEF DataInv, IndexConsistent
<1> HIDE DEF sharing, forgotten
<1>14. IndexConsistent'
  <2>1. \A f \in DOMAIN fingerprintIndex' :
          /\ fingerprintIndex'[f] = {q \in kept : queryFingerprint'[q] = f}
          /\ fingerprintIndex'[f] # {}
    BY <1>9, <1>11, <1>12
  <2>2. \A q \in kept : queryFingerprint'[q] \in DOMAIN fingerprintIndex'
    BY Zenon, <1>9, <1>11, <1>12, <1>13
  <2>3. DOMAIN fingerprintIndex' = {queryFingerprint'[q] : q \in kept}
    <3>1. ASSUME NEW f \in DOMAIN fingerprintIndex'
          PROVE  f \in {queryFingerprint'[q] : q \in kept}
      <4>1. PICK q \in kept : queryFingerprint'[q] = f
        BY Zenon, <2>1
      <4> QED BY Zenon, <4>1
    <3>2. ASSUME NEW q \in kept PROVE queryFingerprint'[q] \in DOMAIN fingerprintIndex'
      BY Zenon, <2>2
    <3> QED BY Zenon, <3>1, <3>2
  <2> QED BY Zenon, <1>5, <1>9, <2>1, <2>3 DEF IndexConsistent
<1>15. /\ IsMap(queryFingerprint', QueryID, Fingerprint)
       /\ IsMap(fingerprintIndex', Fingerprint, SUBSET QueryID)
  <2>1. IsMap(queryFingerprint', QueryID, Fingerprint)
    BY Zenon, <1>3, <1>8, <1>9 DEF DataInv, IsMap
  <2>2. IsMap(fingerprintIndex', Fingerprint, SUBSET QueryID)
    BY Zenon, <1>9, <1>14, <2>1 DEF IsMap, IndexConsistent
  <2> QED BY Zenon, <2>1, <2>2
<1>16. ASSUME NEW q \in DOMAIN samples', NEW i \in 1 .. Len(samples'[q])
       PROVE  /\ samples'[q][i].at >= cutoff
              /\ q \in DOMAIN samples /\ \E j \in 1 .. Len(samples[q]) : samples'[q][i] = samples[q][j]
  <2>1. q \in DOMAIN samples /\ a(q) \in Nat /\ Len(samples[q]) \in Nat
    BY <1>1, <1>2, <1>3, <1>5
  <2>2. /\ a(q) + i \in a(q) + 1 .. Len(samples[q]) /\ samples'[q][i] = samples[q][a(q) + i]
    BY Zenon, <1>5, <1>6
  <2>3. a(q) + i \in 1 .. Len(samples[q])
    BY <2>1, <2>2
  <2> QED BY SMTT(30), <1>2, <2>1, <2>2, <2>3
<1>17. ASSUME NEW q \in DOMAIN samples, NEW i \in 1 .. Len(samples[q]), ~ (samples[q][i].at < cutoff)
       PROVE  q \in DOMAIN samples' /\ \E j \in 1 .. Len(samples'[q]) : samples'[q][j] = samples[q][i]
  <2>1. a(q) \in 0 .. Len(samples[q]) /\ Len(samples[q]) \in Nat /\ i \notin 1 .. a(q)
    BY Zenon, <1>1, <1>2, <1>17
  <2>2. q \in kept
    BY <1>3, <2>1
  <2>3. /\ i - a(q) \in 1 .. Len(samples'[q]) /\ a(q) + (i - a(q)) = i
    BY <1>6, <2>1, <2>2
  <2>4. samples'[q][i - a(q)] = samples[q][a(q) + (i - a(q))]
    BY Zenon, <1>6, <2>2, <2>3
  <2> QED BY Zenon, <1>5, <2>2, <2>3, <2>4
<1>18. DataInv'
  BY Zenon, <1>7, <1>10, <1>14, <1>15 DEF DataInv
<1> QED BY Zenon, <1>16, <1>17, <1>18
-----------------------------------------------------------------------------
\* The inductive invariant.
CInv == CollectorTypeOK /\ DataInv /\ LoadOrder /\ ClockOrder /\ RetentionHolds

\* A collector starts with empty histories, so the invariant holds trivially.
LEMMA CInvInit == CollectorInit => CInv
<1> SUFFICES ASSUME CollectorInit PROVE CInv
  BY Zenon
<1>1. /\ DOMAIN samples = {} /\ DOMAIN queryFingerprint = {} /\ DOMAIN fingerprintIndex = {}
      /\ DOMAIN planHistory = {}
  BY Zenon DEF CollectorInit, EmptyMap
<1>2. StartTime \in Nat
  BY CollectorAssumption DEF StartTime
<1>3. /\ loading \in Seq(StoredRow(Nat)) /\ OldestFirst(loading)
      /\ \A j \in 1 .. Len(loading) : loading[j].at <= now
  <2> DEFINE R == StoredRow(StartTime - Retention .. StartTime)
  <2>1. loading \in UNION {[1 .. n -> R] : n \in 0 .. MaxBackfill} /\ OldestFirst(loading)
    BY Zenon DEF CollectorInit, Loadable
  <2>2. PICK m \in 0 .. MaxBackfill : loading \in [1 .. m -> R]
    BY Zenon, <2>1
  <2>3. m \in Nat
    BY <2>2, CollectorAssumption
  <2>4. ASSUME NEW row \in R PROVE row \in StoredRow(Nat) /\ row.at <= StartTime
    <3>1. \A u \in StartTime - Retention .. StartTime : u \in Nat /\ u <= StartTime
      BY <1>2, CollectorAssumption DEF StartTime
    <3> QED BY Zenon, <3>1 DEF StoredRow
  <2> HIDE DEF R
  <2>5. loading \in [1 .. m -> StoredRow(Nat)] /\ \A j \in 1 .. m : loading[j].at <= now
    BY Zenon, <2>2, <2>4 DEF CollectorInit
  <2>6. loading \in Seq(StoredRow(Nat)) /\ Len(loading) = m
    BY <2>3, <2>5
  <2> QED BY Zenon, <2>1, <2>5, <2>6
<1>4. CollectorTypeOK
  BY Zenon, <1>1, <1>2, <1>3, EmptySeq DEF CollectorInit, CollectorTypeOK, IsMap
<1>5. DataInv
  BY Zenon, <1>1 DEF DataInv, IsMap, IndexConsistent, HistoriesOrdered, FingerprintCurrent
<1>6. LoadOrder
  BY Zenon, <1>1, <1>3 DEF CollectorInit, LoadOrder
<1>7. ClockOrder /\ RetentionHolds
  BY <1>1, <1>2 DEF CollectorInit, ClockOrder, RetentionHolds
<1> QED BY Zenon, <1>4, <1>5, <1>6, <1>7 DEF CInv

\* A step of the scrape that touches neither the samples nor the clocks they are
\* compared with keeps everything about the stored data.
LEMMA DataUntouched ==
  ASSUME DataInv, UNCHANGED sampleVars
  PROVE  DataInv'
<1>1. samples' = samples /\ queryFingerprint' = queryFingerprint /\ fingerprintIndex' = fingerprintIndex
  BY Zenon DEF sampleVars
<1>2. HistoriesOrdered' /\ FingerprintCurrent' /\ IndexConsistent'
  <2>1. HistoriesOrdered'
    BY Zenon, <1>1 DEF DataInv, HistoriesOrdered
  <2>2. FingerprintCurrent'
    BY Zenon, <1>1 DEF DataInv, FingerprintCurrent
  <2>3. IndexConsistent'
    BY Zenon, <1>1 DEF DataInv, IndexConsistent
  <2> QED BY Zenon, <2>1, <2>2, <2>3
<1> QED BY Zenon, <1>1, <1>2 DEF DataInv

\* Backfill: rows are stored oldest first.
LEMMA BackfillSampleStep ==
  ASSUME CInv, BackfillSample
  PROVE  CInv'
<1>0. CollectorTypeOK /\ DataInv /\ LoadOrder /\ ClockOrder /\ RetentionHolds
  BY Zenon DEF CInv
<1>1. /\ loading \in Seq(StoredRow(Nat)) /\ loading # <<>> /\ scrapeStep = "new"
      /\ loading' = Tail(loading)
      /\ UNCHANGED <<now, planHistory, lastScrapeTime, columns, scrapeStep, scrapeAt, rowCount, tracked>>
  BY Zenon, <1>0 DEF BackfillSample, CollectorTypeOK, scrapeVars
<1>2. /\ Head(loading) \in StoredRow(Nat) /\ Head(loading) = loading[1]
      /\ Tail(loading) \in Seq(StoredRow(Nat))
      /\ Len(loading) \in Nat \ {0} /\ Len(Tail(loading)) = Len(loading) - 1
      /\ \A i \in 1 .. Len(Tail(loading)) : Tail(loading)[i] = loading[i + 1]
  BY <1>1, HeadTailProperties, EmptySeq
<1>3. PICK row \in StoredRow(Nat) : row = Head(loading)
  BY Zenon, <1>2
<1>4. PICK s \in Sample : s = Restored(row)
  BY Zenon, RestoredTyped
<1>5. s.qid = row.qid /\ s.at = row.at /\ s.at <= now /\ s.at \in Nat
  <2>1. 1 \in 1 .. Len(loading)
    BY <1>2
  <2>2. row.at <= now
    BY Zenon, <1>0, <1>2, <1>3, <2>1 DEF LoadOrder
  <2> QED BY Zenon, <1>4, <2>2, RestoredTyped, SampleFacts
<1>6. StoreSample(s)
  BY Zenon, <1>3, <1>4 DEF BackfillSample
<1>7. \A i \in 1 .. Len(History(s.qid)) : History(s.qid)[i].at <= s.at
  <2>1. CASE s.qid \in DOMAIN samples
    <3>1. 1 \in 1 .. Len(loading) /\ loading[1].qid = s.qid /\ loading[1].at = s.at
      BY <1>2, <1>3, <1>5
    <3> QED BY Zenon, <1>0, <2>1, <3>1 DEF LoadOrder, History
  <2>2. CASE s.qid \notin DOMAIN samples
    BY <2>2 DEF History
  <2> QED BY Zenon, <2>1, <2>2
<1>8. /\ DataInv'
      /\ \A q \in DOMAIN samples' : \A i \in 1 .. Len(samples'[q]) :
           \/ samples'[q][i] = s /\ q = s.qid
           \/ q \in DOMAIN samples /\ \E j \in 1 .. Len(samples[q]) : samples'[q][i] = samples[q][j]
  BY Zenon, <1>0, <1>6, <1>7, StoreSampleKeeps
<1>9. CollectorTypeOK'
  BY Zenon, <1>0, <1>1, <1>2, <1>8 DEF CollectorTypeOK, DataInv
<1>10. LoadOrder'
  <2>1. \A i \in 1 .. Len(loading') : i + 1 \in 1 .. Len(loading) /\ loading'[i] = loading[i + 1]
    BY <1>1, <1>2
  <2>2. OldestFirst(loading')
    <3>1. ASSUME NEW i \in 1 .. Len(loading'), NEW j \in 1 .. Len(loading'),
                 i <= j, loading'[i].qid = loading'[j].qid
          PROVE  loading'[i].at <= loading'[j].at
      <4>1. i + 1 <= j + 1
        BY <3>1
      <4> QED BY Zenon, <1>0, <2>1, <3>1, <4>1 DEF LoadOrder, OldestFirst
    <3> QED BY Zenon, <3>1 DEF OldestFirst
  <2>3. ASSUME NEW q \in DOMAIN samples', NEW i \in 1 .. Len(samples'[q]),
               NEW j \in 1 .. Len(loading'), loading'[j].qid = q
        PROVE  samples'[q][i].at <= loading'[j].at
    <3>1. j + 1 \in 1 .. Len(loading) /\ loading'[j] = loading[j + 1] /\ 1 \in 1 .. Len(loading)
          /\ 1 <= j + 1
      BY <1>2, <2>1
    <3>2. CASE samples'[q][i] = s /\ q = s.qid
      <4>1. loading[1].qid = loading[j + 1].qid /\ loading[1].at = s.at
        BY Zenon, <1>2, <1>3, <1>5, <2>3, <3>1, <3>2
      <4> QED BY Zenon, <1>0, <3>1, <3>2, <4>1 DEF LoadOrder, OldestFirst
    <3>3. CASE q \in DOMAIN samples /\ \E k \in 1 .. Len(samples[q]) : samples'[q][i] = samples[q][k]
      BY Zenon, <1>0, <2>3, <3>1, <3>3 DEF LoadOrder
    <3> QED BY Zenon, <1>8, <3>2, <3>3
  <2>4. \A j \in 1 .. Len(loading') : loading'[j].at <= now'
    BY Zenon, <1>0, <1>1, <2>1 DEF LoadOrder
  <2> QED BY Zenon, <1>1, <2>2, <2>3, <2>4 DEF LoadOrder
<1>11. ClockOrder'
  <2>1. ASSUME NEW q \in DOMAIN samples', NEW i \in 1 .. Len(samples'[q])
        PROVE  samples'[q][i].at <= now
    BY Zenon, <1>0, <1>5, <1>8 DEF ClockOrder
  <2> QED BY Zenon, <1>0, <1>1, <2>1 DEF ClockOrder
<1>12. RetentionHolds'
  <2>1. ASSUME NEW q \in DOMAIN samples', NEW i \in 1 .. Len(samples'[q])
        PROVE  samples'[q][i].at >= lastScrapeTime - Retention
    <3>1. samples'[q][i] \in Sample
      BY Zenon, <1>8, ElementOfSeq DEF DataInv, IsMap
    <3>2. lastScrapeTime = 0 /\ Retention \in Nat
      BY Zenon, <1>0, <1>1, CollectorAssumption DEF ClockOrder
    <3> QED BY <3>1, <3>2, SampleFacts
  <2> QED BY Zenon, <1>1, <2>1 DEF RetentionHolds
<1> QED BY Zenon, <1>8, <1>9, <1>10, <1>11, <1>12 DEF CInv

\* One row of a scrape: its time is that of the scrape, which no stored sample
\* is later than.
LEMMA ScrapeRowStep ==
  ASSUME CInv, NEW q0 \in QueryID, NEW text \in QueryText, NEW lat \in Latency,
         ScrapeRow(q0, text, lat)
  PROVE  CInv'
<1>0. CollectorTypeOK /\ DataInv /\ LoadOrder /\ ClockOrder /\ RetentionHolds
  BY Zenon DEF CInv
<1>1. /\ scrapeStep = "rows" /\ rowCount' = rowCount + 1
      /\ UNCHANGED <<now, planHistory, lastScrapeTime, columns, scrapeStep, scrapeAt, loading>>
  BY Zenon DEF ScrapeRow
<1>2. CASE text \in ExplainText
  <2>1. UNCHANGED sampleVars /\ tracked' = tracked
    BY Zenon, <1>2 DEF ScrapeRow
  <2>2. samples' = samples
    BY Zenon, <2>1 DEF sampleVars
  <2>3. DataInv'
    BY Zenon, <1>0, <2>1, DataUntouched
  <2>4. CollectorTypeOK'
    BY <1>0, <1>1, <2>1, <2>3 DEF CollectorTypeOK, DataInv
  <2>5. LoadOrder'
    BY <1>0, <1>1, <2>2 DEF LoadOrder
  <2>6. ClockOrder'
    BY Zenon, <1>0, <1>1, <2>2 DEF ClockOrder
  <2>7. RetentionHolds'
    BY Zenon, <1>0, <1>1, <2>2 DEF RetentionHolds
  <2> QED BY Zenon, <2>3, <2>4, <2>5, <2>6, <2>7 DEF CInv
<1>3. CASE text \notin ExplainText
  <2> DEFINE row == [qid |-> q0, fp |-> FingerprintQuery[text], at |-> scrapeAt, lat |-> lat]
  <2>1. row \in Sample /\ row.qid = q0 /\ row.at = scrapeAt
    BY Zenon, <1>0, CollectorAssumption DEF Sample, CollectorTypeOK
  <2>2. PICK s \in Sample : s = row
    BY Zenon, <2>1
  <2>3. s.qid = q0 /\ s.at = scrapeAt
    BY Zenon, <2>1, <2>2
  <2>4. StoreSample(s) /\ tracked' = IF CapturePlans THEN Append(tracked, q0) ELSE tracked
    BY Zenon, <1>3, <2>2 DEF ScrapeRow
  <2> HIDE DEF row
  <2>5. \A i \in 1 .. Len(History(s.qid)) : History(s.qid)[i].at <= s.at
    <3>1. CASE s.qid \in DOMAIN samples
      BY Zenon, <1>0, <1>1, <2>3, <3>1 DEF ClockOrder, History
    <3>2. CASE s.qid \notin DOMAIN samples
      BY <3>2 DEF History
    <3> QED BY Zenon, <3>1, <3>2
  <2>6. /\ DataInv'
        /\ \A q \in DOMAIN samples' : \A i \in 1 .. Len(samples'[q]) :
             \/ samples'[q][i] = s /\ q = s.qid
             \/ q \in DOMAIN samples /\ \E j \in 1 .. Len(samples[q]) : samples'[q][i] = samples[q][j]
    BY Zenon, <1>0, <2>4, <2>5, StoreSampleKeeps
  <2>7. CollectorTypeOK'
    <3>1. tracked' \in Seq(QueryID)
      <4>1. tracked \in Seq(QueryID)
        BY Zenon, <1>0 DEF CollectorTypeOK
      <4>2. Append(tracked, q0) \in Seq(QueryID)
        BY Zenon, <4>1, AppendProperties
      <4> QED BY Zenon, <2>4, <4>1, <4>2
    <3> QED BY <1>0, <1>1, <2>6, <3>1 DEF CollectorTypeOK, DataInv
  <2>8. LoadOrder'
    <3>1. loading = <<>> /\ Len(loading) = 0
      BY Zenon, <1>0, <1>1 DEF LoadOrder
    <3> QED BY <1>1, <3>1 DEF LoadOrder, OldestFirst
  <2>9. ClockOrder'
    <3>1. scrapeAt \in Nat /\ now \in Nat /\ scrapeAt <= now
      BY Zenon, <1>0 DEF ClockOrder, CollectorTypeOK
    <3>2. ASSUME NEW q \in DOMAIN samples', NEW i \in 1 .. Len(samples'[q])
          PROVE  samples'[q][i].at <= now /\ samples'[q][i].at <= scrapeAt
      BY <1>0, <1>1, <2>3, <2>6, <3>1 DEF ClockOrder
    <3> QED BY Zenon, <1>0, <1>1, <3>2 DEF ClockOrder
  <2>10. RetentionHolds'
    <3>1. /\ scrapeAt \in Nat /\ lastScrapeTime \in Nat /\ Retention \in Nat
          /\ lastScrapeTime <= scrapeAt
      BY Zenon, <1>0, CollectorAssumption DEF ClockOrder, CollectorTypeOK
    <3>2. scrapeAt >= lastScrapeTime - Retention
      BY <3>1
    <3>3. ASSUME NEW q \in DOMAIN samples', NEW i \in 1 .. Len(samples'[q])
          PROVE  samples'[q][i].at >= lastScrapeTime - Retention
      BY Zenon, <1>0, <1>1, <2>3, <2>6, <3>2 DEF RetentionHolds
    <3> QED BY Zenon, <1>1, <3>3 DEF RetentionHolds
  <2> QED BY Zenon, <2>6, <2>7, <2>8, <2>9, <2>10 DEF CInv
<1> QED BY Zenon, <1>2, <1>3

\* Once every row is loaded there is no order left to keep.
LEMMA NothingToLoad ==
  ASSUME loading' = <<>>
  PROVE  LoadOrder'
<1>1. \A j \in 1 .. Len(loading') : FALSE
  OBVIOUS
<1>2. OldestFirst(loading)'
  BY Zenon, <1>1 DEF OldestFirst
<1> QED BY Zenon, <1>1, <1>2 DEF LoadOrder

\* The histories Backfill has loaded are sorted, so sorting changes nothing.
LEMMA SortChangesNothing ==
  ASSUME DataInv, NEW hist, hist = [q \in DOMAIN samples |-> SortByTime(samples[q])]
  PROVE  DOMAIN hist = DOMAIN samples /\ \A q \in DOMAIN samples : hist[q] = samples[q]
<1>1. ASSUME NEW q \in DOMAIN samples PROVE SortByTime(samples[q]) = samples[q]
  <2>1. samples[q] \in Seq(Sample) /\ Chronological(samples[q])
    BY Zenon DEF DataInv, IsMap, HistoriesOrdered
  <2>2. TimesOK(samples[q])
    BY Zenon, <2>1, ElementOfSeq, SampleFacts DEF TimesOK
  <2> QED BY Zenon, <2>1, <2>2, SortByTimeExact
<1> QED BY Zenon, <1>1

\* The end of Backfill: sorting the histories changes nothing because they are
\* sorted, and pruning keeps the invariant.
LEMMA BackfillEndStep ==
  ASSUME CInv, BackfillEnd
  PROVE  CInv'
<1>0. CollectorTypeOK /\ DataInv /\ LoadOrder /\ ClockOrder /\ RetentionHolds
  BY Zenon DEF CInv
<1>1. /\ scrapeStep = "new" /\ scrapeStep' = "idle" /\ loading = <<>>
      /\ UNCHANGED <<now, planHistory, lastScrapeTime, columns, scrapeAt, rowCount, tracked, loading>>
  BY Zenon DEF BackfillEnd
<1>2. /\ DataInv'
      /\ \A q \in DOMAIN samples' : \A i \in 1 .. Len(samples'[q]) :
           q \in DOMAIN samples /\ \E j \in 1 .. Len(samples[q]) : samples'[q][i] = samples[q][j]
  <2>1. CASE samples = EmptyMap
    <3>1. UNCHANGED sampleVars
      BY Zenon, <2>1 DEF BackfillEnd
    <3>2. samples' = samples
      BY Zenon, <3>1 DEF sampleVars
    <3> QED BY Zenon, <1>0, <3>1, <3>2, DataUntouched
  <2>2. CASE samples # EmptyMap
    <3>1. PICK hist : hist = [q \in DOMAIN samples |-> SortByTime(samples[q])]
      BY Zenon
    <3>2. PICK cutoff \in Int : cutoff = now - Retention
      BY <1>0, CollectorAssumption DEF CollectorTypeOK
    <3>3. PruneLocked(hist, cutoff)
      BY Zenon, <2>2, <3>1, <3>2 DEF BackfillEnd
    <3>4. DOMAIN hist = DOMAIN samples /\ \A q \in DOMAIN samples : hist[q] = samples[q]
      BY Zenon, <1>0, <3>1, SortChangesNothing
    <3> QED BY Zenon, <1>0, <3>3, <3>4, PruneKeeps
  <2> QED BY Zenon, <2>1, <2>2
<1>3. CollectorTypeOK'
  BY Zenon, <1>0, <1>1, <1>2 DEF CollectorTypeOK, DataInv
<1>4. LoadOrder'
  BY Zenon, <1>1, NothingToLoad
<1>5. ClockOrder'
  BY <1>0, <1>1, <1>2 DEF ClockOrder
<1>6. RetentionHolds'
  BY SMTT(30), <1>0, <1>1, <1>2 DEF RetentionHolds
<1> QED BY Zenon, <1>2, <1>3, <1>4, <1>5, <1>6 DEF CInv

\* pruneLocked at the end of a scrape: nothing older than the retention period
\* before that scrape is left.
LEMMA ScrapePruneStep ==
  ASSUME CInv, ScrapePrune
  PROVE  CInv'
<1>0. CollectorTypeOK /\ DataInv /\ LoadOrder /\ ClockOrder /\ RetentionHolds
  BY Zenon DEF CInv
<1>1. /\ scrapeStep = "prune" /\ scrapeStep' = "plans"
      /\ UNCHANGED <<now, planHistory, lastScrapeTime, columns, scrapeAt, rowCount, tracked, loading>>
  BY Zenon DEF ScrapePrune
<1>2. PICK hist : hist = samples
  BY Zenon
<1>3. PICK cutoff \in Int : cutoff = scrapeAt - Retention
  BY <1>0, CollectorAssumption DEF CollectorTypeOK
<1>4. PruneLocked(hist, cutoff)
  BY Zenon, <1>2, <1>3 DEF ScrapePrune
<1>5. DOMAIN hist = DOMAIN samples /\ \A q \in DOMAIN samples : hist[q] = samples[q]
  BY Zenon, <1>2
<1>6. /\ DataInv'
      /\ \A q \in DOMAIN samples' : \A i \in 1 .. Len(samples'[q]) :
           /\ samples'[q][i].at >= cutoff
           /\ q \in DOMAIN samples /\ \E j \in 1 .. Len(samples[q]) : samples'[q][i] = samples[q][j]
  BY Zenon, <1>0, <1>4, <1>5, PruneKeeps
<1>7. CollectorTypeOK'
  BY Zenon, <1>0, <1>1, <1>6 DEF CollectorTypeOK, DataInv
<1>8. LoadOrder'
  <2>1. loading = <<>>
    BY Zenon, <1>0, <1>1 DEF LoadOrder
  <2> QED BY Zenon, <1>1, <2>1, NothingToLoad
<1>9. ClockOrder'
  BY <1>0, <1>1, <1>6 DEF ClockOrder
<1>10. RetentionHolds'
  <2>1. lastScrapeTime' - Retention = cutoff
    BY Zenon, <1>0, <1>1, <1>3 DEF ClockOrder
  <2> QED BY Zenon, <1>6, <2>1 DEF RetentionHolds
<1> QED BY Zenon, <1>6, <1>7, <1>8, <1>9, <1>10 DEF CInv

\* The steps that leave the samples alone.
LEMMA ScrapeControlStep ==
  ASSUME CInv, ScrapeQueryFails \/ ScrapeStart \/ ScrapeFail \/ ScrapeComplete \/ ScrapeEnd \/ Stop
  PROVE  CInv'
<1>0. CollectorTypeOK /\ DataInv /\ LoadOrder /\ ClockOrder /\ RetentionHolds
  BY Zenon DEF CInv
<1>1. /\ UNCHANGED sampleVars /\ now' = now /\ planHistory' = planHistory /\ loading' = loading
      /\ scrapeStep \in {"idle", "rows", "plans"} /\ scrapeStep' # "new"
  BY Zenon DEF ScrapeQueryFails, ScrapeStart, ScrapeFail, ScrapeComplete, ScrapeEnd, Stop
<1>2. samples' = samples
  BY Zenon, <1>1 DEF sampleVars
<1>3. DataInv'
  BY Zenon, <1>0, <1>1, DataUntouched
<1>4. LoadOrder'
  BY <1>0, <1>1, <1>2 DEF LoadOrder
<1>5. columns' \in {"unknown", "modern", "legacy"}
  BY Zenon, <1>0 DEF CollectorTypeOK, ResolveColumns, ScrapeQueryFails, ScrapeStart, ScrapeFail,
              ScrapeComplete, ScrapeEnd, Stop
<1>6. tracked' \in Seq(QueryID)
  <2>1. tracked \in Seq(QueryID) /\ <<>> \in Seq(QueryID)
    BY <1>0 DEF CollectorTypeOK
  <2>2. tracked' \in {tracked, <<>>}
    BY Zenon DEF ScrapeQueryFails, ScrapeStart, ScrapeFail, ScrapeComplete, ScrapeEnd, Stop
  <2> QED BY Zenon, <2>1, <2>2
<1>7. /\ scrapeAt' \in Nat /\ lastScrapeTime' \in Nat /\ rowCount' \in Nat
      /\ scrapeStep' \in {"new", "idle", "rows", "prune", "plans", "stopped"}
  BY <1>0 DEF CollectorTypeOK, ScrapeQueryFails, ScrapeStart, ScrapeFail,
              ScrapeComplete, ScrapeEnd, Stop
<1>8. CollectorTypeOK'
  BY Zenon, <1>0, <1>1, <1>3, <1>5, <1>6, <1>7 DEF CollectorTypeOK, DataInv
<1>9. ClockOrder'
  <2>1. scrapeAt \in Nat /\ now \in Nat /\ lastScrapeTime \in Nat
    BY Zenon, <1>0 DEF CollectorTypeOK
  <2>2. CASE ScrapeQueryFails \/ ScrapeFail \/ ScrapeEnd \/ Stop
    BY Zenon, <1>0, <1>1, <1>2, <2>1, <2>2 DEF ClockOrder, ScrapeQueryFails, ScrapeFail, ScrapeEnd, Stop
  <2>3. CASE ScrapeStart
    <3>1. scrapeAt' = now /\ lastScrapeTime' = lastScrapeTime /\ scrapeStep' = "rows"
      BY Zenon, <2>3 DEF ScrapeStart
    <3>2. now' = now /\ scrapeAt' <= now' /\ lastScrapeTime' <= scrapeAt'
      BY <1>0, <1>1, <2>1, <3>1 DEF ClockOrder
    <3>3. \A q \in DOMAIN samples : \A i \in 1 .. Len(samples[q]) : samples[q][i].at <= now
      BY Zenon, <1>0 DEF ClockOrder
    <3> QED BY Zenon, <1>2, <3>1, <3>2, <3>3 DEF ClockOrder
  <2>4. CASE ScrapeComplete
    <3>1. scrapeAt' = scrapeAt /\ lastScrapeTime' = scrapeAt /\ scrapeStep' = "prune"
      BY Zenon, <2>4 DEF ScrapeComplete
    <3>2. now' = now /\ scrapeAt' <= now' /\ lastScrapeTime' <= scrapeAt'
      BY <1>0, <1>1, <2>1, <3>1 DEF ClockOrder
    <3>3. \A q \in DOMAIN samples : \A i \in 1 .. Len(samples[q]) : samples[q][i].at <= now
      BY Zenon, <1>0 DEF ClockOrder
    <3> QED BY Zenon, <1>2, <3>1, <3>2, <3>3 DEF ClockOrder
  <2> QED BY Zenon, <2>2, <2>3, <2>4
<1>10. RetentionHolds'
  <2>1. CASE scrapeStep' = "prune"
    BY Zenon, <2>1 DEF RetentionHolds
  <2>2. CASE scrapeStep' # "prune"
    <3>1. lastScrapeTime' = lastScrapeTime
      BY Zenon, <2>2 DEF ScrapeQueryFails, ScrapeStart, ScrapeFail, ScrapeComplete, ScrapeEnd, Stop
    <3>2. scrapeStep # "prune"
      BY Zenon, <1>1
    <3> QED BY Zenon, <1>0, <1>2, <3>1, <3>2 DEF RetentionHolds
  <2> QED BY Zenon, <2>1, <2>2
<1> QED BY Zenon, <1>3, <1>4, <1>8, <1>9, <1>10 DEF CInv

\* Plan capture touches the plan rings only.
LEMMA CapturePlanStep ==
  ASSUME CInv, CapturePlan
  PROVE  CInv'
<1>0. CollectorTypeOK /\ DataInv /\ LoadOrder /\ ClockOrder /\ RetentionHolds
  BY Zenon DEF CInv
<1>1. /\ UNCHANGED sampleVars
      /\ UNCHANGED <<now, lastScrapeTime, columns, scrapeStep, scrapeAt, rowCount, loading>>
      /\ tracked # <<>> /\ tracked \in Seq(QueryID)
  BY Zenon, <1>0 DEF CapturePlan, CollectorTypeOK
<1>2. samples' = samples
  BY Zenon, <1>1 DEF sampleVars
<1>3. /\ Head(tracked) \in QueryID /\ Tail(tracked) \in Seq(QueryID) /\ <<>> \in Seq(QueryID)
  BY <1>1, HeadTailProperties
<1>4. tracked' \in Seq(QueryID)
  BY Zenon, <1>3 DEF CapturePlan
<1>5. IsMap(planHistory', QueryID, Seq(Nat))
  <2>1. CASE UNCHANGED planHistory
    BY Zenon, <1>0, <2>1 DEF CollectorTypeOK, IsMap
  <2>2. CASE planHistory' = Put(planHistory, Head(tracked), AppendPlan(Plans(Head(tracked)), now))
    <3>1. PICK q \in QueryID : q = Head(tracked)
      BY Zenon, <1>3
    <3>2. PICK h \in Seq(Nat) : h = Plans(q)
      <4>1. q \in DOMAIN planHistory => planHistory[q] \in Seq(Nat)
        BY Zenon, <1>0 DEF CollectorTypeOK, IsMap
      <4>2. <<>> \in Seq(Nat)
        OBVIOUS
      <4>3. Plans(q) \in Seq(Nat)
        BY Zenon, <4>1, <4>2 DEF Plans
      <4> QED BY Zenon, <4>3
    <3>3. now \in Nat
      BY Zenon, <1>0 DEF CollectorTypeOK
    <3>4. AppendPlan(h, now) \in Seq(Nat)
      <4>1. CASE Len(h) >= PlanHistorySize
        <5>1. h # <<>>
          BY <4>1, CollectorAssumption
        <5>2. Tail(h) \in Seq(Nat)
          BY Zenon, <5>1, HeadTailProperties
        <5>3. Append(Tail(h), now) \in Seq(Nat)
          BY Zenon, <5>2, <3>3, AppendProperties
        <5> QED BY Zenon, <4>1, <5>3 DEF AppendPlan
      <4>2. CASE ~ (Len(h) >= PlanHistorySize)
        BY Zenon, <3>3, <4>2, AppendProperties DEF AppendPlan
      <4> QED BY Zenon, <4>1, <4>2
    <3>5. PICK g \in Seq(Nat) : g = AppendPlan(h, now)
      BY Zenon, <3>4
    <3>6. planHistory' = Put(planHistory, q, g)
      BY Zenon, <2>2, <3>1, <3>2, <3>5
    <3> QED BY Zenon, <1>0, <3>6 DEF CollectorTypeOK, IsMap, Put
  <2> QED BY Zenon, <2>1, <2>2 DEF CapturePlan
<1>6. DataInv'
  BY Zenon, <1>0, <1>1, DataUntouched
<1>7. CollectorTypeOK'
  BY Zenon, <1>0, <1>1, <1>4, <1>5, <1>6 DEF CollectorTypeOK, DataInv
<1>8. LoadOrder'
  BY Zenon, <1>0, <1>1, <1>2 DEF LoadOrder
<1>9. ClockOrder'
  BY Zenon, <1>0, <1>1, <1>2 DEF ClockOrder
<1>10. RetentionHolds'
  BY Zenon, <1>0, <1>1, <1>2 DEF RetentionHolds
<1> QED BY Zenon, <1>6, <1>7, <1>8, <1>9, <1>10 DEF CInv

\* Time passes, or nothing happens.
LEMMA ElapseStep ==
  ASSUME CInv, Elapse \/ UNCHANGED collectorVars
  PROVE  CInv'
<1>0. CollectorTypeOK /\ DataInv /\ LoadOrder /\ ClockOrder /\ RetentionHolds
  BY Zenon DEF CInv
<1>1. /\ UNCHANGED sampleVars
      /\ UNCHANGED <<planHistory, lastScrapeTime, columns, scrapeStep, scrapeAt, rowCount, tracked, loading>>
      /\ \/ now' = now
         \/ scrapeStep # "new" /\ now' = now + 1
  BY Zenon DEF Elapse, collectorVars, scrapeVars
<1>2. samples' = samples
  BY Zenon, <1>1 DEF sampleVars
<1>3. DataInv'
  BY Zenon, <1>0, <1>1, DataUntouched
<1>4. now \in Nat /\ now' \in Nat /\ now <= now'
  BY <1>0, <1>1 DEF CollectorTypeOK
<1>5. CollectorTypeOK'
  BY Zenon, <1>0, <1>1, <1>3, <1>4 DEF CollectorTypeOK, DataInv
<1>6. LoadOrder'
  <2>1. CASE now' = now
    BY Zenon, <1>0, <1>1, <1>2, <2>1 DEF LoadOrder
  <2>2. CASE scrapeStep # "new"
    BY Zenon, <1>0, <1>1, <2>2, NothingToLoad DEF LoadOrder
  <2> QED BY Zenon, <1>1, <2>1, <2>2
<1>7. ClockOrder'
  <2>1. ASSUME NEW q \in DOMAIN samples, NEW i \in 1 .. Len(samples[q])
        PROVE  samples[q][i].at <= now'
    <3>1. samples[q][i] \in Sample
      BY Zenon, <1>0, ElementOfSeq DEF DataInv, IsMap
    <3>2. samples[q][i].at \in Nat
      BY Zenon, <3>1, SampleFacts
    <3>3. samples[q][i].at <= now
      BY Zenon, <1>0 DEF ClockOrder
    <3> QED BY <1>4, <3>2, <3>3
  <2>2. scrapeAt \in Nat /\ scrapeAt <= now'
    BY <1>0, <1>4 DEF ClockOrder, CollectorTypeOK
  <2> QED BY Zenon, <1>0, <1>1, <1>2, <2>1, <2>2 DEF ClockOrder
<1>8. RetentionHolds'
  BY Zenon, <1>0, <1>1, <1>2 DEF RetentionHolds
<1> QED BY Zenon, <1>3, <1>5, <1>6, <1>7, <1>8 DEF CInv

\* Storing a sample removes none.
LEMMA StoreLosesNothing ==
  ASSUME CollectorTypeOK, NEW s \in Sample, StoreSample(s)
  PROVE  LosesOnlyAged
<1> SUFFICES ASSUME NEW q \in DOMAIN samples, NEW i \in 1 .. Len(samples[q])
             PROVE  q \in DOMAIN samples'
                      /\ \E j \in 1 .. Len(samples'[q]) : samples'[q][j] = samples[q][i]
  BY Zenon DEF LosesOnlyAged
<1>1. q \in DOMAIN samples'
  BY Zenon, StoreSampleHistories
<1>2. CASE q # s.qid
  BY ZenonT(40), <1>1, <1>2, StoreSampleHistories
<1>3. CASE q = s.qid
  <2>1. History(s.qid) = samples[q]
    BY Zenon, <1>3 DEF History
  <2>2. /\ Len(samples[q]) \in Nat /\ Len(samples'[q]) = Len(samples[q]) + 1
        /\ samples'[q][i] = samples[q][i]
    <3>1. /\ Len(History(s.qid)) \in Nat /\ Len(samples'[s.qid]) = Len(History(s.qid)) + 1
          /\ \A k \in 1 .. Len(History(s.qid)) : samples'[s.qid][k] = History(s.qid)[k]
      BY Zenon, StoreSampleHistories
    <3> QED BY Zenon, <1>3, <2>1, <3>1
  <2>3. i \in 1 .. Len(samples'[q])
    BY <2>2
  <2> QED BY Zenon, <1>1, <2>2, <2>3
<1> QED BY Zenon, <1>2, <1>3

\* Pruning at a cutoff not after now - Retention removes aged-out samples only.
LEMMA PruneLosesOnlyAged ==
  ASSUME CollectorTypeOK, DataInv, NEW hist, DOMAIN hist = DOMAIN samples,
         \A q \in DOMAIN samples : hist[q] = samples[q],
         NEW cutoff \in Int, cutoff <= now - Retention, PruneLocked(hist, cutoff)
  PROVE  LosesOnlyAged
<1>0. \A q \in DOMAIN samples : \A i \in 1 .. Len(samples[q]) :
        \/ samples[q][i].at < cutoff
        \/ q \in DOMAIN samples' /\ \E j \in 1 .. Len(samples'[q]) : samples'[q][j] = samples[q][i]
  BY Zenon, PruneKeeps
<1> SUFFICES ASSUME NEW q \in DOMAIN samples, NEW i \in 1 .. Len(samples[q]),
                    samples[q][i].at < cutoff
             PROVE  samples[q][i].at < now - Retention
  BY Zenon, <1>0 DEF LosesOnlyAged
<1>1. samples[q] \in Seq(Sample)
  BY Zenon DEF DataInv, IsMap
<1>2. samples[q][i].at \in Nat
  BY Zenon, <1>1, ElementOfSeq, SampleFacts
<1>3. now - Retention \in Int
  BY CollectorAssumption DEF CollectorTypeOK
<1> QED BY <1>2, <1>3

\* Every step of the collector keeps the invariant.
LEMMA CInvStep ==
  ASSUME CInv, [CollectorNext]_collectorVars
  PROVE  CInv'
<1>1. CASE BackfillSample
  BY Zenon, <1>1, BackfillSampleStep
<1>2. CASE BackfillEnd
  BY Zenon, <1>2, BackfillEndStep
<1>3. CASE \E q \in QueryID, text \in QueryText, lat \in Latency : ScrapeRow(q, text, lat)
  BY Zenon, <1>3, ScrapeRowStep
<1>4. CASE ScrapePrune
  BY Zenon, <1>4, ScrapePruneStep
<1>5. CASE ScrapeQueryFails \/ ScrapeStart \/ ScrapeFail \/ ScrapeComplete \/ ScrapeEnd \/ Stop
  BY Zenon, <1>5, ScrapeControlStep
<1>6. CASE CapturePlan
  BY Zenon, <1>6, CapturePlanStep
<1>7. CASE Elapse \/ UNCHANGED collectorVars
  BY Zenon, <1>7, ElapseStep
<1> QED BY Zenon, <1>1, <1>2, <1>3, <1>4, <1>5, <1>6, <1>7 DEF CollectorNext

\* The inductive invariant of the collector.
THEOREM CollectorInvariance == CollectorSpec => []CInv
BY CInvInit, CInvStep, PTL DEF CollectorSpec

\* Every variable of the collector keeps its type.
THEOREM CollectorTypeCorrect == CollectorSpec => []CollectorTypeOK
<1>1. CInv => CollectorTypeOK
  BY Zenon DEF CInv
<1> QED BY CollectorInvariance, <1>1, PTL

\* The fingerprint index is the exact inverse of the per-queryid fingerprints
\* and neither map outlives the samples.
THEOREM IndexAlwaysConsistent == CollectorSpec => []IndexConsistent
<1>1. CInv => IndexConsistent
  BY Zenon DEF CInv, DataInv
<1> QED BY CollectorInvariance, <1>1, PTL

\* Histories are never empty, never mixed and always sorted by time, which is
\* what the binary searches of pruneLocked assume.
THEOREM HistoriesAlwaysOrdered == CollectorSpec => []HistoriesOrdered
<1>1. CInv => HistoriesOrdered
  BY Zenon DEF CInv, DataInv
<1> QED BY CollectorInvariance, <1>1, PTL

\* A queryid is filed under the fingerprint of its newest sample.
THEOREM FingerprintAlwaysCurrent == CollectorSpec => []FingerprintCurrent
<1>1. CInv => FingerprintCurrent
  BY Zenon DEF CInv, DataInv
<1> QED BY CollectorInvariance, <1>1, PTL

\* Nothing older than the retention period outlives the scrape that ages it.
THEOREM RetentionAlwaysHolds == CollectorSpec => []RetentionHolds
<1>1. CInv => RetentionHolds
  BY Zenon DEF CInv
<1> QED BY CollectorInvariance, <1>1, PTL

\* No step removes a sample that is still inside the retention period.
THEOREM NoRecentSampleLost == CollectorSpec => OnlyAgedOutGoes
<1>1. CInv /\ [CollectorNext]_collectorVars => [LosesOnlyAged]_samples
  <2> SUFFICES ASSUME CInv, CollectorNext, samples' # samples
               PROVE  LosesOnlyAged
    BY Zenon DEF collectorVars, sampleVars
  <2>0. /\ CollectorTypeOK /\ DataInv
        /\ now \in Nat /\ scrapeAt \in Nat /\ Retention \in Nat /\ scrapeAt <= now
        /\ loading \in Seq(StoredRow(Nat))
    BY Zenon, CollectorAssumption DEF CInv, CollectorTypeOK, ClockOrder
  <2>1. CASE BackfillSample
    <3>1. PICK row \in StoredRow(Nat) : row = Head(loading)
      BY Zenon, <2>0, <2>1, HeadTailProperties DEF BackfillSample
    <3>2. PICK s \in Sample : s = Restored(row)
      BY Zenon, RestoredTyped
    <3>3. StoreSample(s)
      BY Zenon, <2>1, <3>1, <3>2 DEF BackfillSample
    <3> QED BY Zenon, <2>0, <3>3, StoreLosesNothing
  <2>2. CASE BackfillEnd
    <3>1. PICK hist : hist = [q \in DOMAIN samples |-> SortByTime(samples[q])]
      BY Zenon
    <3>2. PICK cutoff \in Int : cutoff = now - Retention
      BY <2>0
    <3>3. PruneLocked(hist, cutoff)
      BY Zenon, <2>2, <3>1, <3>2 DEF BackfillEnd, sampleVars
    <3>4. DOMAIN hist = DOMAIN samples /\ \A q \in DOMAIN samples : hist[q] = samples[q]
      BY Zenon, <2>0, <3>1, SortChangesNothing
    <3>5. cutoff <= now - Retention
      BY <3>2
    <3> QED BY Zenon, <2>0, <3>3, <3>4, <3>5, PruneLosesOnlyAged
  <2>3. CASE \E q \in QueryID, text \in QueryText, lat \in Latency : ScrapeRow(q, text, lat)
    <3>1. PICK q \in QueryID, text \in QueryText, lat \in Latency : ScrapeRow(q, text, lat)
      BY Zenon, <2>3
    <3>2. [qid |-> q, fp |-> FingerprintQuery[text], at |-> scrapeAt, lat |-> lat] \in Sample
      BY Zenon, <2>0, CollectorAssumption DEF Sample
    <3>3. StoreSample([qid |-> q, fp |-> FingerprintQuery[text], at |-> scrapeAt, lat |-> lat])
      BY Zenon, <3>1 DEF ScrapeRow, sampleVars
    <3>4. PICK s \in Sample :
            s = [qid |-> q, fp |-> FingerprintQuery[text], at |-> scrapeAt, lat |-> lat]
      BY Zenon, <3>2
    <3>5. StoreSample(s)
      BY Zenon, <3>3, <3>4
    <3> QED BY Zenon, <2>0, <3>5, StoreLosesNothing
  <2>4. CASE ScrapePrune
    <3>1. PICK hist : hist = samples
      BY Zenon
    <3>2. PICK cutoff \in Int : cutoff = scrapeAt - Retention
      BY <2>0
    <3>3. PruneLocked(hist, cutoff)
      BY Zenon, <2>4, <3>1, <3>2 DEF ScrapePrune
    <3>4. DOMAIN hist = DOMAIN samples /\ \A q \in DOMAIN samples : hist[q] = samples[q]
      BY Zenon, <3>1
    <3>5. cutoff <= now - Retention
      BY <2>0, <3>2
    <3> QED BY Zenon, <2>0, <3>3, <3>4, <3>5, PruneLosesOnlyAged
  <2> QED BY Zenon, <2>1, <2>2, <2>3, <2>4
       DEF CollectorNext, ScrapeQueryFails, ScrapeStart, ScrapeFail, ScrapeComplete,
           CapturePlan, ScrapeEnd, Stop, Elapse, sampleVars
<1> QED BY CollectorInvariance, <1>1, PTL DEF CollectorSpec, OnlyAgedOutGoes
-----------------------------------------------------------------------------
\* What readers of the collector get: SamplesInRange is exact, and how often a
\* sample is in memory.

\* A Go map is finite: only finitely many queryids ever have samples.
FiniteHistories == IsFiniteSet(DOMAIN samples)

LEMMA FiniteHistoriesStep ==
  ASSUME CInv, FiniteHistories, [CollectorNext]_collectorVars
  PROVE  FiniteHistories'
<1>1. ASSUME NEW s, StoreSample(s) PROVE FiniteHistories'
  <2>1. DOMAIN samples' = DOMAIN samples \cup {s.qid}
    BY Zenon, <1>1 DEF StoreSample, Put
  <2> QED BY Zenon, <2>1, FS_AddElement DEF FiniteHistories
<1>2. ASSUME NEW hist, NEW cutoff, PruneLocked(hist, cutoff), DOMAIN hist = DOMAIN samples
      PROVE  FiniteHistories'
  <2>1. DOMAIN samples' \subseteq DOMAIN samples
    BY Zenon, <1>2 DEF PruneLocked, Surviving
  <2> QED BY Zenon, <2>1, FS_Subset DEF FiniteHistories
<1>3. CASE samples' = samples
  BY Zenon, <1>3 DEF FiniteHistories
<1>4. CASE BackfillSample
  BY Zenon, <1>1, <1>4 DEF BackfillSample
<1>5. CASE BackfillEnd
  <2>1. CASE samples = EmptyMap
    BY Zenon, <1>3, <1>5, <2>1 DEF BackfillEnd, sampleVars
  <2>2. CASE samples # EmptyMap
    <3>1. PICK hist : hist = [q \in DOMAIN samples |-> SortByTime(samples[q])]
      BY Zenon
    <3>2. PruneLocked(hist, now - Retention) /\ DOMAIN hist = DOMAIN samples
      BY Zenon, <1>5, <2>2, <3>1 DEF BackfillEnd
    <3> QED BY Zenon, <1>2, <3>2
  <2> QED BY Zenon, <2>1, <2>2
<1>6. ASSUME NEW q \in QueryID, NEW text \in QueryText, NEW lat \in Latency, ScrapeRow(q, text, lat)
      PROVE  FiniteHistories'
  <2>1. CASE text \in ExplainText
    BY Zenon, <1>3, <1>6, <2>1 DEF ScrapeRow, sampleVars
  <2>2. CASE text \notin ExplainText
    BY Zenon, <1>1, <1>6, <2>2 DEF ScrapeRow
  <2> QED BY Zenon, <2>1, <2>2
<1>7. CASE ScrapePrune
  BY Zenon, <1>2, <1>7 DEF ScrapePrune
<1>8. CASE ScrapeQueryFails \/ ScrapeStart \/ ScrapeFail \/ ScrapeComplete \/ ScrapeEnd \/ Stop
           \/ CapturePlan \/ Elapse \/ UNCHANGED collectorVars
  <2>1. samples' = samples
    BY Zenon, <1>8 DEF ScrapeQueryFails, ScrapeStart, ScrapeFail, ScrapeComplete, ScrapeEnd, Stop,
                CapturePlan, Elapse, collectorVars, sampleVars
  <2> QED BY Zenon, <1>3, <2>1
<1> QED BY Zenon, <1>4, <1>5, <1>6, <1>7, <1>8 DEF CollectorNext
-----------------------------------------------------------------------------
\* The records at a set of positions.
At(P) == {samples[pos[1]][pos[2]] : pos \in P}

\* Those of the positions that hold x.
Holding(P, x) == {pos \in P : samples[pos[1]][pos[2]] = x}

\* What it is for r to be the samples at the positions P.
IsReadOf(r, P) ==
  /\ r \in Seq(Sample)
  /\ IsFiniteSet(P) /\ Len(r) = Cardinality(P)
  /\ Range(r) = At(P)
  /\ \A x : Occurrences(r, x) = Cardinality(Holding(P, x))

\* Positions of one history, with and without its queryid.
LEMMA Labelled ==
  ASSUME NEW p, NEW A, NEW P, IsFiniteSet(A), \A pos : pos \in P <=> \E i \in A : pos = <<p, i>>
  PROVE  IsFiniteSet(P) /\ Cardinality(P) = Cardinality(A)
<1> DEFINE f == [i \in A |-> <<p, i>>]
<1>1. f \in [A -> P]
  BY Zenon
<1>2. \A i, j \in A : f[i] = f[j] => i = j
  BY Zenon
<1>3. \A pos \in P : \E i \in A : f[i] = pos
  BY Zenon
<1>4. f \in Bijection(A, P)
  <2> HIDE DEF f
  <2>1. DOMAIN f = A
    BY Zenon, <1>1
  <2> QED BY Zenon, <1>1, <1>2, <1>3, <2>1 DEF Bijection, Injection, Surjection, IsInjective
<1> HIDE DEF f
<1>5. ExistsBijection(A, P)
  BY Zenon, <1>4 DEF ExistsBijection
<1> QED BY Zenon, <1>5, FS_Bijection

\* The positions in a range, one at a time.
LEMMA InRangeMember ==
  ASSUME NEW Q, NEW from, NEW to, NEW pos
  PROVE  pos \in InRange(Q, from, to)
           <=> \E q \in Q : \E i \in DOMAIN samples[q] :
                 pos = <<q, i>> /\ samples[q][i].at \in from .. to
BY DEF InRange

\* A queryid's own samples in a range.
LEMMA DirectExact ==
  ASSUME CollectorTypeOK, DataInv, NEW p, NEW from \in Int, NEW to \in Int
  PROVE  /\ IsReadOf(Direct(p, from, to), InRange({p} \cap DOMAIN samples, from, to))
         /\ Chronological(Direct(p, from, to))
<1> DEFINE r == Direct(p, from, to)
           P == InRange({p} \cap DOMAIN samples, from, to)
           h == History(p)
           K == Within(h, from, to)
<1>1. h \in Seq(Sample) /\ TimesOK(h)
  BY Zenon, HistoryTyped
<1>2. Chronological(h)
  <2>1. CASE p \in DOMAIN samples
    BY Zenon, <2>1 DEF History, DataInv, HistoriesOrdered
  <2>2. CASE p \notin DOMAIN samples
    BY <2>2 DEF History, Chronological
  <2> QED BY Zenon, <2>1, <2>2
<1>3. /\ r \in Seq(Sample) /\ IsFiniteSet(K) /\ Len(r) = Cardinality(K)
      /\ Range(r) = {h[i] : i \in K} /\ Chronological(r)
      /\ \A x : Occurrences(r, x) = Cardinality({i \in K : h[i] = x})
  <2>1. r = FilterRange(h, from, to)
    BY Zenon DEF Direct
  <2> HIDE DEF h, r
  <2>2. IsSelection(r, h, K, Sample)
    BY Zenon, <1>1, <2>1, FilterRangeExact
  <2> HIDE DEF K
  <2> QED BY Zenon, <1>2, <2>2 DEF IsSelection
<1>4. \A pos : pos \in P <=> p \in DOMAIN samples /\ \E i \in K : pos = <<p, i>>
  <2>1. CASE p \in DOMAIN samples
    <3>1. h = samples[p] /\ {p} \cap DOMAIN samples = {p} /\ DOMAIN h = 1 .. Len(h)
      BY <1>1, <2>1 DEF History
    <3>2. \A i : i \in K <=> i \in DOMAIN samples[p] /\ samples[p][i].at \in from .. to
      BY Zenon, <3>1 DEF Within
    <3> HIDE DEF K, h
    <3> QED BY <2>1, <3>1, <3>2, InRangeMember
  <2>2. CASE p \notin DOMAIN samples
    <3>1. {p} \cap DOMAIN samples = {}
      BY Zenon, <2>2
    <3> QED BY Zenon, <2>2, <3>1, InRangeMember
  <2> QED BY Zenon, <2>1, <2>2
<1>5. p \notin DOMAIN samples => K = {}
  BY DEF History, Within
<1>6. IsFiniteSet(P) /\ Cardinality(P) = Cardinality(K)
  <2>1. CASE p \in DOMAIN samples
    <3> HIDE DEF K, P
    <3>1. \A pos : pos \in P <=> \E i \in K : pos = <<p, i>>
      BY Zenon, <1>4, <2>1
    <3>2. IsFiniteSet(K)
      BY Zenon, <1>3
    <3> QED BY Zenon, <3>1, <3>2, Labelled
  <2>2. CASE p \notin DOMAIN samples
    <3>1. P = {} /\ K = {}
      BY Zenon, <1>4, <1>5, <2>2
    <3> QED BY Zenon, <3>1, FS_EmptySet
  <2> QED BY Zenon, <2>1, <2>2
<1>7. Range(r) = At(P)
  <2>1. CASE p \in DOMAIN samples
    <3>1. h = samples[p]
      BY Zenon, <2>1 DEF History
    <3>2. \A i : <<p, i>>[1] = p /\ <<p, i>>[2] = i
      BY Zenon
    <3>3. ASSUME NEW x \in Range(r) PROVE x \in At(P)
      <4>1. PICK i \in K : x = h[i]
        BY Zenon, <1>3
      <4> HIDE DEF P, K, h
      <4> QED BY Zenon, <1>4, <2>1, <3>1, <3>2, <4>1 DEF At
    <3>4. ASSUME NEW x \in At(P) PROVE x \in Range(r)
      <4>1. PICK pos \in P : x = samples[pos[1]][pos[2]]
        BY Zenon DEF At
      <4>2. PICK i \in K : pos = <<p, i>>
        BY Zenon, <1>4
      <4> HIDE DEF P, K, h
      <4> QED BY Zenon, <1>3, <3>1, <3>2, <4>1, <4>2
    <3> QED BY Zenon, <3>3, <3>4
  <2>2. CASE p \notin DOMAIN samples
    <3>1. P = {} /\ K = {}
      BY Zenon, <1>4, <1>5, <2>2
    <3> HIDE DEF P, K
    <3> QED BY Zenon, <1>3, <3>1 DEF At
  <2> QED BY Zenon, <2>1, <2>2
<1>8. ASSUME NEW x PROVE Occurrences(r, x) = Cardinality(Holding(P, x))
  <2> DEFINE A == {i \in K : h[i] = x}
  <2>1. Occurrences(r, x) = Cardinality(A)
    <3> HIDE DEF K, h, r
    <3> QED BY Zenon, <1>3
  <2>2. A \in SUBSET K
    BY Zenon
  <2>3. IsFiniteSet(A)
    <3> HIDE DEF A, K
    <3> QED BY Zenon, <1>3, <2>2, FS_Subset
  <2>4. CASE p \in DOMAIN samples
    <3>1. h = samples[p]
      BY Zenon, <2>4 DEF History
    <3>2. \A i : <<p, i>>[1] = p /\ <<p, i>>[2] = i
      BY Zenon
    <3> HIDE DEF P, K, h, r
    <3>3. \A pos : pos \in Holding(P, x) <=> \E i \in A : pos = <<p, i>>
      <4>1. ASSUME NEW pos \in Holding(P, x) PROVE \E i \in A : pos = <<p, i>>
        <5>1. pos \in P /\ samples[pos[1]][pos[2]] = x
          BY Zenon DEF Holding
        <5>2. PICK i \in K : pos = <<p, i>>
          BY Zenon, <1>4, <5>1
        <5>3. h[i] = x
          BY Zenon, <3>1, <3>2, <5>1, <5>2
        <5> QED BY Zenon, <5>2, <5>3
      <4>2. ASSUME NEW i \in A PROVE <<p, i>> \in Holding(P, x)
        <5>1. i \in K /\ h[i] = x
          BY Zenon
        <5>2. <<p, i>> \in P
          BY Zenon, <1>4, <2>4, <5>1
        <5>3. samples[<<p, i>>[1]][<<p, i>>[2]] = x
          BY Zenon, <3>1, <3>2, <5>1
        <5> QED BY Zenon, <5>2, <5>3 DEF Holding
      <4> HIDE DEF A
      <4> QED BY Zenon, <4>1, <4>2
    <3> HIDE DEF A
    <3> QED BY Zenon, <2>1, <2>3, <3>3, Labelled
  <2>5. CASE p \notin DOMAIN samples
    <3>1. Holding(P, x) = {} /\ A = {}
      BY Zenon, <1>4, <1>5, <2>5 DEF Holding
    <3> HIDE DEF A, P
    <3> QED BY Zenon, <2>1, <3>1
  <2> QED BY Zenon, <2>4, <2>5
<1> HIDE DEF P, K, h
<1>9. IsReadOf(r, P) /\ Chronological(r)
  BY Zenon, <1>3, <1>6, <1>7, <1>8 DEF IsReadOf
<1> QED BY Zenon, <1>9 DEF r, P

\* Reading two disjoint sets of positions one after the other.
LEMMA JoinReads ==
  ASSUME NEW r, NEW s, NEW P, NEW Q, IsReadOf(r, P), IsReadOf(s, Q), P \cap Q = {}
  PROVE  IsReadOf(r \o s, P \cup Q)
<1>1. /\ r \in Seq(Sample) /\ s \in Seq(Sample) /\ IsFiniteSet(P) /\ IsFiniteSet(Q)
      /\ Len(r) = Cardinality(P) /\ Len(s) = Cardinality(Q)
      /\ Range(r) = At(P) /\ Range(s) = At(Q)
  BY Zenon DEF IsReadOf
<1>2. IsFiniteSet(P \cup Q) /\ Cardinality(P \cup Q) = Cardinality(P) + Cardinality(Q)
  BY Zenon, <1>1, DisjointUnion
<1>3. /\ r \o s \in Seq(Sample) /\ Len(r \o s) = Len(r) + Len(s)
      /\ Len(r) \in Nat /\ Len(s) \in Nat
      /\ \A i \in 1 .. Len(r) + Len(s) : (r \o s)[i] = IF i <= Len(r) THEN r[i] ELSE s[i - Len(r)]
  <2>1. r \in Seq(Sample) /\ s \in Seq(Sample)
    BY Zenon, <1>1
  <2>2. /\ r \o s \in Seq(Sample) /\ Len(r \o s) = Len(r) + Len(s)
        /\ \A i \in 1 .. Len(r) + Len(s) : (r \o s)[i] = IF i <= Len(r) THEN r[i] ELSE s[i - Len(r)]
    BY Zenon, <2>1, ConcatProperties
  <2>3. Len(r) \in Nat /\ Len(s) \in Nat
    BY Zenon, <2>1, LenProperties
  <2> QED BY Zenon, <2>2, <2>3
<1>4. Range(r \o s) = Range(r) \cup Range(s)
  <2>1. DOMAIN r = 1 .. Len(r) /\ DOMAIN s = 1 .. Len(s) /\ DOMAIN (r \o s) = 1 .. Len(r) + Len(s)
    BY <1>1, <1>3
  <2>2. ASSUME NEW x \in Range(r \o s) PROVE x \in Range(r) \cup Range(s)
    <3>1. PICK i \in 1 .. Len(r) + Len(s) : x = (r \o s)[i]
      BY Zenon, <2>1 DEF Range
    <3>2. CASE i <= Len(r)
      <4>1. i \in 1 .. Len(r) /\ x = r[i]
        BY <1>3, <3>1, <3>2
      <4> QED BY Zenon, <2>1, <4>1 DEF Range
    <3>3. CASE ~ (i <= Len(r))
      <4>1. i - Len(r) \in 1 .. Len(s) /\ x = s[i - Len(r)]
        BY <1>3, <3>1, <3>3
      <4> QED BY Zenon, <2>1, <4>1 DEF Range
    <3> QED BY Zenon, <3>2, <3>3
  <2>3. ASSUME NEW x \in Range(r) PROVE x \in Range(r \o s)
    <3>1. PICK i \in 1 .. Len(r) : x = r[i]
      BY Zenon, <2>1 DEF Range
    <3>2. i \in 1 .. Len(r) + Len(s) /\ (r \o s)[i] = x
      BY <1>3, <3>1
    <3> QED BY Zenon, <2>1, <3>2 DEF Range
  <2>4. ASSUME NEW x \in Range(s) PROVE x \in Range(r \o s)
    <3>1. PICK i \in 1 .. Len(s) : x = s[i]
      BY Zenon, <2>1 DEF Range
    <3>2. i + Len(r) \in 1 .. Len(r) + Len(s) /\ ~ (i + Len(r) <= Len(r)) /\ (i + Len(r)) - Len(r) = i
      BY <1>3
    <3>3. (r \o s)[i + Len(r)] = x
      BY Zenon, <1>3, <3>1, <3>2
    <3> QED BY Zenon, <2>1, <3>2, <3>3 DEF Range
  <2> QED BY Zenon, <2>2, <2>3, <2>4
<1>5. At(P \cup Q) = At(P) \cup At(Q)
  BY Zenon DEF At
<1>6. ASSUME NEW x PROVE Occurrences(r \o s, x) = Cardinality(Holding(P \cup Q, x))
  <2>1. /\ Holding(P, x) \in SUBSET P /\ Holding(Q, x) \in SUBSET Q
        /\ Holding(P, x) \cap Holding(Q, x) = {}
        /\ Holding(P \cup Q, x) = Holding(P, x) \cup Holding(Q, x)
    BY Zenon DEF Holding
  <2>2. IsFiniteSet(Holding(P, x)) /\ IsFiniteSet(Holding(Q, x))
    BY Zenon, <1>1, <2>1, FS_Subset
  <2>3. Cardinality(Holding(P \cup Q, x)) = Cardinality(Holding(P, x)) + Cardinality(Holding(Q, x))
    BY Zenon, <2>1, <2>2, DisjointUnion
  <2>4. Occurrences(r \o s, x) = Occurrences(r, x) + Occurrences(s, x)
    BY Zenon, <1>1, CountJoin
  <2> QED BY Zenon, <2>3, <2>4 DEF IsReadOf
<1> QED BY Zenon, <1>1, <1>2, <1>3, <1>4, <1>5, <1>6 DEF IsReadOf

\* The loop over the other queryids of a fingerprint appends the samples of
\* each, so that in the end it has read all of them.
LEMMA MergedExact ==
  ASSUME CollectorTypeOK, DataInv, NEW from \in Int, NEW to \in Int,
         NEW q \in DOMAIN samples, NEW others \in Seq(DOMAIN samples),
         q \notin Range(others),
         \A i, j \in 1 .. Len(others) : others[i] = others[j] => i = j
  PROVE  LET merged[n \in 0 .. Len(others)] ==
               IF n = 0 THEN Direct(q, from, to) ELSE merged[n - 1] \o Direct(others[n], from, to)
         IN  IsReadOf(merged[Len(others)], InRange({q} \cup Range(others), from, to))
<1> DEFINE N == Len(others)
           V == Seq(Sample)
           d(p) == Direct(p, from, to)
           join(u, p) == u \o d(p)
           step == [n \in 1 .. N |-> [u \in V |-> join(u, others[n])]]
           body(f) == [n \in 0 .. N |-> IF n = 0 THEN d(q) ELSE join(f[n - 1], others[n])]
<1>1. N \in Nat /\ DOMAIN others = 1 .. N /\ \A n \in 1 .. N : others[n] \in DOMAIN samples
  BY Zenon, LenProperties, ElementOfSeq
<1>2. \A p \in DOMAIN samples : IsReadOf(d(p), InRange({p}, from, to))
  <2> SUFFICES ASSUME NEW p \in DOMAIN samples PROVE IsReadOf(d(p), InRange({p}, from, to))
    BY Zenon
  <2>1. {p} \cap DOMAIN samples = {p}
    BY Zenon
  <2> QED BY Zenon, <2>1, DirectExact
<1>3. \A p \in DOMAIN samples : d(p) \in V
  <2> HIDE DEF d
  <2> QED BY Zenon, <1>2 DEF IsReadOf
<1> HIDE DEF d
<1>4. step \in [1 .. N -> [V -> V]] /\ d(q) \in V
  <2>1. \A u \in V : \A p \in DOMAIN samples : join(u, p) \in V
    BY Zenon, <1>3, ConcatProperties
  <2> HIDE DEF join, V
  <2> QED BY Zenon, <1>1, <1>3, <2>1
<1>5. \E f : IsLoop(f, N, V, d(q), step)
  <2>1. N \in Nat
    BY Zenon, <1>1
  <2> HIDE DEF step, N, V
  <2> QED BY Zenon, <1>4, <2>1, LoopExists
<1> HIDE DEF V, join
<1>6. PICK f \in [0 .. N -> V] :
        f[0] = d(q) /\ \A n \in 1 .. N : f[n] = step[n][f[n - 1]]
  BY Zenon, <1>5 DEF IsLoop
<1>7. f = body(f)
  <2>1. ASSUME NEW n \in 0 .. N PROVE f[n] = body(f)[n]
    <3>1. CASE n = 0
      BY Zenon, <1>6, <3>1
    <3>2. CASE n # 0
      <4>1. n \in 1 .. N /\ n - 1 \in 0 .. N
        BY <1>1, <3>2
      <4>2. f[n - 1] \in V
        BY Zenon, <4>1
      <4> QED BY Zenon, <1>6, <3>2, <4>1, <4>2
    <3> QED BY Zenon, <3>1, <3>2
  <2> QED BY Zenon, <2>1
<1> DEFINE merged == CHOOSE g : g = body(g)
<1>8. merged = body(merged)
  <2> HIDE DEF body
  <2> QED BY Zenon, <1>7
<1> SUFFICES IsReadOf(merged[N], InRange({q} \cup Range(others), from, to))
  BY Zenon DEF d, join
<1> HIDE DEF merged
<1>9. merged[0] = d(q) /\ \A n \in 1 .. N : merged[n] = join(merged[n - 1], others[n])
  <2>1. \A n \in 0 .. N : merged[n] = body(merged)[n]
    <3> HIDE DEF body
    <3> QED BY Zenon, <1>8
  <2>2. /\ body(merged)[0] = d(q)
        /\ \A n \in 1 .. N : body(merged)[n] = join(merged[n - 1], others[n])
    BY <1>1
  <2> HIDE DEF body
  <2> QED BY <1>1, <2>1, <2>2
<1> HIDE DEF body, step
<1> DEFINE Q(n) == {q} \cup {others[i] : i \in 1 .. n}
           T == {n \in 0 .. N : IsReadOf(merged[n], InRange(Q(n), from, to))}
<1>10. 0 \in T
  <2>1. Q(0) = {q} /\ 0 \in 0 .. N
    BY <1>1
  <2> HIDE DEF Q
  <2> QED BY Zenon, <1>2, <1>9, <2>1
<1>11. ASSUME NEW n \in 1 .. N, n - 1 \in T PROVE n \in T
  <2> DEFINE A == InRange(Q(n - 1), from, to)
             B == InRange({others[n]}, from, to)
  <2>1. IsReadOf(merged[n - 1], A) /\ IsReadOf(d(others[n]), B)
    BY Zenon, <1>1, <1>2, <1>11
  <2>2. Q(n) = Q(n - 1) \cup {others[n]}
    <3>1. 1 .. n = (1 .. n - 1) \cup {n}
      BY <1>1
    <3> QED BY Zenon, <3>1
  <2>3. others[n] \notin Q(n - 1)
    <3>1. others[n] # q
      BY Zenon, <1>1 DEF Range
    <3>2. ASSUME NEW i \in 1 .. n - 1 PROVE others[n] # others[i]
      <4>1. i \in 1 .. N /\ i # n
        BY <1>1
      <4> QED BY Zenon, <4>1
    <3> QED BY Zenon, <3>1, <3>2
  <2>4. A \cup B = InRange(Q(n), from, to)
    <3> HIDE DEF Q
    <3> QED BY <2>2 DEF InRange
  <2>5. A \cap B = {}
    <3> SUFFICES ASSUME NEW pos \in A, pos \in B PROVE FALSE
      BY Zenon
    <3>1. PICK p \in Q(n - 1) : \E i \in DOMAIN samples[p] : pos = <<p, i>>
      <4> HIDE DEF Q
      <4> QED BY InRangeMember
    <3>2. \E i \in DOMAIN samples[others[n]] : pos = <<others[n], i>>
      BY InRangeMember
    <3>3. p = others[n]
      BY <3>1, <3>2
    <3> QED BY Zenon, <2>3, <3>3
  <2> HIDE DEF A, B, Q
  <2>6. IsReadOf(join(merged[n - 1], others[n]), A \cup B)
    BY Zenon, <2>1, <2>5, JoinReads DEF join
  <2>7. n \in 0 .. N
    <3>1. N \in Nat
      BY Zenon, <1>1
    <3> HIDE DEF N
    <3> QED BY <3>1
  <2> QED BY Zenon, <1>9, <2>4, <2>6, <2>7
<1>12. N \in T
  <2>0. N \in Nat
    BY Zenon, <1>1
  <2> HIDE DEF T, N
  <2>1. \A n \in 0 .. N : n \in T
    BY Zenon, <2>0, <1>10, <1>11, InductionUpTo
  <2> QED BY <2>0, <2>1
<1>13. Q(N) = {q} \cup Range(others)
  BY Zenon, <1>1 DEF Range
<1> HIDE DEF Q
<1> QED BY Zenon, <1>12, <1>13

\* The index leads from a queryid to all queryids with its fingerprint, itself
\* included.
LEMMA SiblingsExact ==
  ASSUME DataInv, NEW q
  PROVE  /\ Siblings(q) = SameQuery(q)
         /\ SameQuery(q) \subseteq DOMAIN samples
         /\ q \in DOMAIN samples => q \in SameQuery(q)
         /\ q \notin DOMAIN samples => SameQuery(q) = {}
<1>1. /\ DOMAIN queryFingerprint = DOMAIN samples
      /\ DOMAIN fingerprintIndex = {queryFingerprint[p] : p \in DOMAIN queryFingerprint}
      /\ \A fp \in DOMAIN fingerprintIndex :
           fingerprintIndex[fp] = {p \in DOMAIN queryFingerprint : queryFingerprint[p] = fp}
  BY Zenon DEF DataInv, IndexConsistent
<1>2. CASE q \in DOMAIN samples
  <2>1. queryFingerprint[q] \in DOMAIN fingerprintIndex
    BY Zenon, <1>1, <1>2
  <2>2. Siblings(q) = fingerprintIndex[queryFingerprint[q]]
    BY Zenon, <1>1, <1>2, <2>1 DEF Siblings
  <2> QED BY Zenon, <1>1, <1>2, <2>1, <2>2 DEF SameQuery
<1>3. CASE q \notin DOMAIN samples
  BY Zenon, <1>1, <1>3 DEF Siblings, SameQuery
<1> QED BY Zenon, <1>2, <1>3

\* SamplesInRange answers with a queryid's own samples when they suffice, and
\* else with those of all queryids of its fingerprint: each one once, none
\* that is not stored, in order of time.
LEMMA SamplesInRangeExact ==
  ASSUME CollectorTypeOK, DataInv, FiniteHistories, NEW q, NEW from \in Int, NEW to \in Int
  PROVE  LET r == SamplesInRange(q, from, to)
             own == InRange({q} \cap DOMAIN samples, from, to)
             all == IF Cardinality(own) >= FallbackMin THEN own ELSE InRange(SameQuery(q), from, to)
         IN  IsReadOf(r, all) /\ Chronological(r)
<1> DEFINE direct == Direct(q, from, to)
           own == InRange({q} \cap DOMAIN samples, from, to)
           shared == InRange(SameQuery(q), from, to)
           others == Ascending(Siblings(q) \ {q})
           body(f) == [n \in 0 .. Len(others) |->
                         IF n = 0 THEN direct ELSE f[n - 1] \o Direct(others[n], from, to)]
           merged == CHOOSE f : f = body(f)
           all == IF Cardinality(own) >= FallbackMin THEN own ELSE shared
           r == SamplesInRange(q, from, to)
<1>1. r = IF \/ Len(direct) >= FallbackMin
             \/ Cardinality(Siblings(q)) <= 1
             \/ Len(merged[Len(others)]) <= Len(direct)
          THEN direct ELSE SortByTime(merged[Len(others)])
  BY Zenon DEF SamplesInRange
<1>2. IsReadOf(direct, own) /\ Chronological(direct)
  BY Zenon, DirectExact
<1>3. Len(direct) = Cardinality(own)
  BY Zenon, <1>2 DEF IsReadOf
<1>4. /\ Siblings(q) = SameQuery(q) /\ SameQuery(q) \subseteq DOMAIN samples
      /\ q \in DOMAIN samples => q \in SameQuery(q)
      /\ q \notin DOMAIN samples => SameQuery(q) = {}
  BY Zenon, SiblingsExact
<1>5. IsFiniteSet(Siblings(q)) /\ Siblings(q) \in SUBSET Nat
  <2>1. DOMAIN samples \subseteq Nat
    BY Zenon, CollectorAssumption DEF DataInv, IsMap
  <2>2. IsFiniteSet(Siblings(q))
    BY Zenon, <1>4, FS_Subset DEF FiniteHistories
  <2> QED BY Zenon, <1>4, <2>1, <2>2
<1>6. q \in DOMAIN samples => IsReadOf(merged[Len(others)], shared)
  <2> SUFFICES ASSUME q \in DOMAIN samples PROVE IsReadOf(merged[Len(others)], shared)
    BY Zenon
  <2> DEFINE S == Siblings(q) \ {q}
  <2>1. S \in SUBSET Nat /\ IsFiniteSet(S) /\ S \subseteq DOMAIN samples
    BY Zenon, <1>4, <1>5, FS_RemoveElement
  <2> HIDE DEF S
  <2>2. /\ Ascending(S) \in Seq(S) /\ Range(Ascending(S)) = S
        /\ \A i, j \in 1 .. Len(Ascending(S)) : Ascending(S)[i] = Ascending(S)[j] => i = j
    BY Zenon, <2>1, AscendingExact
  <2>3. others = Ascending(S)
    BY Zenon DEF S
  <2> HIDE DEF others
  <2>4. others \in Seq(DOMAIN samples) /\ q \notin Range(others)
    BY Zenon, <2>1, <2>2, <2>3, SeqMonotonic DEF S
  <2>5. \A i, j \in 1 .. Len(others) : others[i] = others[j] => i = j
    BY Zenon, <2>2, <2>3
  <2>6. IsReadOf(merged[Len(others)], InRange({q} \cup Range(others), from, to))
    BY Zenon, <2>4, <2>5, MergedExact
  <2>7. {q} \cup Range(others) = SameQuery(q)
    BY Zenon, <1>4, <2>2, <2>3 DEF S
  <2> QED BY Zenon, <2>6, <2>7
<1>7. q \in DOMAIN samples => own \subseteq shared
  <2> SUFFICES ASSUME q \in DOMAIN samples PROVE own \subseteq shared
    BY Zenon
  <2>1. {q} \cap DOMAIN samples \subseteq SameQuery(q)
    BY Zenon, <1>4
  <2> QED BY <2>1 DEF InRange
<1>8. q \notin DOMAIN samples => own = {} /\ shared = {}
  <2> SUFFICES ASSUME q \notin DOMAIN samples PROVE own = {} /\ shared = {}
    BY Zenon
  <2>1. {q} \cap DOMAIN samples = {} /\ SameQuery(q) = {}
    BY Zenon, <1>4
  <2> QED BY Zenon, <2>1, InRangeMember
<1> SUFFICES IsReadOf(r, all) /\ Chronological(r)
  BY Zenon
<1> DEFINE m == merged[Len(others)]
<1> HIDE DEF direct, own, shared, others, body, merged, m, r
<1>9. Len(direct) \in Nat /\ FallbackMin \in Nat
  BY Zenon, <1>2, LenProperties, CollectorAssumption DEF IsReadOf
<1>10. CASE Len(direct) >= FallbackMin
  BY Zenon, <1>1, <1>2, <1>3, <1>10
<1>11. CASE ~ (Len(direct) >= FallbackMin) /\ q \notin DOMAIN samples
  <2>1. Siblings(q) = {} /\ own = shared
    BY Zenon, <1>4, <1>8, <1>11
  <2>2. Cardinality(Siblings(q)) <= 1
    <3>1. Cardinality({}) = 0
      BY Zenon, FS_EmptySet
    <3>2. Cardinality(Siblings(q)) = 0
      BY Zenon, <2>1, <3>1
    <3> QED BY <3>2
  <2> QED BY Zenon, <1>1, <1>2, <2>1, <2>2
<1>12. CASE ~ (Len(direct) >= FallbackMin) /\ q \in DOMAIN samples
  <2>0. all = shared
    BY Zenon, <1>3, <1>12
  <2>1. IsReadOf(m, shared)
    BY Zenon, <1>6, <1>12 DEF m
  <2>2. /\ m \in Seq(Sample) /\ IsFiniteSet(shared) /\ Len(m) = Cardinality(shared)
        /\ Range(m) = At(shared)
    BY Zenon, <2>1 DEF IsReadOf
  <2>3. ASSUME Cardinality(Siblings(q)) <= 1 PROVE own = shared
    <3>1. Siblings(q) = {q}
      <4>1. Cardinality({q}) = 1 /\ IsFiniteSet({q}) /\ {q} \in SUBSET Siblings(q)
        BY Zenon, <1>4, <1>12, FS_Singleton
      <4>2. Cardinality(Siblings(q)) \in Nat /\ Cardinality({q}) <= Cardinality(Siblings(q))
        BY Zenon, <1>5, <4>1, FS_Subset, FS_CardinalityType
      <4>3. Cardinality(Siblings(q)) = Cardinality({q})
        BY <2>3, <4>1, <4>2
      <4> QED BY Zenon, <1>5, <4>1, <4>3, FS_Subset
    <3>2. {q} \cap DOMAIN samples = SameQuery(q)
      BY Zenon, <1>4, <1>12, <3>1
    <3> QED BY Zenon, <3>2 DEF own, shared
  <2>4. ASSUME Len(m) <= Len(direct) PROVE own = shared
    <3>1. Cardinality(own) <= Cardinality(shared) /\ Cardinality(shared) <= Cardinality(own)
      BY Zenon, <1>3, <1>7, <1>12, <2>2, <2>4, FS_Subset
    <3>2. Cardinality(own) \in Nat /\ Cardinality(shared) \in Nat
      BY Zenon, <1>2, <2>2, FS_CardinalityType DEF IsReadOf
    <3>3. Cardinality(shared) = Cardinality(own)
      BY <3>1, <3>2
    <3> QED BY Zenon, <1>7, <1>12, <2>2, <3>3, FS_Subset
  <2>5. CASE Cardinality(Siblings(q)) <= 1 \/ Len(m) <= Len(direct)
    <3>1. r = direct
      BY Zenon, <1>1, <2>5 DEF m
    <3>2. own = shared
      BY Zenon, <2>3, <2>4, <2>5
    <3> QED BY Zenon, <1>2, <2>0, <3>1, <3>2
  <2>6. CASE ~ (Cardinality(Siblings(q)) <= 1 \/ Len(m) <= Len(direct))
    <3>1. r = SortByTime(m)
      BY Zenon, <1>1, <1>12, <2>6 DEF m
    <3>2. TimesOK(m)
      BY Zenon, <2>2, ElementOfSeq, SampleFacts DEF TimesOK
    <3>3. /\ SortByTime(m) \in Seq(Sample) /\ Len(SortByTime(m)) = Len(m)
          /\ Range(SortByTime(m)) = Range(m) /\ Chronological(SortByTime(m))
      BY Zenon, <2>2, <3>2, SortByTimeExact
    <3>4. \A x : Occurrences(SortByTime(m), x) = Cardinality(Holding(shared, x))
      <4>1. \A x : Occurrences(SortByTime(m), x) = Occurrences(m, x)
        BY Zenon, <2>2, <3>2, SortByTimeExact
      <4> QED BY Zenon, <2>1, <4>1 DEF IsReadOf
    <3>5. IsReadOf(r, shared) /\ Chronological(r)
      BY Zenon, <2>2, <3>1, <3>3, <3>4 DEF IsReadOf
    <3> QED BY Zenon, <2>0, <3>5
  <2> QED BY Zenon, <2>5, <2>6
<1> QED BY Zenon, <1>10, <1>11, <1>12

\* The histories stay finite.
LEMMA AlwaysFinite == CollectorSpec => []FiniteHistories
<1>1. CollectorInit => FiniteHistories
  BY Zenon, FS_EmptySet DEF CollectorInit, EmptyMap, FiniteHistories
<1>2. CInv /\ FiniteHistories /\ [CollectorNext]_collectorVars => FiniteHistories'
  BY Zenon, FiniteHistoriesStep
<1> QED BY <1>1, <1>2, CollectorInvariance, PTL DEF CollectorSpec

\* The contract of SamplesInRange follows from the invariant.
LEMMA MergeHolds == CInv /\ FiniteHistories => MergeIsExact
<1> SUFFICES ASSUME CInv, FiniteHistories, NEW q \in QueryID,
                    NEW from \in StartTime - Retention .. MaxTime, NEW to \in from .. MaxTime
             PROVE  LET r == SamplesInRange(q, from, to)
                        own == InRange({q} \cap DOMAIN samples, from, to)
                        all == IF Cardinality(own) >= FallbackMin THEN own
                               ELSE InRange(SameQuery(q), from, to)
                    IN  /\ Range(r) = At(all)
                        /\ \A s \in Range(r) : Occurrences(r, s) = Cardinality(Holding(all, s))
                        /\ Chronological(r)
  BY ZenonT(40) DEF MergeIsExact, At, Holding
<1> DEFINE r == SamplesInRange(q, from, to)
           own == InRange({q} \cap DOMAIN samples, from, to)
           all == IF Cardinality(own) >= FallbackMin THEN own
                  ELSE InRange(SameQuery(q), from, to)
<1>1. CollectorTypeOK /\ DataInv
  BY Zenon DEF CInv
<1>2. from \in Int /\ to \in Int
  BY CollectorAssumption DEF StartTime
<1>3. IsReadOf(r, all) /\ Chronological(r)
  BY Zenon, <1>1, <1>2, SamplesInRangeExact
<1>4. Range(r) = At(all) /\ \A s : Occurrences(r, s) = Cardinality(Holding(all, s))
  <2> HIDE DEF r, all
  <2> QED BY Zenon, <1>3 DEF IsReadOf
<1> QED BY Zenon, <1>3, <1>4

\* SamplesInRange keeps its contract in every state a reader can see.
THEOREM MergeAlwaysExact == CollectorSpec => []MergeIsExact
BY MergeHolds, CollectorInvariance, AlwaysFinite, PTL

\* What a read returns of a history, it returns as often as the history holds
\* it; and the queryid's own samples of the range are among it.
LEMMA ReadAsOften ==
  ASSUME CInv, FiniteHistories, NEW q \in QueryID, NEW from \in Int, NEW to \in Int, NEW x
  PROVE  LET n == Occurrences(SamplesInRange(q, from, to), x)
         IN  /\ n # 0 => n = Occurrences(History(x.qid), x) /\ x.at \in from .. to
             /\ x.qid = q /\ x.at \in from .. to => n = Occurrences(History(x.qid), x)
<1> DEFINE r == SamplesInRange(q, from, to)
           own == InRange({q} \cap DOMAIN samples, from, to)
           all == IF Cardinality(own) >= FallbackMin THEN own ELSE InRange(SameQuery(q), from, to)
           A == Places(History(x.qid), x)
<1>1. CollectorTypeOK /\ DataInv
  BY Zenon DEF CInv
<1>2. IsReadOf(r, all)
  BY Zenon, <1>1, SamplesInRangeExact
<1>3. PICK Q \in SUBSET DOMAIN samples :
        all = InRange(Q, from, to) /\ (q \in DOMAIN samples => q \in Q)
  <2>1. {q} \cap DOMAIN samples \in SUBSET DOMAIN samples /\ SameQuery(q) \in SUBSET DOMAIN samples
    BY Zenon DEF SameQuery
  <2>2. q \in DOMAIN samples => q \in {q} \cap DOMAIN samples /\ q \in SameQuery(q)
    BY Zenon DEF SameQuery
  <2> QED BY Zenon, <2>1, <2>2
<1> HIDE DEF r, all, own
<1>4. Occurrences(r, x) = Cardinality(Holding(all, x))
  BY Zenon, <1>2 DEF IsReadOf
<1>5. /\ IsFiniteSet(A) /\ Occurrences(History(x.qid), x) = Cardinality(A)
      /\ History(x.qid) \in Seq(Sample)
  BY Zenon, <1>1, HistoryTyped, CountType
<1>6. ASSUME NEW pos \in Holding(all, x)
      PROVE  x.qid \in Q /\ x.at \in from .. to /\ \E i \in A : pos = <<x.qid, i>>
  <2>1. pos \in InRange(Q, from, to) /\ samples[pos[1]][pos[2]] = x
    BY Zenon, <1>3 DEF Holding
  <2>2. PICK p \in Q : \E i \in DOMAIN samples[p] :
                       pos = <<p, i>> /\ samples[p][i].at \in from .. to
    BY Zenon, <2>1, InRangeMember
  <2>3. PICK i \in DOMAIN samples[p] : pos = <<p, i>> /\ samples[p][i].at \in from .. to
    BY Zenon, <2>2
  <2>4. samples[p][i] = x
    BY Zenon, <2>1, <2>3
  <2>5. samples[p] \in Seq(Sample) /\ \A j \in 1 .. Len(samples[p]) : samples[p][j].qid = p
    BY Zenon, <1>1 DEF DataInv, IsMap, HistoriesOrdered
  <2>6. i \in 1 .. Len(samples[p])
    BY <2>5, <2>3
  <2>7. x.qid = p /\ History(x.qid) = samples[p]
    BY Zenon, <2>4, <2>5, <2>6 DEF History
  <2> QED BY Zenon, <2>3, <2>4, <2>6, <2>7 DEF Places
<1>7. ASSUME x.qid \in Q, x.at \in from .. to, NEW i \in A
      PROVE  <<x.qid, i>> \in Holding(all, x)
  <2>1. i \in 1 .. Len(History(x.qid)) /\ History(x.qid)[i] = x /\ History(x.qid) = samples[x.qid]
    BY Zenon, <1>7 DEF Places, History
  <2>2. i \in DOMAIN samples[x.qid] /\ samples[x.qid][i].at \in from .. to
    BY <1>5, <1>7, <2>1
  <2>3. <<x.qid, i>> \in InRange(Q, from, to)
    BY Zenon, <1>7, <2>2, InRangeMember
  <2>4. samples[<<x.qid, i>>[1]][<<x.qid, i>>[2]] = x
    BY Zenon, <2>1
  <2> QED BY Zenon, <1>3, <2>3, <2>4 DEF Holding
<1> HIDE DEF A
<1>8. ASSUME x.qid \in Q, x.at \in from .. to
      PROVE  Occurrences(r, x) = Occurrences(History(x.qid), x)
  <2>1. \A pos : pos \in Holding(all, x) <=> \E i \in A : pos = <<x.qid, i>>
    BY Zenon, <1>6, <1>7, <1>8
  <2> QED BY Zenon, <1>4, <1>5, <2>1, Labelled
<1>9. ASSUME ~ (x.qid \in Q /\ x.at \in from .. to) PROVE Occurrences(r, x) = 0
  <2>1. Holding(all, x) = {}
    BY Zenon, <1>6, <1>9
  <2> QED BY Zenon, <1>4, <2>1, FS_EmptySet
<1>10. ASSUME x.qid = q, x.at \in from .. to PROVE Occurrences(r, x) = Occurrences(History(x.qid), x)
  <2>1. CASE x.qid \in Q
    BY Zenon, <1>8, <1>10, <2>1
  <2>2. CASE x.qid \notin Q
    <3>1. History(x.qid) = <<>>
      BY Zenon, <1>3, <1>10, <2>2 DEF History
    <3> QED BY Zenon, <1>9, <2>2, <3>1, CountEmpty
  <2> QED BY Zenon, <2>1, <2>2
<1> QED BY Zenon, <1>8, <1>9, <1>10 DEF r
-----------------------------------------------------------------------------
(***************************************************************************)
(* How often a sample is in memory, which the mirror of the histories is   *)
(* measured against.                                                       *)
(***************************************************************************)
Held(x) == Occurrences(History(x.qid), x)

\* Memory and table, when a step does not touch them.
LEMMA HeldSame ==
  ASSUME samples' = samples, NEW x
  PROVE  Held(x)' = Held(x)
BY Zenon DEF Held, History

\* Storing a sample adds one of it and nothing else.
LEMMA HeldAfterStore ==
  ASSUME CollectorTypeOK, NEW s \in Sample, StoreSample(s), NEW x
  PROVE  Held(x)' = Held(x) + OneIf(x, s)
<1>1. /\ DOMAIN samples' = DOMAIN samples \cup {s.qid}
      /\ \A q \in DOMAIN samples : q # s.qid => samples'[q] = samples[q]
      /\ samples'[s.qid] = Append(History(s.qid), s)
  BY Zenon DEF StoreSample, Put
<1>2. CASE x.qid = s.qid
  <2>1. History(x.qid)' = Append(History(s.qid), s)
    BY Zenon, <1>1, <1>2 DEF History
  <2>2. Held(x)' = Occurrences(Append(History(s.qid), s), x)
    BY Zenon, <2>1 DEF Held
  <2>3. Held(x) = Occurrences(History(s.qid), x)
    BY Zenon, <1>2 DEF Held
  <2>4. History(s.qid) \in Seq(Sample)
    BY Zenon, HistoryTyped
  <2>5. Occurrences(Append(History(s.qid), s), x) = Occurrences(History(s.qid), x) + OneIf(x, s)
    BY Zenon, <2>4, CountAppend
  <2> QED BY Zenon, <2>2, <2>3, <2>5
<1>3. CASE x.qid # s.qid
  <2>1. History(x.qid)' = History(x.qid)
    BY Zenon, <1>1, <1>3 DEF History
  <2>2. Held(x)' = Held(x)
    BY Zenon, <2>1 DEF Held
  <2>3. OneIf(x, s) = 0
    BY Zenon, <1>3 DEF OneIf
  <2>4. Held(x) \in Nat
    BY Zenon, HistoryTyped, CountType DEF Held
  <2> QED BY <2>2, <2>3, <2>4
<1> QED BY Zenon, <1>2, <1>3

\* Pruning takes all of what is older than the cutoff and nothing else.
LEMMA HeldAfterPrune ==
  ASSUME CollectorTypeOK, DataInv, NEW hist, DOMAIN hist = DOMAIN samples,
         \A q \in DOMAIN samples : hist[q] = samples[q],
         NEW cutoff \in Int, PruneLocked(hist, cutoff), NEW x \in Sample
  PROVE  /\ x.at >= cutoff => Held(x)' = Held(x)
         /\ Held(x)' # 0 => x.at >= cutoff
<1> DEFINE q == x.qid
           n == Aged(hist, q, cutoff)
<1>0. x.at \in Nat
  BY Zenon, SampleFacts
<1>1. /\ DOMAIN samples' = Surviving(hist, cutoff)
      /\ \A p \in Surviving(hist, cutoff) :
           samples'[p] = SubSeq(hist[p], Aged(hist, p, cutoff) + 1, Len(hist[p]))
  BY Zenon DEF PruneLocked
<1>2. DataInv'
  BY Zenon, PruneKeeps
<1>3. ASSUME Held(x)' # 0 PROVE x.at >= cutoff
  <2>1. q \in DOMAIN samples'
    <3>1. CASE q \notin DOMAIN samples'
      <4>1. Held(x)' = Occurrences(<<>>, x)
        BY Zenon, <3>1 DEF Held, History
      <4> QED BY Zenon, <1>3, <4>1, CountEmpty
    <3> QED BY Zenon, <3>1
  <2>2. samples'[q] \in Seq(Sample) /\ Held(x)' = Occurrences(samples'[q], x)
    BY Zenon, <1>2, <2>1 DEF DataInv, IsMap, Held, History
  <2>3. x \in Range(samples'[q])
    BY Zenon, <1>3, <2>2, CountType
  <2>4. PICK i \in DOMAIN samples'[q] : samples'[q][i] = x
    BY Zenon, <2>3 DEF Range
  <2>5. i \in 1 .. Len(samples'[q])
    BY <2>2
  <2> QED BY Zenon, <2>1, <2>4, <2>5, PruneKeeps
<1>4. ASSUME x.at >= cutoff PROVE Held(x)' = Held(x)
  <2>1. CASE q \notin DOMAIN samples
    <3>1. q \notin DOMAIN samples'
      BY Zenon, <1>1, <2>1 DEF Surviving
    <3> QED BY Zenon, <2>1, <3>1 DEF Held, History
  <2>2. CASE q \in DOMAIN samples
    <3>1. samples[q] \in Seq(Sample) /\ TimesOK(samples[q]) /\ hist[q] = samples[q]
      BY Zenon, <2>2, HistoryTyped DEF History
    <3>2. /\ n \in 0 .. Len(samples[q])
          /\ \A i \in 1 .. n : samples[q][i].at < cutoff
      BY Zenon, <3>1, FirstNotBeforeBasic DEF Aged
    <3> HIDE DEF n
    <3>3. \A i \in 1 .. n : samples[q][i] # x
      <4>1. ~ (x.at < cutoff)
        BY <1>0, <1>4
      <4> QED BY Zenon, <3>2, <4>1
    <3>4. Occurrences(SubSeq(samples[q], n + 1, Len(samples[q])), x) = Occurrences(samples[q], x)
      BY Zenon, <3>1, <3>2, <3>3, CountSuffix
    <3>5. Held(x) = Occurrences(samples[q], x)
      BY Zenon, <2>2 DEF Held, History
    <3>6. CASE q \in Surviving(hist, cutoff)
      <4>1. samples'[q] = SubSeq(samples[q], n + 1, Len(samples[q]))
        BY Zenon, <1>1, <3>1, <3>6 DEF n
      <4>2. Held(x)' = Occurrences(samples'[q], x)
        BY Zenon, <1>1, <3>6 DEF Held, History
      <4> QED BY Zenon, <3>4, <3>5, <4>1, <4>2
    <3>7. CASE q \notin Surviving(hist, cutoff)
      <4>1. n = Len(samples[q])
        <5>1. ~ (n < Len(samples[q]))
          BY Zenon, <2>2, <3>1, <3>7 DEF Surviving, n
        <5>2. Len(samples[q]) \in Nat
          BY Zenon, <3>1, LenProperties
        <5> QED BY <3>2, <5>1, <5>2
      <4>2. Places(samples[q], x) = {}
        BY Zenon, <3>3, <4>1 DEF Places
      <4>3. Occurrences(samples[q], x) = 0
        BY Zenon, <3>1, <4>2, CountType, FS_EmptySet
      <4>4. Held(x)' = Occurrences(<<>>, x)
        BY Zenon, <1>1, <3>7 DEF Held, History
      <4> QED BY Zenon, <3>5, <4>3, <4>4, CountEmpty
    <3> QED BY Zenon, <3>6, <3>7
  <2> QED BY Zenon, <2>1, <2>2
<1> QED BY Zenon, <1>3, <1>4

LEMMA RangeInSet ==
  ASSUME NEW S, NEW s \in Seq(S), NEW x \in Range(s)
  PROVE  x \in S
<1>1. PICK i \in DOMAIN s : s[i] = x
  BY Zenon DEF Range
<1> QED BY <1>1

\* Taking only some rows of a sequence.
LEMMA CountOnly ==
  ASSUME NEW s \in Seq(Sample), NEW I \in SUBSET (1 .. Len(s)), NEW x
  PROVE  LET n == Occurrences(Only(s, I), x)
         IN  /\ Only(s, I) \in Seq(Sample) /\ n \in Nat
             /\ n <= Occurrences(s, x)
             /\ (\A i \in 1 .. Len(s) : s[i] = x => i \in I) => n = Occurrences(s, x)
             /\ (\A i \in I : s[i] # x) => n = 0
<1> DEFINE P == Places(s, x)
           K == {i \in I : s[i] = x}
<1>1. TimesOK(s)
  BY Zenon, ElementOfSeq, SampleFacts DEF TimesOK
<1>2. IsSelection(Only(s, I), s, I, Sample)
  BY Zenon, <1>1, OnlyExact
<1>3. Only(s, I) \in Seq(Sample) /\ Occurrences(Only(s, I), x) = Cardinality(K)
  BY Zenon, <1>2 DEF IsSelection
<1>4. IsFiniteSet(P) /\ Occurrences(s, x) = Cardinality(P)
  BY Zenon, CountType
<1>5. K \subseteq P
  BY Zenon DEF Places
<1>6. IsFiniteSet(K) /\ Cardinality(K) <= Cardinality(P)
  BY Zenon, <1>4, <1>5, FS_Subset
<1>7. Cardinality(K) \in Nat
  BY Zenon, <1>6, FS_CardinalityType
<1>8. (\A i \in 1 .. Len(s) : s[i] = x => i \in I) => K = P
  BY Zenon DEF Places
<1>9. (\A i \in I : s[i] # x) => K = {}
  BY Zenon
<1> HIDE DEF K, P
<1> QED BY Zenon, <1>3, <1>4, <1>6, <1>7, <1>8, <1>9, FS_EmptySet

LEMMA TimesNext ==
  ASSUME NEW a \in Nat, NEW c \in Nat
  PROVE  a * (c + 1) = a * c + a /\ a * c \in Nat
OBVIOUS

LEMMA TimesGrows ==
  ASSUME NEW a \in Nat, NEW b \in Nat, NEW c \in Nat, NEW d \in Nat, a <= b, c <= d
  PROVE  a * c <= b * d
<1>1. PICK e \in Nat : b = a + e
  <2>1. b - a \in Nat /\ b = a + (b - a)
    OBVIOUS
  <2> QED BY <2>1
<1>2. PICK g \in Nat : d = c + g
  <2>1. d - c \in Nat /\ d = c + (d - c)
    OBVIOUS
  <2> QED BY <2>1
<1>3. (a + e) * (c + g) = a * c + a * g + e * c + e * g
  OBVIOUS
<1>4. a * c \in Nat /\ a * g \in Nat /\ e * c \in Nat /\ e * g \in Nat
  OBVIOUS
<1> QED BY <1>1, <1>2, <1>3, <1>4
===============================================================================
