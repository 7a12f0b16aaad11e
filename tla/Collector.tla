------------------------------ MODULE Collector ------------------------------
(***************************************************************************)
(* internal/collector.Collector: the scrape loop over pg_stat_statements   *)
(* and the in-memory sample history it keeps per queryid.                  *)
(*                                                                         *)
(* scrape holds no lock across a cycle: every row is stored under its own  *)
(* critical section, pruning is another, every plan snapshot another, and  *)
(* readers (the correlation engine) may look in between.  So a cycle is    *)
(* one step per critical section and every property below holds in all the *)
(* intermediate states a reader can see.                                   *)
(*                                                                         *)
(* A Go map is a function whose DOMAIN is the set of keys present.         *)
(* Prometheus counters and gauges are left out.                            *)
(***************************************************************************)
EXTENDS TimeSeq, FiniteSetsExt

CONSTANTS
  QueryID,           \* pg_stat_statements queryids, a set of integers
  QueryText,         \* normalised query texts a row may carry
  ExplainText,       \* those for which isExplainStatement holds
  Fingerprint,       \* values of FingerprintQuery
  FingerprintQuery,  \* the text hash, as a function on QueryText
  Latency,           \* mean_exec_time values
  Retention,         \* Config.RetentionDuration
  FallbackMin,       \* fingerprintFallbackMinSamples
  PlanHistorySize,   \* planHistorySize
  CapturePlans,      \* Config.CapturePlans
  LegacyServer,      \* the server is older than PostgreSQL 13
  MaxTime,           \* bound: the clock stops here
  MaxRows,           \* bound: rows one scrape reads (LIMIT 500 in the SQL)
  MaxBackfill        \* bound: samples a restart loads

ASSUME CollectorAssumption ==
  /\ QueryID \subseteq Nat
  /\ ExplainText \subseteq QueryText
  /\ FingerprintQuery \in [QueryText -> Fingerprint]
  /\ Latency \subseteq Nat
  /\ Retention \in Nat
  /\ FallbackMin \in Nat
  /\ PlanHistorySize \in Nat \ {0}
  /\ CapturePlans \in BOOLEAN
  /\ LegacyServer \in BOOLEAN
  /\ MaxTime \in Nat /\ MaxRows \in Nat /\ MaxBackfill \in Nat

VARIABLES
  now,               \* the wall clock
  samples,           \* queryid -> its samples
  queryFingerprint,  \* queryid -> fingerprint last indexed for it
  fingerprintIndex,  \* fingerprint -> queryids that share it
  planHistory,       \* queryid -> times of its captured plans
  lastScrapeTime,    \* of the last complete scrape, 0 before the first
  columns,           \* versionOnce: "unknown" | "modern" | "legacy"
  scrapeStep,        \* "new" | "idle" | "rows" | "prune" | "plans" | "stopped"
  scrapeAt,          \* the clock read after the query of the current scrape
  rowCount,          \* rows read so far by the current scrape
  tracked,           \* queryids whose plan is still to capture this cycle
  loading            \* samples Backfill still has to add

sampleVars == <<samples, queryFingerprint, fingerprintIndex>>
scrapeVars == <<lastScrapeTime, columns, scrapeStep, scrapeAt, rowCount, tracked>>
collectorVars == <<now, sampleVars, planHistory, scrapeVars, loading>>

Sample == [qid : QueryID, fp : Fingerprint, at : Nat, lat : Latency]

\* A Go map with k set to v, and with k deleted.
Put(map, k, v) == [x \in DOMAIN map \cup {k} |-> IF x = k THEN v ELSE map[x]]
Drop(map, k) == [x \in DOMAIN map \ {k} |-> map[x]]
-----------------------------------------------------------------------------
(***************************************************************************)
(* The fingerprint index (caller holds mu).                                *)
(***************************************************************************)
\* removeFromFingerprintIndexLocked
RemoveFromIndex(index, fp, q) ==
  IF fp \notin DOMAIN index THEN index
  ELSE IF index[fp] \ {q} = {} THEN Drop(index, fp)
  ELSE Put(index, fp, index[fp] \ {q})

\* Mutant: a changed fingerprint leaves the queryid in its old set.
NotEvicted(q, fp) == fingerprintIndex

\* indexFingerprintLocked, first the eviction from the old fingerprint
Evicted(q, fp) ==
  IF q \in DOMAIN queryFingerprint /\ queryFingerprint[q] # fp
  THEN RemoveFromIndex(fingerprintIndex, queryFingerprint[q], q)
  ELSE fingerprintIndex

\* Mutant: a queryid is indexed when first seen and never again.
IndexFingerprintOnce(q, fp) ==
  IF q \in DOMAIN queryFingerprint
  THEN UNCHANGED <<queryFingerprint, fingerprintIndex>>
  ELSE /\ queryFingerprint' = Put(queryFingerprint, q, fp)
       /\ fingerprintIndex' =
            Put(fingerprintIndex, fp,
                {q} \cup (IF fp \in DOMAIN fingerprintIndex THEN fingerprintIndex[fp] ELSE {}))

IndexFingerprint(q, fp) ==
  LET evicted == Evicted(q, fp)
      sharing == IF fp \in DOMAIN evicted THEN evicted[fp] ELSE {}
  IN  /\ queryFingerprint' = Put(queryFingerprint, q, fp)
      /\ fingerprintIndex' = Put(evicted, fp, sharing \cup {q})

History(q) == IF q \in DOMAIN samples THEN samples[q] ELSE <<>>

\* The critical section of ingestSample, and one iteration of Backfill's loop.
StoreSample(s) ==
  /\ samples' = Put(samples, s.qid, Append(History(s.qid), s))
  /\ IndexFingerprint(s.qid, s.fp)

\* Mutants of the pruning: the cutoff one too low, or taken as already old;
\* histories left empty not deleted.
AgedTooFew(hist, q, cutoff) == FirstNotBefore(hist[q], cutoff - 1)
AgedTooMany(hist, q, cutoff) == FirstAfter(hist[q], cutoff)
SurvivingAll(hist, cutoff) == DOMAIN hist

\* pruneLocked on the histories hist: drop each one's aged-out prefix; a
\* history with nothing left is deleted, and forgetQueryLocked clears its
\* index entries.
Aged(hist, q, cutoff) == FirstNotBefore(hist[q], cutoff)

Surviving(hist, cutoff) == {q \in DOMAIN hist : Aged(hist, q, cutoff) < Len(hist[q])}

PruneLocked(hist, cutoff) ==
  LET kept == Surviving(hist, cutoff)
      gone == DOMAIN hist \ kept
      forgotten(fp) == {q \in gone \cap DOMAIN queryFingerprint : queryFingerprint[q] = fp}
      sharing(fp) == fingerprintIndex[fp] \ forgotten(fp)
  IN  /\ samples' = [q \in kept |-> SubSeq(hist[q], Aged(hist, q, cutoff) + 1, Len(hist[q]))]
      /\ queryFingerprint' = [q \in DOMAIN queryFingerprint \ gone |-> queryFingerprint[q]]
      /\ fingerprintIndex' =
           [fp \in {f \in DOMAIN fingerprintIndex : sharing(f) # {} \/ forgotten(f) = {}}
              |-> sharing(fp)]
-----------------------------------------------------------------------------
\* The clock of a process that starts: one full retention period after zero.
StartTime == Retention + 1

\* A row of the durable query_samples table, and what a restart loads of it:
\* for each queryid the rows of the last retention period, oldest first.
StoredRow(times) == [qid : QueryID, text : QueryText, at : times, lat : Latency]

OldestFirst(rows) ==
  \A i, j \in 1 .. Len(rows) :
    i <= j /\ rows[i].qid = rows[j].qid => rows[i].at <= rows[j].at

Loadable ==
  {rows \in UNION {[1 .. n -> StoredRow(StartTime - Retention .. StartTime)] :
                  n \in 0 .. MaxBackfill} : OldestFirst(rows)}

EmptyMap == [k \in {} |-> k]

CollectorInit ==
  /\ now = StartTime
  /\ samples = EmptyMap /\ queryFingerprint = EmptyMap /\ fingerprintIndex = EmptyMap
  /\ planHistory = EmptyMap
  /\ lastScrapeTime = 0
  /\ columns = "unknown"
  /\ scrapeStep = "new"
  /\ scrapeAt = 0
  /\ rowCount = 0
  /\ tracked = <<>>
  /\ loading \in Loadable

(***************************************************************************)
(* Startup.  With a durable store the operator loads, for each queryid,    *)
(* the samples of the last retention period ORDER BY recorded_at, and      *)
(* passes them to Backfill before anything else runs; the store keeps no   *)
(* fingerprint, so Backfill recomputes it from the text.  Without one, or  *)
(* when loading fails, nothing is loaded.  (RestoredRaw is a mutant.)      *)
(***************************************************************************)
RestoredRaw(row) == [qid |-> row.qid, fp |-> "", at |-> row.at, lat |-> row.lat]

Restored(row) ==
  [qid |-> row.qid, fp |-> FingerprintQuery[row.text], at |-> row.at, lat |-> row.lat]

BackfillSample ==
  /\ scrapeStep = "new" /\ loading # <<>>
  /\ StoreSample(Restored(Head(loading)))
  /\ loading' = Tail(loading)
  /\ UNCHANGED <<now, planHistory, scrapeVars>>

\* The rest of Backfill (skipped when there was nothing to load).
BackfillEnd ==
  /\ scrapeStep = "new" /\ loading = <<>>
  /\ IF samples = EmptyMap
     THEN UNCHANGED sampleVars
     ELSE PruneLocked([q \in DOMAIN samples |-> SortByTime(samples[q])], now - Retention)
  /\ scrapeStep' = "idle"
  /\ UNCHANGED <<now, planHistory, lastScrapeTime, columns, scrapeAt, rowCount,
                 tracked, loading>>
-----------------------------------------------------------------------------
(***************************************************************************)
(* One scrape cycle.                                                       *)
(***************************************************************************)
\* resolveColumns: one attempt ever; a failed one settles for the modern names.
ResolveColumns ==
  IF columns # "unknown" THEN UNCHANGED columns
  ELSE columns' \in {"modern"} \cup (IF LegacyServer THEN {"legacy"} ELSE {})

\* The ticker fires: the SELECT fails (always so with column names the server
\* does not have) and the cycle ends, or rows come back and `now` is read.  The
\* ticker's interval is at least one unit of the model's clock.
ScrapeQueryFails ==
  /\ scrapeStep = "idle"
  /\ ResolveColumns
  /\ UNCHANGED <<now, sampleVars, planHistory, lastScrapeTime, scrapeStep, scrapeAt,
                 rowCount, tracked, loading>>

ScrapeStart ==
  /\ scrapeStep = "idle" /\ scrapeAt < now
  /\ ResolveColumns
  /\ (columns' = "legacy") = LegacyServer
  /\ scrapeStep' = "rows"
  /\ scrapeAt' = now
  /\ rowCount' = 0
  /\ tracked' = <<>>
  /\ UNCHANGED <<now, sampleVars, planHistory, lastScrapeTime, loading>>

\* rows.Next and one ingestSample; an EXPLAIN row is skipped altogether.
ScrapeRow(q, text, lat) ==
  /\ scrapeStep = "rows" /\ rowCount < MaxRows
  /\ rowCount' = rowCount + 1
  /\ IF text \in ExplainText
     THEN UNCHANGED <<sampleVars, tracked>>
     ELSE /\ StoreSample([qid |-> q, fp |-> FingerprintQuery[text], at |-> scrapeAt, lat |-> lat])
          /\ tracked' = IF CapturePlans THEN Append(tracked, q) ELSE tracked
  /\ UNCHANGED <<now, planHistory, lastScrapeTime, columns, scrapeStep, scrapeAt, loading>>

\* rows.Scan or rows.Err fails: the rows read so far stay.
ScrapeFail ==
  /\ scrapeStep = "rows"
  /\ scrapeStep' = "idle"
  /\ tracked' = <<>>
  /\ UNCHANGED <<now, sampleVars, planHistory, lastScrapeTime, columns, scrapeAt,
                 rowCount, loading>>

ScrapeComplete ==
  /\ scrapeStep = "rows"
  /\ lastScrapeTime' = scrapeAt
  /\ scrapeStep' = "prune"
  /\ UNCHANGED <<now, sampleVars, planHistory, columns, scrapeAt, rowCount, tracked, loading>>

\* pruneAndUpdateMetrics(now)
ScrapePrune ==
  /\ scrapeStep = "prune"
  /\ PruneLocked(samples, scrapeAt - Retention)
  /\ scrapeStep' = "plans"
  /\ UNCHANGED <<now, planHistory, lastScrapeTime, columns, scrapeAt, rowCount,
                 tracked, loading>>

\* Mutant: the history grows without bound.
AppendPlanAlways(hist, t) == Append(hist, t)

\* appendPlanSnapshot: a ring of the PlanHistorySize latest snapshots.
AppendPlan(hist, t) ==
  IF Len(hist) >= PlanHistorySize THEN Append(Tail(hist), t) ELSE Append(hist, t)

Plans(q) == IF q \in DOMAIN planHistory THEN planHistory[q] ELSE <<>>

\* capturePlans, one query: a snapshot, or a failure that is skipped, or (on a
\* server below PostgreSQL 16) the end of the whole pass.
CapturePlan ==
  /\ scrapeStep = "plans" /\ tracked # <<>>
  /\ \/ /\ planHistory' = Put(planHistory, Head(tracked), AppendPlan(Plans(Head(tracked)), now))
        /\ tracked' = Tail(tracked)
     \/ /\ tracked' \in {Tail(tracked), <<>>}
        /\ UNCHANGED planHistory
  /\ UNCHANGED <<now, sampleVars, lastScrapeTime, columns, scrapeStep, scrapeAt,
                 rowCount, loading>>

ScrapeEnd ==
  /\ scrapeStep = "plans" /\ tracked = <<>>
  /\ scrapeStep' = "idle"
  /\ UNCHANGED <<now, sampleVars, planHistory, lastScrapeTime, columns, scrapeAt,
                 rowCount, tracked, loading>>

\* Run sees ctx.Done and closes the database.
Stop ==
  /\ scrapeStep = "idle"
  /\ scrapeStep' = "stopped"
  /\ UNCHANGED <<now, sampleVars, planHistory, lastScrapeTime, columns, scrapeAt,
                 rowCount, tracked, loading>>

Elapse ==
  /\ scrapeStep # "new" /\ now < MaxTime
  /\ now' = now + 1
  /\ UNCHANGED <<sampleVars, planHistory, scrapeVars, loading>>

CollectorNext ==
  \/ BackfillSample \/ BackfillEnd
  \/ ScrapeQueryFails \/ ScrapeStart
  \/ \E q \in QueryID, text \in QueryText, lat \in Latency : ScrapeRow(q, text, lat)
  \/ ScrapeFail \/ ScrapeComplete \/ ScrapePrune
  \/ CapturePlan \/ ScrapeEnd
  \/ Stop
  \/ Elapse

CollectorSpec == CollectorInit /\ [][CollectorNext]_collectorVars
-----------------------------------------------------------------------------
(***************************************************************************)
(* What readers get.                                                       *)
(***************************************************************************)
\* Mutant: the range excludes its upper end.
DirectHalfOpen(q, from, to) == FilterRange(History(q), from, to - 1)

Direct(q, from, to) == FilterRange(History(q), from, to)

Siblings(q) ==
  IF q \notin DOMAIN queryFingerprint THEN {}
  ELSE IF queryFingerprint[q] \notin DOMAIN fingerprintIndex THEN {}
  ELSE fingerprintIndex[queryFingerprint[q]]

\* SamplesInRange.  Samples of equal time may come in any order in the code;
\* here they come by queryid.
SamplesInRange(q, from, to) ==
  LET direct == Direct(q, from, to)
      others == Ascending(Siblings(q) \ {q})
      merged[n \in 0 .. Len(others)] ==
        IF n = 0 THEN direct ELSE merged[n - 1] \o Direct(others[n], from, to)
  IN  IF \/ Len(direct) >= FallbackMin
         \/ Cardinality(Siblings(q)) <= 1
         \/ Len(merged[Len(others)]) <= Len(direct)
      THEN direct
      ELSE SortByTime(merged[Len(others)])

AllQueryIDs == DOMAIN samples

\* PlansAround: the closest snapshot at or before t, and the closest after t
\* or else the latest of all; 0 stands for nil.
PlansAround(q, t) ==
  LET times == Range(Plans(q))
      upTo == {x \in times : x <= t}
      later == times \ upTo
  IN  [before |-> IF upTo = {} THEN 0 ELSE Max(upTo),
       after |-> IF later # {} THEN Min(later) ELSE IF times # {} THEN Max(times) ELSE 0]
-----------------------------------------------------------------------------
IsMap(f, D, R) == DOMAIN f \subseteq D /\ \A k \in DOMAIN f : f[k] \in R

CollectorTypeOK ==
  /\ now \in Nat /\ scrapeAt \in Nat /\ lastScrapeTime \in Nat /\ rowCount \in Nat
  /\ IsMap(samples, QueryID, Seq(Sample))
  /\ IsMap(queryFingerprint, QueryID, Fingerprint)
  /\ IsMap(fingerprintIndex, Fingerprint, SUBSET QueryID)
  /\ IsMap(planHistory, QueryID, Seq(Nat))
  /\ columns \in {"unknown", "modern", "legacy"}
  /\ scrapeStep \in {"new", "idle", "rows", "prune", "plans", "stopped"}
  /\ tracked \in Seq(QueryID)
  /\ loading \in Seq(StoredRow(Nat))

\* The two fingerprint maps and the sample map never disagree, in any state a
\* reader can see: exactly the queryids with samples have a fingerprint, and
\* the index is the exact inverse with no empty set left behind ("neither
\* leaks entries for queryids that no longer have any retained samples",
\* collector.go:159-166).
IndexConsistent ==
  /\ DOMAIN queryFingerprint = DOMAIN samples
  /\ DOMAIN fingerprintIndex = {queryFingerprint[q] : q \in DOMAIN queryFingerprint}
  /\ \A fp \in DOMAIN fingerprintIndex :
       fingerprintIndex[fp] = {q \in DOMAIN queryFingerprint : queryFingerprint[q] = fp}

\* Every history is non-empty, holds samples of its own queryid and is sorted
\* by time, although pruning, backfilling and partial scrapes all edit it:
\* pruneLocked's binary search assumes it (collector.go:759-767).
HistoriesOrdered ==
  \A q \in DOMAIN samples :
    /\ samples[q] # <<>>
    /\ \A i \in 1 .. Len(samples[q]) : samples[q][i].qid = q
    /\ Chronological(samples[q])

\* The fingerprint a queryid is filed under is that of its newest sample, also
\* after a fingerprint change or a restart ("the most recently observed
\* fingerprint for each queryid", collector.go:161-162).
FingerprintCurrent ==
  \A q \in DOMAIN samples :
    q \in DOMAIN queryFingerprint
      /\ queryFingerprint[q] = samples[q][Len(samples[q])].fp

\* Memory is bounded by time: once a scrape has pruned, no sample older than
\* the retention period before the last complete scrape is left, even for
\* queryids no scrape returns any more.
RetentionHolds ==
  scrapeStep # "prune" =>
    \A q \in DOMAIN samples : \A i \in 1 .. Len(samples[q]) :
      samples[q][i].at >= lastScrapeTime - Retention

\* Every sample missing after a step was older than the retention period.
LosesOnlyAged ==
  \A q \in DOMAIN samples : \A i \in 1 .. Len(samples[q]) :
    \/ samples[q][i].at < now - Retention
    \/ q \in DOMAIN samples' /\ \E j \in 1 .. Len(samples'[q]) : samples'[q][j] = samples[q][i]

\* Pruning takes nothing that is still inside the retention period, also when
\* the scrape that prunes began a while ago (collector.go:769-804).
OnlyAgedOutGoes == [][LosesOnlyAged]_samples

\* The queryids with the fingerprint of q, found without the index, and the
\* positions of the samples of a set of queryids within a range.
SameQuery(q) ==
  {p \in DOMAIN samples : q \in DOMAIN samples /\ queryFingerprint[p] = queryFingerprint[q]}

InRange(Q, from, to) ==
  UNION {{<<q, i>> : i \in {k \in DOMAIN samples[q] : samples[q][k].at \in from .. to}} : q \in Q}

\* SamplesInRange against its contract, for every queryid and range: sorted,
\* and either the queryid's own samples (when they suffice) or those of all
\* queryids filed under its fingerprint, found here without the index; each as
\* often as it is stored (collector.go:393-412).
MergeIsExact ==
  \A q \in QueryID, from \in StartTime - Retention .. MaxTime : \A to \in from .. MaxTime :
    LET r == SamplesInRange(q, from, to)
        own == InRange({q} \cap DOMAIN samples, from, to)
        all == IF Cardinality(own) >= FallbackMin THEN own ELSE InRange(SameQuery(q), from, to)
        there(pos) == samples[pos[1]][pos[2]]
    IN  /\ Range(r) = {there(pos) : pos \in all}
        /\ \A s \in Range(r) : Occurrences(r, s) = Cardinality({pos \in all : there(pos) = s})
        /\ Chronological(r)

\* The plan ring is bounded and ordered, and what PlansAround picks for a
\* change point brackets it: never a "before" plan newer than the change or
\* than the "after" plan (collector.go:639-672).
PlansBracket ==
  \A q \in QueryID :
    /\ Len(Plans(q)) <= PlanHistorySize
    /\ \A i, j \in 1 .. Len(Plans(q)) : i <= j => Plans(q)[i] <= Plans(q)[j]
    /\ \A t \in 0 .. MaxTime :
         LET p == PlansAround(q, t)
         IN  /\ p.before <= t /\ p.before <= p.after
             /\ Plans(q) # <<>> => p.after >= Plans(q)[Len(Plans(q))] \/ p.after > t
=============================================================================
