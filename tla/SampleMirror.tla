---------------------------- MODULE SampleMirror ----------------------------
(***************************************************************************)
(* cmd/operator with --state-backend=postgres: the goroutine of            *)
(* internal/cli/operator.go that copies what the Collector observed into   *)
(* the query_samples table, the prune loop over that table, and the        *)
(* restart that loads it back.                                             *)
(*                                                                         *)
(* The goroutine shares no lock with scrape.  It lists the queryids once a *)
(* tick, reads each one's samples in its own critical section and inserts  *)
(* them one by one, so scrapes, prunes and crashes fall in between.        *)
(* time.Now has nanosecond resolution: no two clock readings of the scrape *)
(* and of the mirror are equal.                                            *)
(***************************************************************************)
EXTENDS Collector

CONSTANTS
  StateRetention,    \* --state-retention, of the durable table
  MaxRestarts        \* bound: crashes in one behaviour

ASSUME SampleMirrorAssumption ==
  /\ StateRetention \in Nat /\ StateRetention >= Retention
  /\ MaxRestarts \in Nat
  /\ IsFiniteSet(QueryID)
  /\ ~CapturePlans    \* plans are not persisted

VARIABLES
  durable,           \* query_samples in insertion order: the table has no key on its content
  lastSync,          \* lastSync of the mirror goroutine
  mirror,            \* "off" | "idle" | "copying"
  mirrorAt,          \* `now` of the tick in progress
  toCopy,            \* queryids of AllQueryIDs the tick has still to read
  restarts,
  taken,             \* history: sample -> how often a scrape stored it
  excused            \* history: samples a tick could not copy, see MirrorComplete

mirrorVars == <<durable, lastSync, mirror, mirrorAt, toCopy>>
mirrorHistory == <<restarts, taken, excused>>
sampleMirrorVars == <<collectorVars, mirrorVars, mirrorHistory>>

\* The process is up and nothing has ever been stored.
SampleMirrorInit ==
  /\ CollectorInit /\ loading = <<>>
  /\ durable = <<>> /\ taken = EmptyMap /\ excused = {}
  /\ lastSync = 0 /\ mirrorAt = 0
  /\ mirror = "off" /\ toCopy = <<>>
  /\ restarts = 0

Taken(s) == IF s \in DOMAIN taken THEN taken[s] ELSE 0

\* A scrape, with what it stores recorded.  A sample stored when a tick that
\* covers its time has begun (or before the goroutine has read its first
\* lastSync) may be missed.
Stored(q) == IF q \in DOMAIN samples' THEN samples'[q][Len(samples'[q])] ELSE <<>>

Scrape ==
  \/ /\ ScrapeStart /\ now > lastSync /\ (mirror = "copying" => now > mirrorAt)
     /\ UNCHANGED <<taken, excused>>
  \/ \E q \in QueryID, text \in QueryText, lat \in Latency :
       /\ ScrapeRow(q, text, lat)
       /\ IF samples' = samples THEN UNCHANGED <<taken, excused>>
          ELSE /\ taken' = Put(taken, Stored(q), Taken(Stored(q)) + 1)
               /\ excused' = IF \/ mirror = "off" \/ scrapeAt <= lastSync
                                \/ mirror = "copying" /\ scrapeAt <= mirrorAt
                             THEN excused \cup {Stored(q)} ELSE excused
  \/ /\ ScrapeFail \/ ScrapeComplete \/ ScrapePrune \/ ScrapeEnd
     /\ UNCHANGED <<taken, excused>>

CollectorStep ==
  /\ \/ Scrape
     \/ /\ BackfillSample \/ BackfillEnd \/ ScrapeQueryFails \/ Elapse
        /\ UNCHANGED <<taken, excused>>
  /\ UNCHANGED <<mirrorVars, restarts>>
-----------------------------------------------------------------------------
\* Mutant: the first tick starts from the beginning of time.
SyncFromZero == 0

\* The goroutine starts, after the backfill and before or after the first scrape.
FirstSync == now

MirrorBegin ==
  /\ mirror = "off" /\ scrapeStep # "new" /\ scrapeAt < now
  /\ lastSync' = FirstSync
  /\ mirror' = "idle"
  /\ UNCHANGED <<collectorVars, durable, mirrorAt, toCopy, mirrorHistory>>

\* The ticker fires: `now`, and col.AllQueryIDs.
MirrorTick ==
  /\ mirror = "idle" /\ lastSync < now /\ scrapeAt < now
  /\ mirror' = "copying"
  /\ mirrorAt' = now
  /\ toCopy' = Ascending(AllQueryIDs)
  /\ UNCHANGED <<collectorVars, durable, lastSync, mirrorHistory>>

\* Mutant: what SamplesInRange returns for a queryid is filed under it.
FiledUnder(q) ==
  LET r == SamplesInRange(q, lastSync, mirrorAt)
  IN  [i \in DOMAIN r |-> [r[i] EXCEPT !.qid = q]]

Copied(q) == SamplesInRange(q, lastSync, mirrorAt)

\* One queryid: its SamplesInRange, and an Append for each; an Append that
\* fails is logged and not tried again.
MirrorQuery ==
  /\ mirror = "copying" /\ toCopy # <<>>
  /\ LET r == Copied(Head(toCopy))
     IN  \E failed \in SUBSET DOMAIN r :
           /\ durable' = durable \o Only(r, DOMAIN r \ failed)
           /\ excused' = excused \cup {r[i] : i \in failed}
  /\ toCopy' = Tail(toCopy)
  /\ UNCHANGED <<collectorVars, lastSync, mirror, mirrorAt, restarts, taken>>

\* Mutants: the next window starts where the tick ended, not where it read the
\* clock; or past its own end, to keep the two windows disjoint.
SyncAtEnd == now
SyncPastTick == mirrorAt + 1

NextSync == mirrorAt

MirrorEnd ==
  /\ mirror = "copying" /\ toCopy = <<>>
  /\ lastSync' = NextSync
  /\ mirror' = "idle"
  /\ UNCHANGED <<collectorVars, durable, mirrorAt, toCopy, mirrorHistory>>

\* RunPruneLoop over query_samples.
Unexpired == {i \in DOMAIN durable : durable[i].at >= now - StateRetention}

PruneDurable ==
  /\ scrapeStep # "new"
  /\ Unexpired # DOMAIN durable
  /\ durable' = Only(durable, Unexpired)
  /\ UNCHANGED <<collectorVars, lastSync, mirror, mirrorAt, toCopy, mirrorHistory>>

\* What a restart loads of the table for the queryids whose query succeeds:
\* their rows of the last Retention, oldest first.  (The code lists them one
\* queryid after the other; Backfill files each row under its own.)  The table
\* keeps the text and not the fingerprint.
RowOf(s) ==
  [qid |-> s.qid, at |-> s.at, lat |-> s.lat,
   text |-> CHOOSE t \in QueryText \ ExplainText : FingerprintQuery[t] = s.fp]

Rows(Q) ==
  LET recent == {i \in DOMAIN durable : durable[i].qid \in Q /\ durable[i].at >= now - Retention}
      found == SortByTime(Only(durable, recent))
  IN  [i \in DOMAIN found |-> RowOf(found[i])]

\* The process dies and starts again; only the table survives.
Restart ==
  /\ restarts < MaxRestarts
  /\ restarts' = restarts + 1
  /\ samples' = EmptyMap /\ queryFingerprint' = EmptyMap /\ fingerprintIndex' = EmptyMap
  /\ planHistory' = EmptyMap
  /\ lastScrapeTime' = 0 /\ columns' = "unknown" /\ scrapeStep' = "new" /\ scrapeAt' = 0
  /\ rowCount' = 0 /\ tracked' = <<>>
  /\ loading' \in {Rows(Q) : Q \in SUBSET {s.qid : s \in Range(durable)}}
  /\ mirror' = "off" /\ toCopy' = <<>> /\ lastSync' = 0 /\ mirrorAt' = 0
  /\ UNCHANGED <<now, durable, taken, excused>>

SampleMirrorNext ==
  \/ CollectorStep
  \/ MirrorBegin \/ MirrorTick \/ MirrorQuery \/ MirrorEnd
  \/ PruneDurable
  \/ Restart

SampleMirrorSpec == SampleMirrorInit /\ [][SampleMirrorNext]_sampleMirrorVars
-----------------------------------------------------------------------------
SampleMirrorTypeOK ==
  /\ IsMap(samples, QueryID, Seq(Sample))
  /\ durable \in Seq(Sample)
  /\ IsMap(taken, Sample, Nat)
  /\ excused \subseteq Sample
  /\ lastSync \in 0 .. now /\ mirrorAt \in 0 .. now
  /\ mirror \in {"off", "idle", "copying"}
  /\ toCopy \in Seq(QueryID)

\* Whatever a restart loads was observed: every row of the table, and every
\* sample in memory, is one that some scrape took, under the queryid it took
\* it for, although a queryid's SamplesInRange also answers with the samples
\* of its siblings (operator.go:485-491, collector.go:413-447).
HistoryIsObserved ==
  /\ Range(durable) \subseteq DOMAIN taken
  /\ \A q \in DOMAIN samples : Range(samples[q]) \subseteq DOMAIN taken

\* How often one observation can be in the table: once for each queryid whose
\* read can answer with it, and never again in a later tick or after a
\* restart that loaded it back (operator.go:476, 492).
CopiesAreBounded ==
  \A s \in Range(durable) :
    Occurrences(durable, s) <= Taken(s) * Cardinality(QueryID)

\* Nothing else is lost: a sample of this process that the mirror's windows
\* have passed is in the table as often as it was observed, unless one of its
\* inserts failed or it was stored when the tick covering its time had
\* already begun (operator.go:483-492).
MirrorComplete ==
  \A q \in DOMAIN samples : \A s \in Range(samples[q]) :
    /\ mirror # "off" /\ s.at <= lastSync
    /\ s \notin excused /\ s.at >= now - StateRetention
    => Occurrences(durable, s) >= Taken(s)
=============================================================================
