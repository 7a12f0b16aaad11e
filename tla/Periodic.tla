------------------------------ MODULE Periodic ------------------------------
(***************************************************************************)
(* The deploy-independent detection: PeriodicTracker.Tick over             *)
(* Engine.AnalysePeriodic, on the rolling window of samples of one query   *)
(* whose queryid may change.                                               *)
(*                                                                         *)
(* Time is counted in scrape slots.  A window of 2 * Window + 1 slots ends *)
(* at the current one; a slot holds one sample or none (the scrape failed, *)
(* or the query did not run).  The samples come from the collector's own   *)
(* history or from Prometheus, whose every request may fail.  Rows that    *)
(* land while an analysis reads are the subject of DeployAnalysis.         *)
(***************************************************************************)
EXTENDS ChangePoint

CONSTANTS
  Window,          \* PeriodicWindow, in slots
  Latency,         \* mean_exec_time values
  MinExecutions,   \* Config.MinExecutions
  Threshold,       \* Config.LatencyChangeThreshold, a fraction
  Tolerance,       \* Config.ChangePointTolerance, in slots
  FallbackMin,     \* fingerprintFallbackMinSamples
  Lookback         \* allQueryIDsLookback, in slots

ASSUME PeriodicAssumption ==
  /\ Window \in Nat \ {0} /\ Lookback \in 0 .. 2 * Window
  /\ Latency \subseteq Nat
  /\ MinExecutions \in Nat /\ Tolerance \in Nat /\ FallbackMin \in Nat
  /\ Threshold.num \in Nat /\ Threshold.den \in Nat \ {0}

VARIABLES
  source,          \* "collector" | "prometheus" | "unlabelled": no query text there
  slots,           \* the window, oldest slot first: a sample, or NoSample
  liveID,          \* the queryid pg_stat_statements files the query under
  inRegression,    \* PeriodicTracker.inRegression
  calm,            \* history: since the window was flat, never two changes in it, nor a fault
  reports          \* history: regressions Tick returned since the last change

periodicVars == <<source, slots, liveID, inRegression, calm, reports>>

LastSlot == 2 * Window + 1
QueryIDs == {1, 2}

OneSample == [qid : QueryIDs, lat : Latency]
NoSample == [qid |-> 0, lat |-> 0]
NoSamples == [i \in 1 .. LastSlot |-> NoSample]

\* The samples in a window, at their slot's number.
Samples(w) ==
  Only([i \in 1 .. LastSlot |-> [qid |-> w[i].qid, lat |-> w[i].lat, at |-> i]],
       {i \in 1 .. LastSlot : w[i] # NoSample})

PeriodicInit ==
  /\ source \in {"collector", "prometheus", "unlabelled"}
  /\ slots = NoSamples
  /\ liveID = 1
  /\ inRegression = {}
  /\ calm = FALSE /\ reports = 0
-----------------------------------------------------------------------------
\* Windows without gap or rotation and at most one change of latency.
Flat(w) == \A i \in 1 .. LastSlot : w[i] # NoSample /\ w[i] = w[1]

CleanStep(w) ==
  /\ \A i \in 1 .. LastSlot : w[i] # NoSample /\ w[i].qid = w[1].qid
  /\ \E k \in 1 .. LastSlot :
       \A i \in 1 .. LastSlot : w[i] = IF i <= k THEN w[1] ELSE w[LastSlot]

\* One scrape interval passes.  The queryid changes at most once.
Scrape(slot) ==
  /\ liveID' \in {liveID, 2}
  /\ slots' = Append(Tail(slots), slot)
  /\ slot # NoSample => slot.qid = liveID'
  /\ calm' = (Flat(slots') \/ (calm /\ CleanStep(slots')))
  /\ reports' = IF calm' /\ slots'[LastSlot] = slots[LastSlot] THEN reports ELSE 0
  /\ UNCHANGED <<source, inRegression>>

\* AllQueryIDs: of the collector, the queryids with retained samples; of
\* Prometheus, those with a sample in the lookback.
AllQueryIDs ==
  LET from == IF source = "collector" THEN 1 ELSE LastSlot - Lookback
  IN  {s.qid : s \in {x \in Range(Samples(slots)) : x.at >= from}}

\* SamplesInRange over the window: of Prometheus, the queryid's own samples; of
\* the collector, all samples of the query when its own are few.
SamplesInRange(q) ==
  LET all == Samples(slots)
      own == Only(all, {i \in DOMAIN all : all[i].qid = q})
  IN  IF source # "collector" \/ Len(own) >= FallbackMin THEN own ELSE all

\* latestSample's QueryID.
CanonicalQueryID(s, q) == IF s = <<>> THEN q ELSE s[Len(s)].qid

\* partitionAt
Pre(s, split) == Only(s, {i \in DOMAIN s : s[i].at <= split})
Post(s, split) == Only(s, {i \in DOMAIN s : s[i].at >= split})

Split == Window + 1

\* The latencies of a window; the sample at the split counts on both sides.  (The
\* set is written out, so that TLC computes SearchIsExact once.)
Series == UNION {{series : series \in [1 .. n -> Latency]} : n \in 0 .. LastSlot + 1}

\* computeChangeStats asks EDivisive for one change point.  It depends on the
\* latencies only, so it is a table (@@ makes TLC compute it once).
FirstChange ==
  (<<>> :> {}) @@
  [series \in Series |-> EDivisive(series, ChangePointMinSegLen(Len(series)), 1)]

WindowVerdicts(s) ==
  Verdicts(Pre(s, Split), Post(s, Split), FirstChange, MinExecutions, Threshold)

\* analyseWindow over the queryids ids in order: the query, which has one
\* fingerprint, is evaluated for the first queryid with samples; a queryid
\* without any is evaluated (as insufficient) on its own, and so is each one when
\* there is no text to take a fingerprint of.
Evaluated(ids, range) ==
  {q \in ids : \/ source = "unlabelled" \/ range[q] = <<>>
               \/ \A p \in ids : p < q => range[p] = <<>>}

\* Mutant: a reported query is not marked.
MarkedNever(detected) == inRegression

Marked(detected) == inRegression \cup detected

\* Tick, on what the answers of the source are: `failed` are the queryids whose
\* range query fails.
Tick(ids, failed) ==
  LET range == [q \in ids |-> IF q \in failed THEN <<>> ELSE SamplesInRange(q)]
      evaluated == Evaluated(ids, range)
      reportID(q) == CanonicalQueryID(range[q], q)
  IN  \E verdict \in [evaluated -> UNION {WindowVerdicts(range[q]) : q \in evaluated}] :
        LET detected == {reportID(q) : q \in {p \in evaluated : verdict[p].status = "detected"}}
            others == {reportID(q) : q \in {p \in evaluated : verdict[p].status # "detected"}}
        IN  /\ \A q \in evaluated : verdict[q] \in WindowVerdicts(range[q])
            /\ inRegression' = Marked(detected) \ others
            /\ reports' = IF calm' THEN reports + Cardinality(detected \ inRegression) ELSE 0
            /\ UNCHANGED <<source, slots, liveID>>

\* The tracker's ticker fires; the source answers everything.
TickAnswered == UNCHANGED calm /\ Tick(AllQueryIDs, {})

\* A request to Prometheus fails: no queryids at all, or none of one's samples.
TickUnanswered ==
  /\ source # "collector"
  /\ calm' = FALSE
  /\ \/ Tick({}, {})
     \/ \E q \in AllQueryIDs : Tick(AllQueryIDs, {q})

\* The process starts again, with the samples of a durable store or with none.
Restart ==
  /\ inRegression' = {}
  /\ slots' \in {slots, NoSamples}
  /\ calm' = FALSE /\ reports' = 0
  /\ UNCHANGED <<source, liveID>>

PeriodicNext ==
  \/ \E slot \in OneSample \cup {NoSample} : Scrape(slot)
  \/ TickAnswered
  \/ TickUnanswered
  \/ Restart

PeriodicSpec == PeriodicInit /\ [][PeriodicNext]_periodicVars
-----------------------------------------------------------------------------
\* What the engine analyses of the whole window.
Analysed ==
  LET s == Samples(slots)
      all == SortByTime(Pre(s, Split) \o Post(s, Split))
  IN  [i \in DOMAIN all |-> all[i].lat]

\* E-divisive on every series the window can hold: the incremental sums find
\* the split that the definition of the energy statistic picks, a series that is
\* one step is cut at the step, and the greedy search never cuts a segment below
\* the minimum length (engine.go:815-949).
SearchIsExact ==
  {series \in Series :
     \A m \in 1 .. 3 : /\ SlideIsExact(series, m)
                       /\ StepIsFound(series, m)
                       /\ \A p \in 1 .. 3 : SegmentsAreLong(series, m, p)}

ChangePointsExact == Analysed \in SearchIsExact

\* A clean step is found, and found where it is: when latency changes once in the
\* window, enough to matter and with as many values on either side as EDivisive's
\* segments must have, the only verdict is a regression dated to the first slow
\* sample, although the sample at the split is counted twice; and a deploy at the
\* split gets the blame exactly when the change is within the tolerance
\* (engine.go:354-529, 596-607).
StepIsLocated ==
  LET s == Samples(slots)
      pre == Pre(s, Split)
      post == Post(s, Split)
      latencies(side) == [i \in DOMAIN side |-> side[i].lat]
      n == Len(pre) + Len(post)
      enough == ChangePointMinSegLen(n)
      counted(k) == Len(Pre(SubSeq(s, 1, k), Split)) + Len(Post(SubSeq(s, 1, k), Split))
      verdicts == WindowVerdicts(s)
  IN  \A k \in 1 .. Len(s) - 1 :
        /\ \A i \in 1 .. Len(s) : s[i].lat = s[IF i <= k THEN 1 ELSE k + 1].lat
        /\ s[1].lat # s[k + 1].lat
        /\ counted(k) \in enough .. n - enough
        /\ Len(pre) >= MinExecutions /\ Len(post) >= MinExecutions
        /\ ~BelowThreshold(latencies(pre), latencies(post), Threshold)
        => /\ verdicts = {Detected(s[k + 1].at)}
           /\ {Attributed(v, Split, Tolerance).status : v \in verdicts}
                = {IF s[k + 1].at \in Split - Tolerance .. Split + Tolerance
                   THEN "detected" ELSE "none"}

\* One report per step: while the window slides over one lasting change of
\* latency, whatever ticks happen, Tick returns the query at most once; the
\* verdicts never turn from detected to recovered and back (periodic.go:71-106).
OneReportPerStep == calm => reports <= 1
=============================================================================
