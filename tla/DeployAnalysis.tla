---------------------------- MODULE DeployAnalysis ----------------------------
(***************************************************************************)
(* The deploy-triggered analysis: PendingSet.Tick drives Engine.Analyse    *)
(* over the collector's live history, and the poll loop alerts on what     *)
(* Tick returns.                                                           *)
(*                                                                         *)
(* The poll loop and the scrape loop are two goroutines with no common     *)
(* lock: Analyse takes a snapshot of the queryids and then reads the       *)
(* samples of one queryid at a time, so rows of a scrape may land between  *)
(* any two of its reads.  The statistics are a parameter: Regressed says   *)
(* whether evaluateQuery answers StatusDetected.                           *)
(***************************************************************************)
EXTENDS Collector

CONSTANTS
  DeployEvent,       \* events, records with fields id and at
  Window,            \* Engine.AnalysisWindow()
  Regressed(_, _, _) \* evaluateQuery(ev, pre, post).Status = StatusDetected

ASSUME AnalysisAssumption ==
  /\ Window \in Nat
  /\ \A ev \in DeployEvent : ev.at \in Nat

VARIABLES
  pending,   \* PendingSet.pending: records ev, deadline, notified
  live,      \* Tick's rebuilt slice
  pollStep,  \* "wait" | "tick" | "analyse" | "notify"
  tickNow,   \* the clock Tick read first
  todo,      \* sorted queryids Analyse has not evaluated yet
  seen,      \* analyseWindow's seen, as fingerprint -> samples evaluated for it
  found,     \* queryids Analyse reports as detected for the current event
  outbox,    \* TickResults still to notify
  arrived,   \* history: events registered so far
  retired,   \* history: events PendingSet gave up on
  undisturbed, \* history: an Analyse runs and no sample came or went since it began
  lookedAt,  \* history: when the last Analyse of each event began
  reports,   \* history: TickResults returned, in order
  alerted    \* history: results whose notification succeeded

pollVars == <<pending, live, pollStep, tickNow, todo, seen, found, outbox,
              arrived, retired, lookedAt, reports, alerted>>
vars == <<collectorVars, pollVars, undisturbed>>

Init ==
  /\ CollectorInit
  /\ pending = <<>> /\ live = <<>>
  /\ pollStep = "wait"
  /\ tickNow = 0
  /\ todo = <<>> /\ seen = EmptyMap /\ found = {} /\ outbox = <<>>
  /\ arrived = {} /\ retired = {}
  /\ undisturbed = FALSE
  /\ lookedAt = [ev \in DeployEvent |-> 0]
  /\ reports = <<>> /\ alerted = {}
-----------------------------------------------------------------------------
Deadline(ev) == ev.at + Window

\* The head of a poll tick: an event drained from the store is registered.
Register(ev) ==
  /\ pollStep = "wait" /\ scrapeStep # "new"
  /\ ev \notin arrived /\ ev.at <= now
  /\ arrived' = arrived \cup {ev}
  /\ pending' = Append(pending, [ev |-> ev, deadline |-> Deadline(ev), notified |-> {}])
  /\ UNCHANGED <<live, pollStep, tickNow, todo, seen, found, outbox, retired,
                 undisturbed, lookedAt, reports, alerted>>

TickStart ==
  /\ pollStep = "wait" /\ pending # <<>>
  /\ tickNow' = now
  /\ pollStep' = "tick"
  /\ UNCHANGED <<pending, live, todo, seen, found, outbox, arrived, retired,
                 undisturbed, lookedAt, reports, alerted>>

\* Mutant: the loop over the sorted queryids starts at the second.
SortedFromSecond == LET s == Ascending(AllQueryIDs) IN SubSeq(s, 2, Len(s))

SortedQueryIDs == Ascending(AllQueryIDs)

\* analyseWindow begins: AllQueryIDs under its own lock, then sorted.
AnalyseStart ==
  /\ pollStep = "tick" /\ pending # <<>>
  /\ pollStep' = "analyse"
  /\ todo' = SortedQueryIDs
  /\ seen' = EmptyMap
  /\ found' = {}
  /\ undisturbed' = TRUE
  /\ lookedAt' = [lookedAt EXCEPT ![Head(pending).ev] = now]
  /\ UNCHANGED <<pending, live, tickNow, outbox, arrived, retired, reports, alerted>>

\* partitionAt: a sample recorded at the split itself is on both sides.
Before(s, split) == SelectSeq(s, LAMBDA x : x.at <= split)
After(s, split) == SelectSeq(s, LAMBDA x : x.at >= split)

\* latestSample takes the first sample with the greatest RecordedAt.  The order
\* of samples with equal times comes from a map iteration and an unstable sort,
\* so any of them is allowed to be first.
LatestSamples(s) ==
  {x \in Range(s) : \A y \in Range(s) : y.at <= x.at}

\* Mutant: the zero QuerySample's QueryID.
ZeroQueryID(latest) == 0

CanonicalQueryID(latest) == latest.qid

\* One iteration of analyseWindow: skip a fingerprint already evaluated, else
\* evaluate and file the result under the queryid of the latest sample.  With
\* no samples in range the result is StatusInsufficientData.
AnalyseQuery ==
  /\ pollStep = "analyse" /\ todo # <<>>
  /\ LET ev == Head(pending).ev
         s == SamplesInRange(Head(todo), ev.at - Window, ev.at + Window)
     IN  IF s = <<>>
         THEN UNCHANGED <<seen, found>>
         ELSE \E latest \in LatestSamples(s) :
                IF latest.fp \in DOMAIN seen
                THEN UNCHANGED <<seen, found>>
                ELSE /\ seen' = Put(seen, latest.fp, Range(s))
                     /\ found' = IF Regressed(ev, Before(s, ev.at), After(s, ev.at))
                                 THEN found \cup {CanonicalQueryID(latest)} ELSE found
  /\ todo' = Tail(todo)
  /\ UNCHANGED <<pending, live, pollStep, tickNow, outbox, arrived, retired,
                 undisturbed, lookedAt, reports, alerted>>

\* Mutants: nothing is filtered; nothing is marked; retired one unit early.
FreshAll(pe) == found
MarkedNone(pe) == pe.notified
OpenTooShort(pe) == tickNow + 1 < pe.deadline

\* pe.notified consulted and updated; now.Before(pe.deadline)
Fresh(pe) == found \ pe.notified
Marked(pe) == pe.notified \cup found
StillOpen(pe) == tickNow < pe.deadline

\* The rest of a Tick iteration: report what was not reported for this event
\* before, and keep the event only while tickNow is before its deadline.
AnalyseEnd ==
  /\ pollStep = "analyse" /\ todo = <<>>
  /\ LET pe == Head(pending)
         fresh == Ascending(Fresh(pe))
         results == [i \in 1 .. Len(fresh) |-> [ev |-> pe.ev, qid |-> fresh[i]]]
     IN  /\ reports' = reports \o results
         /\ outbox' = outbox \o results
         /\ IF StillOpen(pe)
            THEN /\ live' = Append(live, [pe EXCEPT !.notified = Marked(pe)])
                 /\ UNCHANGED retired
            ELSE /\ retired' = retired \cup {pe.ev}
                 /\ UNCHANGED live
  /\ pending' = Tail(pending)
  /\ pollStep' = "tick"
  /\ seen' = EmptyMap /\ found' = {} /\ undisturbed' = FALSE
  /\ UNCHANGED <<tickNow, todo, arrived, lookedAt, alerted>>

TickEnd ==
  /\ pollStep = "tick" /\ pending = <<>>
  /\ pending' = live
  /\ live' = <<>>
  /\ pollStep' = "notify"
  /\ UNCHANGED <<tickNow, todo, seen, found, outbox, arrived, retired, undisturbed,
                 lookedAt, reports, alerted>>

\* Mutant: a result whose notification went out stays in the list.
NotifyKeeps ==
  /\ pollStep = "notify" /\ outbox # <<>>
  /\ alerted' = alerted \cup {Head(outbox)}
  /\ UNCHANGED <<pending, live, pollStep, tickNow, todo, seen, found, outbox, arrived,
                 retired, undisturbed, lookedAt, reports>>

\* notifier.Notify for one result; a failure is logged and not retried.
Notify ==
  /\ pollStep = "notify" /\ outbox # <<>>
  /\ outbox' = Tail(outbox)
  /\ alerted' \in {alerted, alerted \cup {Head(outbox)}}
  /\ UNCHANGED <<pending, live, pollStep, tickNow, todo, seen, found, arrived,
                 retired, undisturbed, lookedAt, reports>>

PollEnd ==
  /\ pollStep = "notify" /\ outbox = <<>>
  /\ pollStep' = "wait"
  /\ UNCHANGED <<pending, live, tickNow, todo, seen, found, outbox, arrived,
                 retired, undisturbed, lookedAt, reports, alerted>>

PollLoop ==
  \/ \E ev \in DeployEvent : Register(ev)
  \/ TickStart \/ AnalyseStart \/ AnalyseQuery \/ AnalyseEnd \/ TickEnd
  \/ Notify \/ PollEnd

\* The scrape goroutine, at any moment of the poll loop.
CollectorGoesOn ==
  /\ CollectorNext
  /\ undisturbed' = (undisturbed /\ UNCHANGED sampleVars)
  /\ UNCHANGED pollVars

Next ==
  \/ CollectorGoesOn
  \/ PollLoop /\ UNCHANGED collectorVars

Spec == Init /\ [][Next]_vars
-----------------------------------------------------------------------------
Result == [ev : DeployEvent, qid : QueryID]

PendingEvent == [ev : DeployEvent, deadline : Nat, notified : SUBSET QueryID]

AnalysisTypeOK ==
  /\ pending \in Seq(PendingEvent) /\ live \in Seq(PendingEvent)
  /\ pollStep \in {"wait", "tick", "analyse", "notify"}
  /\ tickNow \in Nat
  /\ todo \in Seq(QueryID)
  /\ IsMap(seen, Fingerprint, SUBSET Sample)
  /\ found \subseteq QueryID
  /\ outbox \in Seq(Result) /\ reports \in Seq(Result)
  /\ alerted \subseteq Result
  /\ arrived \subseteq DeployEvent /\ retired \subseteq DeployEvent
  /\ lookedAt \in [DeployEvent -> Nat]

Tracked == Range(pending) \cup Range(live)

\* An event is given up only after an analysis that began once its window was
\* over, however long the tick's earlier analyses took: the clock Tick read
\* first is never later than the reads it is used to judge (pending.go:113-133).
RetiredAfterFinalLook == \A ev \in retired : lookedAt[ev] >= Deadline(ev)

\* A (deploy, queryid) pair is returned by Tick at most once, over all ticks
\* and whatever scrapes land in between ("only once per event", pending.go:43-47).
ReportedOnce ==
  \A i, j \in 1 .. Len(reports) : reports[i] = reports[j] => i = j

\* The dedup memory of an event is exact as long as the event is tracked: what
\* it marks notified is what was reported for it, so no detection is swallowed.
NotifiedIsReported ==
  \A p \in Tracked : p.notified = {r.qid : r \in {x \in Range(reports) : x.ev = p.ev}}

\* Nobody is alerted twice: a result still to be sent has never been sent.
AlertedOnce ==
  /\ \A i \in 1 .. Len(outbox) : outbox[i] \notin alerted
  /\ alerted \subseteq Range(reports)

\* One look leaves no query out: when no row landed during the analysis, every
\* queryid with samples in the window shares its current fingerprint with one
\* that was evaluated (engine.go:223-245).
EveryQueryJudged ==
  pollStep = "analyse" /\ todo = <<>> /\ undisturbed =>
    \A q \in DOMAIN samples :
      LET ev == Head(pending).ev
          s == SamplesInRange(q, ev.at - Window, ev.at + Window)
      IN  s = <<>> \/ \E x \in LatestSamples(s) : x.fp \in DOMAIN seen

\* What engine.go:217-219 says: a queryid is skipped only because "it would
\* only re-evaluate the identical merged sample set".
SkippedIsIdentical ==
  pollStep = "analyse" /\ todo # <<>> /\ undisturbed =>
    LET ev == Head(pending).ev
        s == SamplesInRange(Head(todo), ev.at - Window, ev.at + Window)
    IN  \A x \in LatestSamples(s) : x.fp \in DOMAIN seen => Range(s) = seen[x.fp]

\* What pending.go:42-43 says of the moment an event is retired: "no further
\* real sample could ever arrive for it".
NoLateSample ==
  [][\A q \in QueryID, ev \in retired :
       LET before == History(q)
           after == IF q \in DOMAIN samples' THEN samples'[q] ELSE <<>>
       IN  \A s \in Range(after) \ Range(before) : s.at > Deadline(ev)
    ]_vars
=============================================================================
