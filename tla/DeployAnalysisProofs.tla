------------------------- MODULE DeployAnalysisProofs -------------------------
(***************************************************************************)
(* The deploy-triggered analysis, for every set of events, every window    *)
(* and every statistic: an event is retired only after a last look at its  *)
(* whole window, no regression is reported or alerted twice and none is    *)
(* swallowed, and a look that nothing disturbs leaves no query out.        *)
(* Last, the plans an alert quotes: their rings bracket a change, and what *)
(* PlanCapture files there is the query's own.                             *)
(***************************************************************************)
EXTENDS DeployAnalysis, PlanCapture, CollectorProofs

\* What the two slices of the PendingSet hold.
Entries(s) ==
  /\ s \in Seq(Range(s))
  /\ \A p \in Range(s) : /\ {"ev", "deadline"} \subseteq DOMAIN p
                         /\ p.ev \in DeployEvent
                         /\ p.deadline = Deadline(p.ev)

\* Tick's clock is not ahead of the analyses it judges.
LookInv ==
  /\ now \in Nat /\ tickNow \in Nat /\ tickNow <= now
  /\ Entries(pending) /\ Entries(live)
  /\ lookedAt \in [DeployEvent -> Nat]
  /\ \A ev \in DeployEvent : lookedAt[ev] <= now
  /\ retired \subseteq DeployEvent
  /\ pollStep = "analyse" => pending # <<>> /\ tickNow <= lookedAt[Head(pending).ev]
  /\ RetiredAfterFinalLook
-----------------------------------------------------------------------------
LEMMA EmptyEntries == Entries(<<>>)
BY SetsOfSequences DEF Entries

LEMMA AppendEntry ==
  ASSUME NEW s, NEW p, Entries(s),
         {"ev", "deadline"} \subseteq DOMAIN p, p.ev \in DeployEvent,
         p.deadline = Deadline(p.ev)
  PROVE  Entries(Append(s, p))
<1> DEFINE S == Range(s) \cup {p}
<1>1. s \in Seq(S) /\ p \in S
  <2>1. s \in Seq(Range(s)) /\ Range(s) \subseteq S
    BY Zenon DEF Entries
  <2> QED BY <2>1
<1>2. Append(s, p) \in Seq(S)
  BY Zenon, <1>1, AppendProperties
<1>3. Range(Append(s, p)) = S
  BY <1>1, SetsOfSequences
<1> QED BY Zenon, <1>2, <1>3 DEF Entries

LEMMA HeadEntry ==
  ASSUME NEW s, Entries(s), s # <<>>
  PROVE  /\ Head(s).ev \in DeployEvent /\ Head(s).deadline = Deadline(Head(s).ev)
         /\ {"ev", "deadline"} \subseteq DOMAIN Head(s)
         /\ Entries(Tail(s))
<1>1. s \in Seq(Range(s)) /\ Range(s) = {Head(s)} \cup Range(Tail(s))
  BY Zenon, SetsOfSequences DEF Entries
<1>2. Tail(s) \in Seq(Range(s))
  BY Zenon, <1>1, HeadTailProperties
<1>3. Tail(s) \in Seq(Range(Tail(s)))
  <2>1. PICK t \in Seq(Range(s)) : t = Tail(s)
    BY Zenon, <1>2
  <2>2. PICK n \in Nat : t \in [1 .. n -> Range(s)]
    BY SeqDef
  <2>3. t \in [1 .. n -> Range(t)]
    BY Zenon, <2>2 DEF Range
  <2>4. t \in Seq(Range(t))
    BY <2>2, <2>3, SeqDef
  <2> QED BY Zenon, <2>1, <2>4
<1> QED BY Zenon, <1>1, <1>3 DEF Entries

LEMMA ClockStep ==
  ASSUME now \in Nat, CollectorNext PROVE now' \in Nat /\ now <= now'
<1>1. CASE Elapse
  BY <1>1 DEF Elapse
<1>2. CASE BackfillSample \/ BackfillEnd
  BY <1>2 DEF BackfillSample, BackfillEnd
<1>3. CASE ScrapeQueryFails \/ ScrapeStart
  BY <1>3 DEF ScrapeQueryFails, ScrapeStart
<1>4. ASSUME NEW q \in QueryID, NEW text \in QueryText, NEW lat \in Latency,
             ScrapeRow(q, text, lat)
      PROVE  now' = now
  BY Zenon, <1>4 DEF ScrapeRow
<1>5. CASE ScrapeFail \/ ScrapeComplete \/ ScrapePrune
  BY <1>5 DEF ScrapeFail, ScrapeComplete, ScrapePrune
<1>6. CASE CapturePlan \/ ScrapeEnd \/ Stop
  BY <1>6 DEF CapturePlan, ScrapeEnd, Stop
<1> QED BY <1>1, <1>2, <1>3, <1>4, <1>5, <1>6 DEF CollectorNext

LEMMA LookStep ==
  ASSUME LookInv, [Next]_vars PROVE LookInv'
<1> USE DEF LookInv
<1>0. \A ev \in DeployEvent : Deadline(ev) \in Nat
  BY AnalysisAssumption DEF Deadline
<1>1. CASE CollectorGoesOn
  <2>1. now' \in Nat /\ now <= now'
    BY Zenon, <1>1, ClockStep DEF CollectorGoesOn
  <2>2. UNCHANGED <<tickNow, pending, live, lookedAt, retired, pollStep>>
    BY Zenon, <1>1 DEF CollectorGoesOn, pollVars
  <2>3. \A ev \in DeployEvent : lookedAt'[ev] <= now'
    BY <2>1, <2>2
  <2> QED BY <2>1, <2>2, <2>3 DEF RetiredAfterFinalLook
<1>2. CASE PollLoop /\ UNCHANGED collectorVars
  <2>0. now' = now
    BY Zenon, <1>2 DEF collectorVars
  <2>1. ASSUME NEW ev \in DeployEvent, Register(ev) PROVE LookInv'
    <3> DEFINE p == [ev |-> ev, deadline |-> Deadline(ev), notified |-> {}]
    <3>1. Entries(Append(pending, p))
      BY Zenon, AppendEntry
    <3> QED BY Zenon, <2>0, <2>1, <3>1 DEF Register, RetiredAfterFinalLook
  <2>2. CASE TickStart
    BY <2>0, <2>2 DEF TickStart, RetiredAfterFinalLook
  <2>3. CASE AnalyseStart
    <3>1. PICK ev \in DeployEvent : ev = Head(pending).ev
      BY Zenon, <2>3, HeadEntry DEF AnalyseStart
    <3>2. lookedAt' = [lookedAt EXCEPT ![ev] = now]
      BY Zenon, <2>3, <3>1 DEF AnalyseStart
    <3>3. UNCHANGED <<pending, live, tickNow, retired>> /\ pending # <<>>
      BY Zenon, <2>3 DEF AnalyseStart
    <3>4. /\ lookedAt' \in [DeployEvent -> Nat] /\ lookedAt'[ev] = now
          /\ \A e \in DeployEvent : lookedAt[e] <= lookedAt'[e] /\ lookedAt'[e] <= now
      BY <3>2
    <3>5. RetiredAfterFinalLook'
      BY <1>0, <3>3, <3>4 DEF RetiredAfterFinalLook
    <3> QED BY Zenon, <2>0, <3>1, <3>3, <3>4, <3>5
  <2>4. CASE AnalyseQuery
    BY Zenon, <2>0, <2>4 DEF AnalyseQuery, RetiredAfterFinalLook
  <2>5. CASE AnalyseEnd
    <3> DEFINE pe == Head(pending)
               kept == [pe EXCEPT !.notified = Marked(pe)]
    <3>1. /\ pe.ev \in DeployEvent /\ pe.deadline = Deadline(pe.ev)
          /\ {"ev", "deadline"} \subseteq DOMAIN pe /\ Entries(Tail(pending))
          /\ tickNow <= lookedAt[pe.ev]
      BY Zenon, <2>5, HeadEntry DEF AnalyseEnd
    <3>2. /\ pending' = Tail(pending) /\ pollStep' = "tick"
          /\ UNCHANGED <<tickNow, lookedAt>>
      BY Zenon, <2>5 DEF AnalyseEnd
    <3>3. CASE StillOpen(pe)
      <4>1. live' = Append(live, kept) /\ retired' = retired
        BY Zenon, <2>5, <3>3 DEF AnalyseEnd
      <4>2. /\ DOMAIN kept = DOMAIN pe /\ kept.ev = pe.ev /\ kept.deadline = pe.deadline
        BY Zenon, <3>1
      <4> HIDE DEF kept
      <4>3. Entries(live')
        BY Zenon, <3>1, <4>1, <4>2, AppendEntry
      <4> QED BY Zenon, <2>0, <3>1, <3>2, <4>1, <4>3 DEF RetiredAfterFinalLook
    <3>4. CASE ~ StillOpen(pe)
      <4>1. live' = live /\ retired' = retired \cup {pe.ev}
        BY Zenon, <2>5, <3>4 DEF AnalyseEnd
      <4>2. lookedAt[pe.ev] >= Deadline(pe.ev)
        BY <1>0, <3>1, <3>4 DEF StillOpen
      <4>3. RetiredAfterFinalLook'
        BY Zenon, <3>2, <4>1, <4>2 DEF RetiredAfterFinalLook
      <4> QED BY Zenon, <2>0, <3>1, <3>2, <4>1, <4>3
    <3> QED BY Zenon, <3>3, <3>4
  <2>6. CASE TickEnd
    BY Zenon, <2>0, <2>6, EmptyEntries DEF TickEnd, RetiredAfterFinalLook
  <2>7. CASE Notify
    BY Zenon, <2>0, <2>7 DEF Notify, RetiredAfterFinalLook
  <2>8. CASE PollEnd
    BY Zenon, <2>0, <2>8 DEF PollEnd, RetiredAfterFinalLook
  <2> QED BY Zenon, <1>2, <2>1, <2>2, <2>3, <2>4, <2>5, <2>6, <2>7, <2>8 DEF PollLoop
<1>3. CASE UNCHANGED vars
  BY Zenon, <1>3 DEF vars, pollVars, collectorVars, RetiredAfterFinalLook
<1> QED BY Zenon, <1>1, <1>2, <1>3 DEF Next

\* PendingSet.Tick gives an event up only after an analysis that began once its
\* window was over, whatever scrapes and other events' analyses happen meanwhile.
THEOREM FinalLookFirst == Spec => []RetiredAfterFinalLook
<1>1. Init => LookInv
  <2>1. StartTime \in Nat /\ 0 <= StartTime
    BY CollectorAssumption DEF StartTime
  <2> QED BY <2>1, EmptyEntries DEF Init, CollectorInit, LookInv, RetiredAfterFinalLook
<1>2. LookInv /\ [Next]_vars => LookInv'
  BY Zenon, LookStep
<1>3. LookInv => RetiredAfterFinalLook
  BY Zenon DEF LookInv
<1> QED BY <1>1, <1>2, <1>3, PTL DEF Spec
-----------------------------------------------------------------------------
\* The collector under the poll loop is the Collector.
LEMMA AnalysisIsCollector == Spec => CollectorSpec
<1>1. Init => CollectorInit
  BY Zenon DEF Init
<1>2. [Next]_vars => [CollectorNext]_collectorVars
  BY Zenon DEF Next, CollectorGoesOn, vars
<1> QED BY <1>1, <1>2, PTL DEF Spec, CollectorSpec
-----------------------------------------------------------------------------
(***************************************************************************)
(* The dedup memory and the loop over the queryids.                        *)
(***************************************************************************)
\* Each event has one entry, and nothing was reported before it arrived.
Owned ==
  /\ OneEach(pending) /\ OneEach(live)
  /\ \A p \in Range(pending), l \in Range(live) : p.ev # l.ev
  /\ \A p \in Tracked : p.ev \in arrived
  /\ \A r \in Range(reports) : r.ev \in arrived

\* The results still to send are reported ones, each once, none sent before.
Outgoing ==
  /\ Range(outbox) \subseteq Range(reports) /\ Distinct(outbox)
  /\ Range(outbox) \cap alerted = {} /\ alerted \subseteq Range(reports)

\* Nothing in range, or a fingerprint that was evaluated.
Judged(q) ==
  LET ev == Head(pending).ev
      s == SamplesInRange(q, ev.at - Window, ev.at + Window)
  IN  s = <<>> \/ \E x \in LatestSamples(s) : x.fp \in DOMAIN seen

\* The queryids the loop has passed are judged.
LoopInv ==
  pollStep = "analyse" =>
    /\ pending # <<>>
    /\ undisturbed => \A q \in DOMAIN samples : q \in Range(todo) \/ Judged(q)

AInv ==
  /\ AnalysisTypeOK /\ IsFiniteSet(found)
  /\ Owned /\ Distinct(reports) /\ NotifiedIsReported
  /\ Outgoing /\ LoopInv
-----------------------------------------------------------------------------
\* What is known of the steps that touch neither the entries nor the results.
LEMMA SlicesUntouched ==
  ASSUME AInv, UNCHANGED <<pending, live, arrived, reports, outbox, alerted>>
  PROVE  (Owned /\ Distinct(reports) /\ NotifiedIsReported /\ Outgoing)'
BY Zenon DEF AInv, Owned, NotifiedIsReported, Outgoing, Tracked

LEMMA SameReads ==
  ASSUME UNCHANGED <<samples, queryFingerprint, fingerprintIndex>>
  PROVE  \A q, from, to : SamplesInRange(q, from, to)' = SamplesInRange(q, from, to)
BY DEF SamplesInRange, Direct, History, Siblings

LEMMA CollectorKeeps ==
  ASSUME AInv, CollectorGoesOn
  PROVE  AInv'
<1>1. UNCHANGED <<pending, live, pollStep, tickNow, todo, seen, found, outbox, arrived,
                  retired, lookedAt, reports, alerted>>
  BY Zenon DEF CollectorGoesOn, pollVars
<1>2. AnalysisTypeOK' /\ IsFiniteSet(found)'
  BY Zenon, <1>1 DEF AInv, AnalysisTypeOK
<1>3. LoopInv'
  <2>1. CASE undisturbed'
    <3>1. undisturbed /\ UNCHANGED <<samples, queryFingerprint, fingerprintIndex>>
      BY Zenon, <2>1 DEF CollectorGoesOn, sampleVars
    <3>2. \A q : Judged(q)' <=> Judged(q)
      BY Zenon, <1>1, <3>1, SameReads DEF Judged, LatestSamples
    <3> QED BY Zenon, <1>1, <3>1, <3>2 DEF AInv, LoopInv
  <2>2. CASE ~ undisturbed'
    BY Zenon, <1>1, <2>2 DEF AInv, LoopInv
  <2> QED BY Zenon, <2>1, <2>2
<1> QED BY Zenon, <1>1, <1>2, <1>3, SlicesUntouched DEF AInv

LEMMA RegisterKeeps ==
  ASSUME AInv, NEW ev \in DeployEvent, Register(ev)
  PROVE  AInv'
<1> DEFINE p == [ev |-> ev, deadline |-> Deadline(ev), notified |-> {}]
<1>1. /\ pending' = Append(pending, p) /\ arrived' = arrived \cup {ev} /\ ev \notin arrived
      /\ pollStep' = "wait"
      /\ UNCHANGED <<live, tickNow, todo, seen, found, outbox, retired, lookedAt,
                     reports, alerted>>
  BY Zenon DEF Register
<1>2. p \in PendingEvent /\ p.ev = ev /\ p.notified = {}
  BY AnalysisAssumption DEF PendingEvent, Deadline
<1> HIDE DEF p
<1>3. /\ pending \in Seq(PendingEvent) /\ OneEach(pending)
      /\ \A x \in Range(pending) \cup Range(live) : x.ev \in arrived
      /\ \A r \in Range(reports) : r.ev \in arrived
  BY Zenon DEF AInv, AnalysisTypeOK, Owned, Tracked
<1>4. /\ pending' \in Seq(PendingEvent) /\ Range(pending') = Range(pending) \cup {p}
      /\ OneEach(pending')
  BY Zenon, <1>1, <1>2, <1>3, AppendOneEach
<1>5. AnalysisTypeOK' /\ IsFiniteSet(found)'
  BY Zenon, <1>1, <1>4 DEF AInv, AnalysisTypeOK
<1>6. Owned'
  BY Zenon, <1>1, <1>2, <1>3, <1>4 DEF AInv, Owned, Tracked
<1>7. NotifiedIsReported'
  <2>1. {r.qid : r \in {x \in Range(reports) : x.ev = ev}} = {}
    BY Zenon, <1>1, <1>3
  <2>2. \A x \in Range(pending) \cup Range(live) :
          x.notified = {r.qid : r \in {y \in Range(reports) : y.ev = x.ev}}
    BY Zenon DEF AInv, NotifiedIsReported, Tracked
  <2> QED BY Zenon, <1>1, <1>2, <1>4, <2>1, <2>2 DEF NotifiedIsReported, Tracked
<1>8. Distinct(reports)' /\ Outgoing' /\ LoopInv'
  BY Zenon, <1>1 DEF AInv, Outgoing, LoopInv
<1> QED BY Zenon, <1>5, <1>6, <1>7, <1>8 DEF AInv

LEMMA AnalyseStartKeeps ==
  ASSUME AInv, CInv, FiniteHistories, AnalyseStart, UNCHANGED collectorVars
  PROVE  AInv'
<1>1. /\ pending # <<>> /\ pollStep' = "analyse"
      /\ todo' = Ascending(DOMAIN samples) /\ seen' = EmptyMap /\ found' = {}
      /\ lookedAt' = [lookedAt EXCEPT ![Head(pending).ev] = now]
      /\ UNCHANGED <<pending, live, tickNow, outbox, arrived, retired, reports, alerted>>
  BY Zenon DEF AnalyseStart, SortedQueryIDs, AllQueryIDs
<1>2. now \in Nat /\ DOMAIN samples \subseteq QueryID /\ QueryID \subseteq Nat
  BY Zenon, CollectorAssumption DEF CInv, CollectorTypeOK, IsMap
<1>3. Ascending(DOMAIN samples) \in Seq(DOMAIN samples)
        /\ Range(Ascending(DOMAIN samples)) = DOMAIN samples
  BY Zenon, <1>2, AscendingExact DEF FiniteHistories
<1>4. todo' \in Seq(QueryID)
  BY <1>1, <1>2, <1>3
<1>5. IsMap(seen', Fingerprint, SUBSET Sample)
  BY Zenon, <1>1 DEF IsMap, EmptyMap
<1>6. lookedAt' \in [DeployEvent -> Nat]
  BY Zenon, <1>1, <1>2 DEF AInv, AnalysisTypeOK
<1>7. AnalysisTypeOK'
  BY Zenon, <1>1, <1>4, <1>5, <1>6 DEF AInv, AnalysisTypeOK
<1>8. IsFiniteSet(found)'
  BY Zenon, <1>1, FS_EmptySet
<1>9. LoopInv'
  <2>1. samples' = samples
    BY Zenon DEF collectorVars, sampleVars
  <2> QED BY Zenon, <1>1, <1>3, <2>1 DEF LoopInv
<1> QED BY Zenon, <1>1, <1>7, <1>8, <1>9, SlicesUntouched DEF AInv

LEMMA AnalyseQueryKeeps ==
  ASSUME AInv, CInv, FiniteHistories, AnalyseQuery, UNCHANGED collectorVars
  PROVE  AInv'
<1>0. PICK ev, q, s : /\ ev = Head(pending).ev /\ q = Head(todo)
                      /\ s = SamplesInRange(q, ev.at - Window, ev.at + Window)
  BY Zenon
<1>1. /\ todo # <<>> /\ todo' = Tail(todo) /\ pollStep = "analyse"
      /\ UNCHANGED <<pending, live, pollStep, tickNow, outbox, arrived, retired,
                     undisturbed, lookedAt, reports, alerted>>
  BY Zenon DEF AnalyseQuery
<1>2. UNCHANGED <<samples, queryFingerprint, fingerprintIndex>>
  BY Zenon DEF collectorVars, sampleVars
<1>3. /\ pending \in Seq(PendingEvent) /\ pending # <<>> /\ todo \in Seq(QueryID)
      /\ found \subseteq QueryID /\ IsFiniteSet(found)
      /\ IsMap(seen, Fingerprint, SUBSET Sample)
  BY Zenon, <1>1 DEF AInv, AnalysisTypeOK, LoopInv
<1>4. ev \in DeployEvent /\ ev.at - Window \in Int /\ ev.at + Window \in Int
  <2>1. Head(pending) \in PendingEvent
    BY Zenon, <1>3, HeadTailProperties
  <2> QED BY <1>0, <2>1, AnalysisAssumption DEF PendingEvent
<1>5. s \in Seq(Sample)
  BY Zenon, <1>0, <1>4, SamplesInRangeExact DEF CInv, IsReadOf
<1>6. \/ s = <<>> /\ UNCHANGED <<seen, found>>
      \/ \E latest \in LatestSamples(s) :
           IF latest.fp \in DOMAIN seen
           THEN UNCHANGED <<seen, found>>
           ELSE /\ seen' = Put(seen, latest.fp, Range(s))
                /\ found' \in {found, found \cup {latest.qid}}
  BY Zenon, <1>0 DEF AnalyseQuery, CanonicalQueryID
<1>7. Range(s) \subseteq Sample
  BY Zenon, <1>5, ElementOfSeq, LenProperties DEF Range
<1>8. /\ IsMap(seen', Fingerprint, SUBSET Sample) /\ DOMAIN seen \subseteq DOMAIN seen'
      /\ found' \subseteq QueryID /\ IsFiniteSet(found')
      /\ s = <<>> \/ \E x \in LatestSamples(s) : x.fp \in DOMAIN seen'
  <2>1. CASE s = <<>> /\ UNCHANGED <<seen, found>>
    BY Zenon, <1>3, <2>1
  <2>2. CASE \E latest \in LatestSamples(s) :
               IF latest.fp \in DOMAIN seen
               THEN UNCHANGED <<seen, found>>
               ELSE /\ seen' = Put(seen, latest.fp, Range(s))
                    /\ found' \in {found, found \cup {latest.qid}}
    <3>1. PICK latest \in LatestSamples(s) :
               IF latest.fp \in DOMAIN seen
               THEN UNCHANGED <<seen, found>>
               ELSE /\ seen' = Put(seen, latest.fp, Range(s))
                    /\ found' \in {found, found \cup {latest.qid}}
      BY Zenon, <2>2
    <3>2. latest.fp \in Fingerprint /\ latest.qid \in QueryID
      BY Zenon, <1>7, SampleFacts DEF LatestSamples
    <3>3. CASE latest.fp \in DOMAIN seen
      BY Zenon, <1>3, <3>1, <3>3
    <3>4. CASE latest.fp \notin DOMAIN seen
      <4>0. IsFiniteSet(found \cup {latest.qid})
        BY Zenon, <1>3, FS_AddElement
      <4>1. found' \subseteq QueryID /\ IsFiniteSet(found')
        BY Zenon, <1>3, <3>1, <3>2, <3>4, <4>0
      <4>2. seen' = Put(seen, latest.fp, Range(s))
        BY Zenon, <3>1, <3>4
      <4>3. IsMap(seen', Fingerprint, SUBSET Sample) /\ DOMAIN seen' = DOMAIN seen \cup {latest.fp}
        BY Zenon, <1>3, <1>7, <3>2, <4>2 DEF IsMap, Put
      <4> QED BY Zenon, <4>1, <4>3
    <3> QED BY Zenon, <3>3, <3>4
  <2> QED BY Zenon, <1>6, <2>1, <2>2
<1>9. Tail(todo) \in Seq(QueryID) /\ Range(todo) = {q} \cup Range(Tail(todo))
  BY Zenon, <1>0, <1>1, <1>3, TailDistinct
<1>10. AnalysisTypeOK' /\ IsFiniteSet(found)'
  BY Zenon, <1>1, <1>8, <1>9 DEF AInv, AnalysisTypeOK
<1>11. Judged(q)'
  <2>1. s = SamplesInRange(q, ev.at - Window, ev.at + Window)' /\ ev = Head(pending').ev
    BY Zenon, <1>0, <1>1, <1>2, SameReads
  <2> QED BY Zenon, <1>8, <2>1 DEF Judged, LatestSamples
<1>12. \A p : Judged(p) => Judged(p)'
  BY Zenon, <1>1, <1>2, <1>8, SameReads DEF Judged, LatestSamples
<1>13. LoopInv'
  BY Zenon, <1>1, <1>2, <1>9, <1>11, <1>12 DEF AInv, LoopInv
<1> QED BY Zenon, <1>1, <1>10, <1>13, SlicesUntouched DEF AInv

\* The queryids F as results for the event e, in order.
ResultsFor(e, F) ==
  [i \in 1 .. Len(Ascending(F)) |-> [ev |-> e, qid |-> Ascending(F)[i]]]

\* One result for each, and no other.
AreResults(r, e, F) ==
  /\ r \in Seq(Result) /\ Distinct(r)
  /\ \A x \in Range(r) : x.ev = e /\ x.qid \in F
  /\ \A q \in F : \E x \in Range(r) : x.ev = e /\ x.qid = q

LEMMA ResultsExact ==
  ASSUME NEW e \in DeployEvent, NEW F \in SUBSET QueryID, IsFiniteSet(F)
  PROVE  AreResults(ResultsFor(e, F), e, F)
<1>1. PICK f : f = Ascending(F)
  BY Zenon
<1>2. F \in SUBSET Nat
  BY Zenon, CollectorAssumption
<1>3. f \in Seq(F) /\ Range(f) = F
  BY Zenon, <1>1, <1>2, AscendingExact
<1>4. \A i, j \in 1 .. Len(f) : f[i] = f[j] => i = j
  BY Zenon, <1>1, <1>2, AscendingExact
<1>5. Len(f) \in Nat /\ DOMAIN f = 1 .. Len(f) /\ \A i \in 1 .. Len(f) : f[i] \in F
  BY Zenon, <1>3, LenProperties, ElementOfSeq
<1>6. PICK r : r = ResultsFor(e, F)
  BY Zenon
<1>7. r = [i \in 1 .. Len(f) |-> [ev |-> e, qid |-> f[i]]]
  BY Zenon, <1>1, <1>6 DEF ResultsFor
<1>8. r \in [1 .. Len(f) -> Result]
  BY Zenon, <1>5, <1>7 DEF Result
<1>9. r \in Seq(Result)
  BY <1>5, <1>8, SeqDef
<1>10. Len(r) = Len(f) /\ DOMAIN r = 1 .. Len(f)
  BY <1>5, <1>8, <1>9, LenProperties
<1>11. \A i \in 1 .. Len(f) : r[i].ev = e /\ r[i].qid = f[i]
  BY Zenon, <1>7
<1>12. Distinct(r)
  <2> SUFFICES ASSUME NEW i \in 1 .. Len(f), NEW j \in 1 .. Len(f), r[i] = r[j] PROVE i = j
    BY Zenon, <1>10 DEF Distinct
  <2>1. f[i] = f[j]
    BY Zenon, <1>11
  <2> QED BY Zenon, <1>4, <2>1
<1>13. \A x \in Range(r) : x.ev = e /\ x.qid \in F
  BY Zenon, <1>5, <1>10, <1>11 DEF Range
<1>14. \A x \in F : \E y \in Range(r) : y.ev = e /\ y.qid = x
  <2> SUFFICES ASSUME NEW x \in F PROVE \E y \in Range(r) : y.ev = e /\ y.qid = x
    BY Zenon
  <2>1. PICK i \in 1 .. Len(f) : x = f[i]
    BY Zenon, <1>3, <1>5 DEF Range
  <2>2. r[i] \in Range(r) /\ r[i].ev = e /\ r[i].qid = x
    BY Zenon, <1>10, <1>11, <2>1 DEF Range
  <2> QED BY Zenon, <2>2
<1> QED BY Zenon, <1>6, <1>9, <1>12, <1>13, <1>14 DEF AreResults

\* The results Tick returns for one event: one for each queryid found and not
\* notified before, none of them reported before.
LEMMA FreshResults ==
  ASSUME AInv, pending # <<>>, NEW pe, pe = Head(pending), NEW results,
         results = ResultsFor(pe.ev, found \ pe.notified)
  PROVE  /\ AreResults(results, pe.ev, found \ pe.notified)
         /\ Range(results) \cap Range(reports) = {}
<1>1. PICK F : F = found \ pe.notified
  BY Zenon
<1>2. IsFiniteSet(F) /\ F \in SUBSET QueryID
  BY Zenon, <1>1, FS_Subset DEF AInv, AnalysisTypeOK
<1>3. pe \in Range(pending) /\ pe.ev \in DeployEvent
  <2>1. pe \in PendingEvent /\ pe \in Range(pending)
    BY TailDistinct DEF AInv, AnalysisTypeOK
  <2> QED BY Zenon, <2>1 DEF PendingEvent
<1>4. PICK e \in DeployEvent : e = pe.ev
  BY Zenon, <1>3
<1>5. results = ResultsFor(e, F)
  BY Zenon, <1>1, <1>4
<1>6. AreResults(results, e, F)
  BY Zenon, <1>2, <1>5, ResultsExact
<1>7. \A r \in Range(results) : r.ev = e /\ r.qid \in F
  BY Zenon, <1>6 DEF AreResults
<1>8. Range(results) \cap Range(reports) = {}
  <2>1. pe.notified = {r.qid : r \in {x \in Range(reports) : x.ev = pe.ev}}
    BY Zenon, <1>3 DEF AInv, NotifiedIsReported, Tracked
  <2> SUFFICES ASSUME NEW r \in Range(results), r \in Range(reports) PROVE FALSE
    BY Zenon
  <2>2. r.ev = pe.ev /\ r.qid \in F
    BY Zenon, <1>4, <1>7
  <2>3. r.qid \in pe.notified
    BY Zenon, <2>1, <2>2
  <2> QED BY Zenon, <1>1, <2>2, <2>3
<1> QED BY Zenon, <1>1, <1>4, <1>6, <1>8

LEMMA AnalyseEndKeeps ==
  ASSUME AInv, AnalyseEnd
  PROVE  AInv'
<1>1. PICK pe, results :
        pe = Head(pending) /\ results = ResultsFor(pe.ev, found \ pe.notified)
  BY Zenon
<1>2. /\ reports' = reports \o results /\ outbox' = outbox \o results
      /\ pending' = Tail(pending) /\ pollStep' = "tick" /\ seen' = EmptyMap /\ found' = {}
      /\ UNCHANGED <<tickNow, todo, arrived, lookedAt, alerted>>
      /\ pending # <<>>
  BY Zenon, <1>1 DEF AnalyseEnd, ResultsFor, Fresh, AInv, LoopInv
<1>3. \/ /\ live' = Append(live, [pe EXCEPT !.notified = pe.notified \cup found])
         /\ retired' = retired
      \/ live' = live /\ retired' = retired \cup {pe.ev}
  BY Zenon, <1>1 DEF AnalyseEnd, Marked
<1>4. /\ results \in Seq(Result) /\ Distinct(results)
      /\ \A r \in Range(results) : r.ev = pe.ev /\ r.qid \in found \ pe.notified
      /\ \A x \in found \ pe.notified : \E r \in Range(results) : r.ev = pe.ev /\ r.qid = x
      /\ Range(results) \cap Range(reports) = {}
  <2>1. /\ AreResults(results, pe.ev, found \ pe.notified)
        /\ Range(results) \cap Range(reports) = {}
    BY Zenon, <1>1, <1>2, FreshResults
  <2> QED BY Zenon, <2>1 DEF AreResults
<1>5. /\ pe \in PendingEvent /\ Tail(pending) \in Seq(PendingEvent)
      /\ Range(pending) = {pe} \cup Range(Tail(pending))
      /\ OneEach(Tail(pending)) /\ \A y \in Range(Tail(pending)) : y.ev # pe.ev
  BY Zenon, <1>1, <1>2, TailDistinct DEF AInv, AnalysisTypeOK, Owned
<1>6. pe.ev \in DeployEvent /\ pe.ev \in arrived /\ pe.notified \subseteq QueryID
        /\ found \subseteq QueryID
  BY Zenon, <1>5 DEF PendingEvent, AInv, AnalysisTypeOK, Owned, Tracked
<1>7. /\ reports' \in Seq(Result) /\ Range(reports') = Range(reports) \cup Range(results)
      /\ Distinct(reports')
  BY <1>2, <1>4, JoinDistinct DEF AInv, AnalysisTypeOK
<1>8. /\ outbox' \in Seq(Result) /\ Range(outbox') = Range(outbox) \cup Range(results)
      /\ Distinct(outbox')
  <2>1. outbox \in Seq(Result) /\ Distinct(outbox) /\ Range(outbox) \cap Range(results) = {}
    BY Zenon, <1>4 DEF AInv, AnalysisTypeOK, Outgoing
  <2> QED BY <1>2, <1>4, <2>1, JoinDistinct
<1>9. Outgoing'
  BY Zenon, <1>2, <1>4, <1>7, <1>8 DEF AInv, Outgoing
<1>10. PICK kept : kept = [pe EXCEPT !.notified = pe.notified \cup found]
  BY Zenon
<1>11. kept \in PendingEvent /\ kept.ev = pe.ev /\ kept.notified = pe.notified \cup found
  BY Zenon, <1>5, <1>6, <1>10 DEF PendingEvent
<1>12. \A y \in Range(live) : y.ev # pe.ev
  BY Zenon, <1>5 DEF AInv, Owned
<1>13. /\ live' \in Seq(PendingEvent) /\ OneEach(live') /\ retired' \subseteq DeployEvent
       /\ Range(live') = Range(live) \cup {kept} \/ Range(live') = Range(live)
  <2>1. live \in Seq(PendingEvent) /\ OneEach(live) /\ retired \subseteq DeployEvent
    BY Zenon DEF AInv, AnalysisTypeOK, Owned
  <2>2. CASE live' = Append(live, kept) /\ retired' = retired
    BY <1>11, <1>12, <2>1, <2>2, AppendOneEach
  <2>3. CASE live' = live /\ retired' = retired \cup {pe.ev}
    BY Zenon, <1>6, <2>1, <2>3
  <2> QED BY Zenon, <1>3, <1>10, <2>2, <2>3
<1>14. \A r \in Range(results) : r.ev = pe.ev
  BY Zenon, <1>4
<1>15. Owned'
  <2>1. \A p \in Range(Tail(pending)), l \in Range(live') : p.ev # l.ev
    BY Zenon, <1>5, <1>11, <1>13 DEF AInv, Owned
  <2>2. \A p \in Range(Tail(pending)) \cup Range(live') : p.ev \in arrived
    BY Zenon, <1>5, <1>6, <1>11, <1>13 DEF AInv, Owned, Tracked
  <2>3. \A r \in Range(reports') : r.ev \in arrived
    BY Zenon, <1>6, <1>7, <1>14 DEF AInv, Owned
  <2> QED BY Zenon, <1>2, <1>5, <1>13, <2>1, <2>2, <2>3 DEF Owned, Tracked
<1>16. NotifiedIsReported'
  <2> DEFINE was(e) == {r.qid : r \in {x \in Range(reports) : x.ev = e}}
             is(e) == {r.qid : r \in {x \in Range(reports') : x.ev = e}}
  <2>1. \A e : e # pe.ev => is(e) = was(e)
    BY Zenon, <1>7, <1>14
  <2>2. is(pe.ev) = was(pe.ev) \cup found
    <3>1. \A r \in Range(results) : r.qid \in found
      BY Zenon, <1>4
    <3>2. \A x \in found \ pe.notified : \E r \in Range(results) : r.ev = pe.ev /\ r.qid = x
      BY Zenon, <1>4
    <3>3. pe.notified = was(pe.ev)
      BY Zenon, <1>5 DEF AInv, NotifiedIsReported, Tracked
    <3>4. is(pe.ev) = was(pe.ev) \cup {r.qid : r \in Range(results)}
      BY Zenon, <1>7, <1>14
    <3> HIDE DEF is, was
    <3> QED BY <3>1, <3>2, <3>3, <3>4
  <2>3. \A p \in Range(pending) \cup Range(live) : p.notified = was(p.ev)
    BY Zenon DEF AInv, NotifiedIsReported, Tracked
  <2> SUFFICES ASSUME NEW p \in Range(Tail(pending)) \cup Range(live') PROVE p.notified = is(p.ev)
    BY Zenon, <1>2 DEF NotifiedIsReported, Tracked
  <2> HIDE DEF is, was
  <2>4. CASE p \in Range(Tail(pending)) \cup Range(live)
    BY Zenon, <1>5, <1>12, <2>1, <2>3, <2>4
  <2>5. CASE p = kept
    BY Zenon, <1>5, <1>11, <2>2, <2>3, <2>5
  <2> QED BY Zenon, <1>13, <2>4, <2>5
<1>17. AnalysisTypeOK'
  <2>1. IsMap(seen', Fingerprint, SUBSET Sample)
    BY Zenon, <1>2 DEF IsMap, EmptyMap
  <2> QED BY Zenon, <1>2, <1>5, <1>7, <1>8, <1>13, <2>1 DEF AInv, AnalysisTypeOK
<1>18. IsFiniteSet(found)' /\ LoopInv'
  BY Zenon, <1>2, FS_EmptySet DEF LoopInv
<1> QED BY Zenon, <1>7, <1>9, <1>15, <1>16, <1>17, <1>18 DEF AInv

LEMMA NotifyStep ==
  ASSUME AInv, Notify
  PROVE  AInv'
<1>1. PICK r : r = Head(outbox)
  BY Zenon
<1>2. /\ outbox # <<>> /\ outbox' = Tail(outbox) /\ alerted' \in {alerted, alerted \cup {r}}
      /\ pollStep' = "notify"
      /\ UNCHANGED <<pending, live, tickNow, todo, seen, found, arrived, retired,
                     lookedAt, reports>>
  BY Zenon, <1>1 DEF Notify
<1>3. /\ r \in Result /\ outbox' \in Seq(Result) /\ Range(outbox) = {r} \cup Range(outbox')
      /\ Distinct(outbox') /\ r \notin Range(outbox')
  BY Zenon, <1>1, <1>2, TailDistinct DEF AInv, AnalysisTypeOK, Outgoing
<1>4. Outgoing'
  BY Zenon, <1>2, <1>3 DEF AInv, Outgoing
<1>5. AnalysisTypeOK'
  BY Zenon, <1>2, <1>3 DEF AInv, AnalysisTypeOK
<1>6. (Owned /\ Distinct(reports) /\ NotifiedIsReported /\ LoopInv)' /\ IsFiniteSet(found)'
  BY Zenon, <1>2 DEF AInv, Owned, NotifiedIsReported, LoopInv, Tracked
<1> QED BY Zenon, <1>4, <1>5, <1>6 DEF AInv

LEMMA TickEndKeeps ==
  ASSUME AInv, TickEnd
  PROVE  AInv'
<1>1. /\ pending = <<>> /\ pending' = live /\ live' = <<>> /\ pollStep' = "notify"
      /\ UNCHANGED <<tickNow, todo, seen, found, outbox, arrived, retired, lookedAt,
                     reports, alerted>>
  BY Zenon DEF TickEnd
<1>2. Range(pending) = {} /\ Range(live') = {} /\ live' \in Seq(PendingEvent) /\ OneEach(live')
  BY <1>1, SetsOfSequences DEF OneEach
<1>3. AnalysisTypeOK' /\ IsFiniteSet(found)'
  BY Zenon, <1>1, <1>2 DEF AInv, AnalysisTypeOK
<1>4. Owned' /\ NotifiedIsReported'
  BY Zenon, <1>1, <1>2 DEF AInv, Owned, NotifiedIsReported, Tracked
<1>5. Distinct(reports)' /\ Outgoing' /\ LoopInv'
  BY Zenon, <1>1 DEF AInv, Outgoing, LoopInv
<1> QED BY Zenon, <1>3, <1>4, <1>5 DEF AInv

LEMMA AInvStep ==
  ASSUME AInv, CInv, FiniteHistories, [Next]_vars
  PROVE  AInv'
<1>1. CASE CollectorGoesOn
  BY Zenon, <1>1, CollectorKeeps
<1>2. CASE PollLoop /\ UNCHANGED collectorVars
  <2>1. CASE \E ev \in DeployEvent : Register(ev)
    BY Zenon, <2>1, RegisterKeeps
  <2>2. CASE AnalyseStart \/ AnalyseQuery
    BY Zenon, <1>2, <2>2, AnalyseStartKeeps, AnalyseQueryKeeps
  <2>3. CASE AnalyseEnd \/ TickEnd \/ Notify
    BY Zenon, <2>3, AnalyseEndKeeps, TickEndKeeps, NotifyStep
  <2>4. CASE TickStart \/ PollEnd
    <3>1. /\ UNCHANGED <<pending, live, todo, seen, found, outbox, arrived, retired,
                         lookedAt, reports, alerted>>
          /\ pollStep' \in {"tick", "wait"} /\ tickNow' \in {tickNow, now}
      BY Zenon, <2>4 DEF TickStart, PollEnd
    <3>2. AnalysisTypeOK' /\ IsFiniteSet(found)'
      BY Zenon, <3>1 DEF AInv, AnalysisTypeOK, CInv, CollectorTypeOK
    <3>3. LoopInv'
      BY Zenon, <3>1 DEF LoopInv
    <3> QED BY Zenon, <3>1, <3>2, <3>3, SlicesUntouched DEF AInv
  <2> QED BY Zenon, <1>2, <2>1, <2>2, <2>3, <2>4 DEF PollLoop
<1>3. CASE UNCHANGED vars
  <2>1. UNCHANGED <<pending, live, pollStep, tickNow, todo, seen, found, outbox, arrived,
                    retired, undisturbed, lookedAt, reports, alerted>>
    BY Zenon, <1>3 DEF vars, pollVars
  <2>2. UNCHANGED <<samples, queryFingerprint, fingerprintIndex>>
    BY Zenon, <1>3 DEF vars, collectorVars, sampleVars
  <2>3. AnalysisTypeOK' /\ IsFiniteSet(found)'
    BY Zenon, <2>1 DEF AInv, AnalysisTypeOK
  <2>4. \A q : Judged(q) => Judged(q)'
    BY Zenon, <2>1, <2>2, SameReads DEF Judged, LatestSamples
  <2>5. LoopInv'
    BY Zenon, <2>1, <2>2, <2>4 DEF AInv, LoopInv
  <2> QED BY Zenon, <2>1, <2>3, <2>5, SlicesUntouched DEF AInv
<1> QED BY Zenon, <1>1, <1>2, <1>3 DEF Next

LEMMA AInvInit == Init => AInv
<1> SUFFICES ASSUME Init PROVE AInv
  BY Zenon
<1>1. /\ pending = <<>> /\ live = <<>> /\ outbox = <<>> /\ reports = <<>> /\ todo = <<>>
      /\ pollStep = "wait" /\ tickNow = 0 /\ seen = EmptyMap /\ found = {} /\ arrived = {}
      /\ retired = {} /\ alerted = {} /\ lookedAt = [ev \in DeployEvent |-> 0]
  BY Zenon DEF Init
<1>2. AnalysisTypeOK
  <2>1. IsMap(seen, Fingerprint, SUBSET Sample)
    BY Zenon, <1>1 DEF IsMap, EmptyMap
  <2> QED BY <1>1, <2>1 DEF AnalysisTypeOK
<1>3. IsFiniteSet(found) /\ LoopInv
  BY Zenon, <1>1, FS_EmptySet DEF LoopInv
<1>4. Range(<<>>) = {} /\ Distinct(<<>>) /\ OneEach(<<>>)
  BY SetsOfSequences DEF Distinct, OneEach
<1>5. Owned /\ Distinct(reports) /\ NotifiedIsReported /\ Outgoing
  BY Zenon, <1>1, <1>4 DEF Owned, NotifiedIsReported, Outgoing, Tracked
<1> QED BY Zenon, <1>2, <1>3, <1>5 DEF AInv

LEMMA AnalysisInvariance == Spec => []AInv
<1>1. AInv /\ CInv /\ FiniteHistories /\ [Next]_vars => AInv'
  BY Zenon, AInvStep
<1> QED BY <1>1, AInvInit, AnalysisIsCollector, CollectorInvariance, AlwaysFinite, PTL DEF Spec

\* Every variable of the poll loop keeps its type; in particular a result is
\* always filed under a queryid the collector has seen.
THEOREM AnalysisTypeCorrect == Spec => []AnalysisTypeOK
<1>1. AInv => AnalysisTypeOK
  BY Zenon DEF AInv
<1> QED BY <1>1, AnalysisInvariance, PTL

\* Tick returns a (deploy, queryid) pair at most once, over all ticks.
THEOREM NeverReportedTwice == Spec => []ReportedOnce
<1>1. AInv => ReportedOnce
  BY Zenon DEF AInv, ReportedOnce, Distinct
<1> QED BY <1>1, AnalysisInvariance, PTL

\* What an event marks as notified is exactly what was reported for it.
THEOREM DedupMemoryExact == Spec => []NotifiedIsReported
<1>1. AInv => NotifiedIsReported
  BY Zenon DEF AInv
<1> QED BY <1>1, AnalysisInvariance, PTL

\* No alert goes out twice, and none for something Tick did not report.
THEOREM NeverAlertedTwice == Spec => []AlertedOnce
<1>1. AInv => AlertedOnce
  <2> SUFFICES ASSUME AInv PROVE AlertedOnce
    BY Zenon
  <2>1. outbox \in Seq(Result) /\ DOMAIN outbox = 1 .. Len(outbox)
    BY Zenon, LenProperties DEF AInv, AnalysisTypeOK
  <2>2. \A i \in 1 .. Len(outbox) : outbox[i] \in Range(outbox)
    BY Zenon, <2>1 DEF Range
  <2> QED BY Zenon, <2>2 DEF AInv, Outgoing, AlertedOnce
<1> QED BY <1>1, AnalysisInvariance, PTL

\* A look that nothing disturbs judges every query with samples in the window.
THEOREM NoQueryLeftOut == Spec => []EveryQueryJudged
<1>1. AInv => EveryQueryJudged
  BY Zenon, SetsOfSequences DEF AInv, LoopInv, Judged, EveryQueryJudged
<1> QED BY <1>1, AnalysisInvariance, PTL
-----------------------------------------------------------------------------
\* A plan ring: bounded, in the order of capture, nothing from the future.
Ring(h) ==
  /\ h \in Seq(Nat) /\ Len(h) <= PlanHistorySize
  /\ \A i \in 1 .. Len(h) : h[i] <= now
  /\ \A i, j \in 1 .. Len(h) : i <= j => h[i] <= h[j]

PlanInv == \A q \in DOMAIN planHistory : Ring(planHistory[q])

\* appendPlanSnapshot keeps a ring a ring.
LEMMA AppendPlanKeeps ==
  ASSUME now \in Nat, NEW h, Ring(h)
  PROVE  Ring(AppendPlan(h, now))
<1>0. /\ h \in Seq(Nat) /\ Len(h) \in Nat /\ PlanHistorySize \in Nat /\ PlanHistorySize >= 1
      /\ Len(h) <= PlanHistorySize
      /\ \A i \in 1 .. Len(h) : h[i] \in Nat /\ h[i] <= now
      /\ \A i, j \in 1 .. Len(h) : i <= j => h[i] <= h[j]
  BY CollectorAssumption, LenProperties, ElementOfSeq DEF Ring
<1>1. ASSUME NEW g \in Seq(Nat), Len(g) < PlanHistorySize,
             \A i \in 1 .. Len(g) : g[i] \in Nat /\ g[i] <= now,
             \A i, j \in 1 .. Len(g) : i <= j => g[i] <= g[j]
      PROVE  Ring(Append(g, now))
  <2>1. /\ Append(g, now) \in Seq(Nat) /\ Len(Append(g, now)) = Len(g) + 1 /\ Len(g) \in Nat
        /\ \A i \in 1 .. Len(g) : Append(g, now)[i] = g[i]
        /\ Append(g, now)[Len(g) + 1] = now
    OBVIOUS
  <2>2. \A i \in 1 .. Len(g) + 1 : i \in 1 .. Len(g) \/ i = Len(g) + 1
    BY <2>1
  <2>3. Len(g) + 1 <= PlanHistorySize
    BY <1>0, <1>1, <2>1
  <2>4. \A i \in 1 .. Len(g) + 1 : Append(g, now)[i] <= now
    BY <1>1, <2>1, <2>2
  <2>5. ASSUME NEW i \in 1 .. Len(g) + 1, NEW j \in 1 .. Len(g) + 1, i <= j
        PROVE  Append(g, now)[i] <= Append(g, now)[j]
    <3>1. CASE j \in 1 .. Len(g)
      <4>1. i \in 1 .. Len(g)
        BY <2>1, <2>5, <3>1
      <4> QED BY Zenon, <1>1, <2>1, <2>5, <3>1, <4>1
    <3>2. CASE j = Len(g) + 1
      BY Zenon, <2>1, <2>4, <3>2
    <3> QED BY Zenon, <2>2, <3>1, <3>2
  <2> QED BY Zenon, <2>1, <2>3, <2>4, <2>5 DEF Ring
<1>2. CASE Len(h) >= PlanHistorySize
  <2>1. h # <<>>
    BY <1>0, <1>2
  <2>2. /\ Tail(h) \in Seq(Nat) /\ Len(Tail(h)) = Len(h) - 1
        /\ \A i \in 1 .. Len(h) - 1 : Tail(h)[i] = h[i + 1]
    BY <1>0, <2>1
  <2>3. Len(Tail(h)) < PlanHistorySize
    BY <1>0, <2>2
  <2>4. \A i \in 1 .. Len(Tail(h)) : Tail(h)[i] \in Nat /\ Tail(h)[i] <= now
    BY <1>0, <2>2
  <2>5. \A i, j \in 1 .. Len(Tail(h)) : i <= j => Tail(h)[i] <= Tail(h)[j]
    BY <1>0, <2>2
  <2>6. Ring(Append(Tail(h), now))
    BY Zenon, <1>1, <2>2, <2>3, <2>4, <2>5
  <2> QED BY Zenon, <1>2, <2>6 DEF AppendPlan
<1>3. CASE ~ (Len(h) >= PlanHistorySize)
  <2>1. Len(h) < PlanHistorySize
    BY <1>0, <1>3
  <2>2. Ring(Append(h, now))
    BY Zenon, <1>0, <1>1, <2>1
  <2> QED BY Zenon, <1>3, <2>2 DEF AppendPlan
<1> QED BY Zenon, <1>2, <1>3

\* Every step keeps every ring: only CapturePlan edits one, and time only grows.
LEMMA PlanInvStep ==
  ASSUME CInv, PlanInv, [CollectorNext]_collectorVars
  PROVE  PlanInv'
<1>0. now \in Nat
  BY Zenon DEF CInv, CollectorTypeOK
<1>1. ASSUME NEW h, Ring(h), now' \in Nat, now <= now' PROVE Ring(h)'
  <2>1. \A i \in 1 .. Len(h) : h[i] \in Nat
    BY Zenon, <1>1, ElementOfSeq DEF Ring
  <2> QED BY <1>0, <1>1, <2>1 DEF Ring
<1>2. CASE CapturePlan
  <2>1. now' = now
    BY Zenon, <1>2 DEF CapturePlan
  <2>2. CASE UNCHANGED planHistory
    BY <1>0, <1>1, <2>1, <2>2 DEF PlanInv
  <2>3. CASE planHistory' = Put(planHistory, Head(tracked), AppendPlan(Plans(Head(tracked)), now))
    <3>1. PICK q : q = Head(tracked)
      BY Zenon
    <3>2. Ring(<<>>)
      BY CollectorAssumption DEF Ring
    <3>3. Ring(Plans(q))
      BY Zenon, <3>2 DEF Plans, PlanInv
    <3>4. PICK g : g = AppendPlan(Plans(q), now)
      BY Zenon
    <3>5. Ring(g)
      BY Zenon, <1>0, <3>3, <3>4, AppendPlanKeeps
    <3>6. \A p \in DOMAIN planHistory' : Ring(planHistory'[p])
      BY Zenon, <2>3, <3>1, <3>4, <3>5 DEF Put, PlanInv
    <3> QED BY <1>0, <1>1, <2>1, <3>6 DEF PlanInv
  <2> QED BY Zenon, <1>2, <2>2, <2>3 DEF CapturePlan
<1>3. CASE Elapse
  <2>1. planHistory' = planHistory /\ now' \in Nat /\ now <= now'
    BY <1>0, <1>3 DEF Elapse
  <2> QED BY Zenon, <1>1, <2>1 DEF PlanInv
<1>4. CASE /\ ~ CapturePlan /\ ~ Elapse
  <2>1. planHistory' = planHistory /\ now' = now
    BY Zenon, <1>4 DEF CollectorNext, collectorVars, BackfillSample, BackfillEnd, ScrapeQueryFails,
                ScrapeStart, ScrapeRow, ScrapeFail, ScrapeComplete, ScrapePrune, ScrapeEnd, Stop
  <2> QED BY <1>0, <1>1, <2>1 DEF PlanInv
<1> QED BY Zenon, <1>2, <1>3, <1>4

\* The greatest and the least of a bounded set of times.
LEMMA MaxOfTimes ==
  ASSUME NEW S \in SUBSET Nat, S # {}, NEW b \in Nat, \A x \in S : x <= b
  PROVE  Max(S) \in S /\ \A x \in S : x <= Max(S)
<1> DEFINE D == {b - x : x \in S}
<1>1. D \in SUBSET Nat /\ D # {}
  <2>1. \A x \in S : b - x \in Nat
    OBVIOUS
  <2>2. PICK x \in S : TRUE
    BY Zenon
  <2>3. b - x \in D
    BY Zenon, <2>2
  <2>4. \A y \in D : y \in Nat
    BY Zenon, <2>1
  <2> QED BY Zenon, <2>3, <2>4
<1>2. PICK d \in D : \A y \in D : d <= y
  <2> HIDE DEF D
  <2> QED BY Zenon, <1>1, LeastNat
<1>3. PICK m \in S : d = b - m
  BY Zenon
<1>4. \A x \in S : m >= x
  <2> SUFFICES ASSUME NEW x \in S PROVE m >= x
    BY Zenon
  <2>1. b - x \in D
    BY Zenon
  <2>2. b - m <= b - x
    <3>1. d <= b - x
      BY Zenon, <1>2, <2>1
    <3> QED BY Zenon, <1>3, <3>1
  <2> QED BY <2>2
<1>5. Max(S) \in S /\ \A x \in S : Max(S) >= x
  BY Zenon, <1>4 DEF Max
<1> QED BY Zenon, <1>5

LEMMA MinOfTimes ==
  ASSUME NEW S \in SUBSET Nat, S # {}
  PROVE  Min(S) \in S
BY Zenon, LeastNat DEF Min

\* The plan rings stay rings.
LEMMA AlwaysRings == CollectorSpec => []PlanInv
<1>1. CollectorInit => PlanInv
  BY Zenon DEF CollectorInit, EmptyMap, PlanInv
<1>2. CInv /\ PlanInv /\ [CollectorNext]_collectorVars => PlanInv'
  BY Zenon, PlanInvStep
<1> QED BY <1>1, <1>2, CollectorInvariance, PTL DEF CollectorSpec

\* The rings never outgrow their bound, and the plans PlansAround picks for a
\* change bracket it.
THEOREM PlansAlwaysBracket == CollectorSpec => []PlansBracket
<1>1. CInv /\ PlanInv => PlansBracket
  <2> SUFFICES ASSUME CInv, PlanInv, NEW q \in QueryID
               PROVE  /\ Len(Plans(q)) <= PlanHistorySize
                      /\ \A i, j \in 1 .. Len(Plans(q)) : i <= j => Plans(q)[i] <= Plans(q)[j]
                      /\ \A t \in 0 .. MaxTime :
                           LET p == PlansAround(q, t)
                           IN  /\ p.before <= t /\ p.before <= p.after
                               /\ Plans(q) # <<>> => p.after >= Plans(q)[Len(Plans(q))] \/ p.after > t
    BY Zenon DEF PlansBracket
  <2>0. now \in Nat
    BY Zenon DEF CInv, CollectorTypeOK
  <2>1. Ring(Plans(q))
    <3>1. Ring(<<>>)
      BY CollectorAssumption DEF Ring
    <3> QED BY Zenon, <3>1 DEF Plans, PlanInv
  <2>2. PICK h \in Seq(Nat) : h = Plans(q)
    BY Zenon, <2>1 DEF Ring
  <2>3. /\ Len(h) \in Nat /\ Len(h) <= PlanHistorySize /\ DOMAIN h = 1 .. Len(h)
        /\ \A i \in 1 .. Len(h) : h[i] \in Nat /\ h[i] <= now
        /\ \A i, j \in 1 .. Len(h) : i <= j => h[i] <= h[j]
    BY <2>1, <2>2, ElementOfSeq DEF Ring
  <2>4. ASSUME NEW t \in 0 .. MaxTime
        PROVE  /\ PlansAround(q, t).before <= t
               /\ PlansAround(q, t).before <= PlansAround(q, t).after
               /\ h # <<>> => \/ PlansAround(q, t).after >= h[Len(h)]
                              \/ PlansAround(q, t).after > t
    <3> DEFINE times == Range(h)
               upTo == {x \in times : x <= t}
               later == times \ upTo
               before == IF upTo = {} THEN 0 ELSE Max(upTo)
               after == IF later # {} THEN Min(later) ELSE IF times # {} THEN Max(times) ELSE 0
    <3>1. PlansAround(q, t) = [before |-> before, after |-> after]
      BY Zenon, <2>2 DEF PlansAround
    <3>2. PlansAround(q, t).before = before /\ PlansAround(q, t).after = after
      BY <3>1
    <3>3. t \in Nat
      BY CollectorAssumption
    <3>4. times \in SUBSET Nat /\ \A x \in times : x <= now
      BY Zenon, <2>3 DEF Range
    <3>5. upTo \in SUBSET Nat /\ (\A x \in upTo : x <= t) /\ later \in SUBSET Nat
      BY Zenon, <3>4
    <3>6. \A x \in later : x > t
      BY <3>3, <3>4
    <3>7. before \in Nat /\ before <= t /\ (upTo # {} => before = Max(upTo))
      <4>1. CASE upTo = {}
        BY <3>3, <4>1
      <4>2. CASE upTo # {}
        <5> HIDE DEF upTo, later
        <5>1. Max(upTo) \in upTo
          BY Zenon, <3>3, <3>5, <4>2, MaxOfTimes
        <5> QED BY Zenon, <3>5, <4>2, <5>1
      <4> QED BY Zenon, <4>1, <4>2
    <3>8. CASE later # {}
      <4> HIDE DEF upTo, later
      <4>1. after \in later
        BY Zenon, <3>5, <3>8, MinOfTimes
      <4>2. after > t /\ after \in Nat
        BY Zenon, <3>5, <3>6, <4>1
      <4> HIDE DEF before, after
      <4> QED BY <3>2, <3>3, <3>7, <4>2
    <3>9. CASE later = {} /\ times # {}
      <4>1. upTo = times
        BY Zenon, <3>9
      <4>2. after = Max(times) /\ before = Max(times)
        BY Zenon, <3>9, <4>1
      <4>3. Max(times) \in Nat /\ \A x \in times : x <= Max(times)
        <5> HIDE DEF times
        <5> QED BY Zenon, <2>0, <3>4, <3>9, MaxOfTimes
      <4>4. ASSUME h # <<>> PROVE h[Len(h)] \in times
        <5>1. Len(h) \in 1 .. Len(h)
          BY <2>3, <4>4
        <5> QED BY Zenon, <2>3, <5>1 DEF Range
      <4> HIDE DEF before, after, times
      <4>5. before <= after
        BY <4>2, <4>3
      <4>6. ASSUME h # <<>> PROVE after >= h[Len(h)]
        <5>1. h[Len(h)] \in Nat /\ h[Len(h)] <= Max(times)
          BY Zenon, <3>4, <4>3, <4>4, <4>6
        <5> QED BY Zenon, <4>2, <4>3, <5>1
      <4> QED BY Zenon, <3>2, <3>7, <4>5, <4>6
    <3>10. CASE times = {}
      <4>1. h = <<>>
        <5>1. ASSUME h # <<>> PROVE FALSE
          <6>1. 1 \in DOMAIN h
            BY <2>3, <5>1
          <6> QED BY Zenon, <3>10, <6>1 DEF Range
        <5> QED BY Zenon, <5>1
      <4>2. before = 0 /\ after = 0
        BY Zenon, <3>10
      <4> HIDE DEF before, after
      <4> QED BY <3>2, <3>7, <4>1, <4>2
    <3> QED BY Zenon, <3>8, <3>9, <3>10
  <2> QED BY Zenon, <2>2, <2>3, <2>4
<1> QED BY <1>1, CollectorInvariance, AlwaysRings, PTL
-----------------------------------------------------------------------------
(***************************************************************************)
(* PlanCapture: the plan pass with its sources is still the Collector's,   *)
(* every snapshot is of the query it is filed under, and a pass is cut     *)
(* short only below PostgreSQL 16.                                         *)
(***************************************************************************)
\* A plan node is an object without a "Plan" key.
LEMMA NodeFacts ==
  ASSUME NEW p
  PROVE  /\ PlanNode(p).kind = "object"
         /\ DOMAIN PlanNode(p).keys = {"Node Type"}
         /\ PlanNode(p).keys["Node Type"] = p
         /\ RootNode(PlanNode(p)) = PlanNode(p)
         /\ UnderPlanKey(PlanNode(p)).kind = "object"
         /\ RootNode(UnderPlanKey(PlanNode(p))) = PlanNode(p)
<1>1. /\ PlanNode(p).kind = "object" /\ DOMAIN PlanNode(p).keys = {"Node Type"}
      /\ PlanNode(p).keys["Node Type"] = p
  BY DEF PlanNode, Object
<1>2. RootNode(PlanNode(p)) = PlanNode(p)
  BY <1>1 DEF RootNode
<1>3. PICK o : o = PlanNode(p)
  OBVIOUS
<1>4. UnderPlanKey(o).kind = "object" /\ RootNode(UnderPlanKey(o)) = o
  BY DEF UnderPlanKey, Object, RootNode
<1> QED BY <1>1, <1>2, <1>3, <1>4

\* Whatever its wrapping, a document around the node of p parses to p or not at
\* all (parsePlanJSON).
LEMMA ParseExplain ==
  ASSUME NEW p, NEW d \in ExplainDocs(p)
  PROVE  ParsePlanJSON(d) \subseteq {p}
<1>1. CASE d = Array(<<UnderPlanKey(PlanNode(p))>>)
  <2>1. PICK o : o = UnderPlanKey(PlanNode(p))
    OBVIOUS
  <2>2. TopLevel(Array(<<o>>)) = o
    BY DEF TopLevel, Array
  <2> QED BY <1>1, <2>1, <2>2, NodeFacts DEF ParsePlanJSON
<1>2. CASE d = Array(<<>>)
  <2>1. TopLevel(d) = d /\ d.kind # "object"
    BY <1>2 DEF TopLevel, Array
  <2> QED BY <2>1 DEF ParsePlanJSON
<1>3. CASE d = Array(<<Object(<<>>)>>)
  <2>1. PICK o : o = Object(<<>>)
    OBVIOUS
  <2>2. TopLevel(Array(<<o>>)) = o
    BY DEF TopLevel, Array
  <2>3. DOMAIN o.keys = {}
    BY <2>1 DEF Object
  <2> QED BY <1>3, <2>1, <2>2, <2>3 DEF ParsePlanJSON, RootNode
<1> QED BY <1>1, <1>2, <1>3 DEF ExplainDocs

LEMMA ParseStorePlans ==
  ASSUME NEW p, NEW d \in StorePlansDocs(p)
  PROVE  ParsePlanJSON(d) \subseteq {p}
<1>1. CASE d = PlanNode(p)
  <2>1. TopLevel(d) = d
    BY <1>1, NodeFacts DEF TopLevel
  <2> QED BY <1>1, <2>1, NodeFacts DEF ParsePlanJSON
<1>2. CASE d = UnderPlanKey(PlanNode(p))
  <2>1. TopLevel(d) = d
    BY <1>2, NodeFacts DEF TopLevel
  <2> QED BY <1>2, <2>1, NodeFacts DEF ParsePlanJSON
<1>3. CASE d = [kind |-> "junk"]
  <2>1. TopLevel(d) = d /\ d.kind # "object"
    BY <1>3 DEF TopLevel
  <2> QED BY <2>1 DEF ParsePlanJSON
<1> QED BY <1>1, <1>2, <1>3 DEF StorePlansDocs

\* What documents that parse to q or not at all give: failures, and snapshots of
\* q's own plan.
LEMMA OwnSnapshots ==
  ASSUME NEW q, NEW docs, \A d \in docs : ParsePlanJSON(d) \subseteq {q},
         NEW r \in Snapshots(q, docs)
  PROVE  r = Failed \/ r = [query |-> q, root |-> q]
<1>1. PICK d \in docs :
        r \in IF ParsePlanJSON(d) = {} THEN {Failed}
             ELSE {[query |-> q, root |-> x] : x \in ParsePlanJSON(d)}
  BY DEF Snapshots
<1> QED BY <1>1

\* pg_store_plans is asked only where it files plans under pg_stat_statements'
\* queryids (detectStorePlans, and what upstream promises of such servers).
LEMMA ReliableIsShared ==
  ASSUME NEW s \in Server, "reliable" \in DetectStorePlans(s)
  PROVE  s.sameIDs = TRUE
<1>1. s.computeQueryID # "off" /\ ~(s.major < 14) /\ ExtVersionAtLeast(s.ext, 1, 6)
  BY DEF DetectStorePlans
<1>2. s.ext \in Seq(Nat) /\ s.sameIDs \in BOOLEAN
  BY PlanCaptureAssumption
<1>3. Len(s.ext) >= 2 /\ s.ext[1] \in Nat /\ s.ext[2] \in Nat
  BY <1>1, <1>2 DEF ExtVersionAtLeast
<1>4. ~(Len(s.ext) < 2) /\ ~(s.ext[1] < 1) /\ ~(s.ext[1] = 1 /\ s.ext[2] < 6)
  BY <1>1, <1>2, <1>3 DEF ExtVersionAtLeast
<1> QED BY <1>1, <1>2, <1>4, PlanCaptureAssumption

\* CapturePlan fails, finds the server too old, or returns q's own plan.
LEMMA CaptureResults ==
  ASSUME NEW s \in Server, NEW q, NEW r \in CapturePlanResults(s, q)
  PROVE  \/ r = Failed
         \/ r = Unsupported /\ s.major < 16
         \/ r = [query |-> q, root |-> q]
<1>1. CASE r \in CapturePlanFromStorePlans(s, q) /\ r # Failed
  <2>1. "reliable" \in DetectStorePlans(s) /\ r \in Snapshots(q, StorePlansRows(s, q))
    BY <1>1 DEF CapturePlanFromStorePlans
  <2>2. StorePlansRows(s, q) = StorePlansDocs(q)
    BY Zenon, <2>1, ReliableIsShared DEF StorePlansRows
  <2>3. \A d \in StorePlansRows(s, q) : ParsePlanJSON(d) \subseteq {q}
    BY <2>2, ParseStorePlans
  <2> QED BY <2>1, <2>3, OwnSnapshots
<1>2. CASE r \in CaptureGenericPlan(s, q)
  <2>1. \A d \in ExplainDocs(q) : ParsePlanJSON(d) \subseteq {q}
    BY ParseExplain
  <2>2. CASE s.major < 16
    BY <1>2, <2>2 DEF CaptureGenericPlan
  <2>3. CASE ~(s.major < 16)
    <3>1. r = Failed \/ r \in Snapshots(q, ExplainDocs(q))
      BY <1>2, <2>3 DEF CaptureGenericPlan
    <3> QED BY <2>1, <3>1, OwnSnapshots
  <2> QED BY <2>2, <2>3
<1> QED BY <1>1, <1>2 DEF CapturePlanResults
-----------------------------------------------------------------------------
\* The plan pass with its sources implements the Collector: what is proved of
\* CollectorSpec holds of it.
THEOREM PlanCaptureIsCollector == PlanCaptureSpec => CollectorSpec
<1>1. PlanCaptureInit => CollectorInit
  BY DEF PlanCaptureInit
<1>2. [PlanCaptureNext]_planCaptureVars => [CollectorNext]_collectorVars
  <2>1. CaptureQuery => CollectorNext
    BY DEF CaptureQuery, CollectorNext
  <2>2. PlanCaptureNext => CollectorNext
    BY <2>1 DEF PlanCaptureNext, CollectorNext
  <2>3. UNCHANGED planCaptureVars => UNCHANGED collectorVars
    BY DEF planCaptureVars
  <2> QED BY <2>2, <2>3
<1> QED BY <1>1, <1>2, PTL DEF PlanCaptureSpec, CollectorSpec

LEMMA CaptureStep ==
  ASSUME CaptureQuery
  PROVE  PlanIsOwn' /\ PassIsComplete'
<1>1. PICK s \in Server : \E r \in CapturePlanResults(s, Head(tracked)) :
        capture' = [major |-> s.major, result |-> r,
                    unasked |-> IF EndsPass(r) THEN Range(Tail(tracked)) ELSE {}]
  BY Zenon DEF CaptureQuery
<1>2. PICK r \in CapturePlanResults(s, Head(tracked)) :
        capture' = [major |-> s.major, result |-> r,
                    unasked |-> IF EndsPass(r) THEN Range(Tail(tracked)) ELSE {}]
  BY Zenon, <1>1
<1>3. PICK q : q = Head(tracked)
  OBVIOUS
<1>4. /\ capture'.major = s.major /\ capture'.result = r
      /\ ~EndsPass(r) => capture'.unasked = {}
  BY <1>2
<1>5. CASE r = Failed
  <2>1. "root" \notin DOMAIN r /\ ~EndsPass(r)
    BY <1>5 DEF Failed, Unsupported, EndsPass
  <2> QED BY <1>4, <2>1 DEF PlanIsOwn, PassIsComplete
<1>6. CASE r = Unsupported /\ s.major < 16
  <2>1. "root" \notin DOMAIN r
    BY <1>6 DEF Unsupported
  <2> QED BY <1>4, <1>6, <2>1 DEF PlanIsOwn, PassIsComplete
<1>7. CASE r = [query |-> q, root |-> q]
  <2>1. r.root = r.query /\ ~EndsPass(r)
    BY <1>7 DEF EndsPass, Unsupported
  <2> QED BY <1>4, <2>1 DEF PlanIsOwn, PassIsComplete
<1> QED BY <1>3, <1>5, <1>6, <1>7, CaptureResults

\* Both properties of a capture, of any step and so of every behaviour.
LEMMA CapturesAreSound == PlanCaptureSpec => [](PlanIsOwn /\ PassIsComplete)
<1>1. PlanCaptureInit => PlanIsOwn /\ PassIsComplete
  BY DEF PlanCaptureInit, PlanIsOwn, PassIsComplete
<1>2. PlanIsOwn /\ PassIsComplete /\ [PlanCaptureNext]_planCaptureVars
        => PlanIsOwn' /\ PassIsComplete'
  <2>1. CASE CaptureQuery
    BY <2>1, CaptureStep
  <2>2. CASE capture' = None
    BY <2>2 DEF PlanIsOwn, PassIsComplete
  <2>3. CASE UNCHANGED planCaptureVars
    BY <2>3 DEF PlanIsOwn, PassIsComplete, planCaptureVars
  <2> QED BY <2>1, <2>2, <2>3 DEF PlanCaptureNext
<1> QED BY <1>1, <1>2, PTL DEF PlanCaptureSpec

\* Every snapshot is of the query it is filed under, for every set of servers
\* that keeps upstream's promise (storeplans.go:118-179, 281-293).
THEOREM PlansAreOwn == PlanCaptureSpec => []PlanIsOwn
BY CapturesAreSound, PTL

\* A pass gives queries up only below PostgreSQL 16, whatever fails before
\* (collector.go:597-613).
THEOREM PassesAreComplete == PlanCaptureSpec => []PassIsComplete
BY CapturesAreSound, PTL
===============================================================================
