# Verification of pg-regression-radar

TLA+ models of pg-regression-radar, checked with TLC on small instances and, for
the invariants that carry most weight, proved with TLAPS for every value of the
constants. Paths below are relative to the repository root.

## The system

pg-regression-radar scrapes `pg_stat_statements`, learns of deploys from webhooks
or from the Kubernetes API, and reports queries whose latency got worse at a
deploy.

| Part | State | Operations that change it |
|---|---|---|
| Collector (`internal/collector`) | samples per queryid, two fingerprint maps, plan ring, last scrape time, detected column names | Backfill, scrape (one critical section per row), prune, plan capture |
| Ingester (`internal/ingester`) | event log, time-sorted index, ID set | webhook (parse and Add), Backfill, DrainSince (reads) |
| PendingSet (`internal/correlation/pending.go`) | events under analysis with deadline and notified queryids | Add, Tick |
| Engine (`internal/correlation/engine.go`) | none of its own; reads the live collector | Analyse, AnalysePeriodic |
| PeriodicTracker (`internal/correlation/periodic.go`) | queryids in regression | Tick |
| Durable tables (`internal/storage`) | events by ID, samples | upsert, append, prune, range reads at startup |
| Operator (`internal/cli/operator.go`) | cursor, sample-mirror position | poll loop, periodic loop, sample mirror, startup |
| Alerting (`internal/alerting`) | none | Notify |
| Planner (`internal/planner`) | none; asks the server for a query's plan | CapturePlan |
| PostgresWatch controller (`internal/controller`) | workers and their registry, client cache, statuses | Reconcile, each worker's two loops, auto-abort, recording a regression |
| DeploySource controller and mux | webhook routes, statuses | Reconcile |
| Workload watch controller | last revision reported per source | Reconcile |

How they interact: webhook handlers add events to the Store while the poll loop
drains it by a cursor. The poll loop writes each event to the durable table,
registers it with the PendingSet and calls Tick, which re-runs Analyse on every
pending event until its window is over. Analyse reads the collector's history
one queryid at a time, with no lock held in between, while the scrape loop
writes it one row at a time. After a crash only the durable tables are left; the
next process backfills Store and Collector from them and moves its cursor past
the backfilled events.

The manager is the other program built from these parts. Its three reconcilers
each handle one request at a time and meet in the registry: the first starts and
stops workers (a collector, a Store and two loops each), the second points
webhook routes at a worker's Store, the third puts completed rollouts into it. A
worker that finds a regression may abort the rollout, then alerts, then records
an object. Users edit specs and Secrets at any point of all this.

The hard parts are therefore: hand-over between unsynchronised loops, deadlines
judged by a clock read earlier, partial scrapes seen by readers, redelivery and
reordering of webhooks, crashes between two writes, map bookkeeping that must
survive pruning, rewriting and backfilling, and references to a worker that has
been replaced. `PROJECT.json` lists each such hazard at its line with the
properties that guard it.

## Modules

| Module | Models | Notes |
|---|---|---|
| `TimeSeq` | `sort.Search` by time, sort by time, range filter, queryids in order | operators shared by Store and Collector; loops are recursive functions, so that they can be reasoned about |
| `DeployStore` | `ingester.Store` | one operator per method; each runs under the mutex |
| `DeployLoop` | webhook handler, poll loop, durable events, prune loop, crash and restart | composes `DeployStore`; what an analysis finds is left out |
| `EventQueue` | abstract specification: a queue without duplicates | `DeployLoop` implements it |
| `Collector` | `collector.Collector` | one step per critical section, so every intermediate state a reader can see is a state of the model |
| `PlanCapture` | `internal/planner` under the collector's plan pass | extends `Collector`, replacing its capture step by the choice between pg_store_plans and GENERIC_PLAN |
| `DeployAnalysis` | PendingSet.Tick, Analyse/analyseWindow, Notify | extends `Collector`; the two goroutines interleave freely |
| `SampleMirror` | the operator's mirror goroutine, the `query_samples` table, its prune loop, restart with backfill | extends `Collector`; the table is the sequence of its inserts, as rows have no key |
| `EnergySearch` | EDivisive, bestChangePoint | pure operators on exact fractions, with reference definitions |
| `ChangePoint` | Welch's test, computeChangeStats | pure operators on exact fractions, over `EnergySearch` |
| `Periodic` | AnalysePeriodic, PeriodicTracker.Tick, the Prometheus source | extends `ChangePoint` |
| `WatchConfig` | DSN resolution, Secret consent, BuildNotifier, what startWatch refuses | pure operators on a spec |
| `WatchController` | PostgresWatchReconciler, registry, remote client cache, worker loops, auto-abort | extends `WatchConfig` |
| `Manager` | DeploySource and workload watch reconcilers, routes, the process | extends `WatchController`: the composition |
| `MCDeployLoop`, `MCCollector`, `MCDeployAnalysis`, `MCSampleMirror`, `MCPeriodic`, `MCManager` | | constants for TLC |
| `TimeSeqProofs`, `DeployLoopProofs`, `CollectorProofs`, `DeployAnalysisProofs`, `MirrorProofs`, `EnergySearchProofs`, `PeriodicProofs`, `ManagerProofs` | | theorems |

Abstractions of data. Time is a natural number. A payload is a record of its
source type, the deploy it announces, its own ID and timestamp if it has them,
and whether the handler takes it. `UnixNano` is a counter of requests, so never
the same twice. A query text is a model value with a fingerprint given by a
function constant; two texts may share one. A Go map is a function whose domain
is the set of keys. In `DeployAnalysis` the outcome of the statistics is the
operator constant `Regressed(event, before, after)`: its properties are about
which queries are evaluated, when, and what happens to the answers; the
statistics themselves are `ChangePoint`. The order of equal timestamps in a
merged history depends on map iteration and an unstable sort in Go:
`LatestSamples` lets any of them be the latest one.

In `EnergySearch` and `ChangePoint` the code's floats are exact fractions.
The tail of the t distribution has no closed form there: a t beyond the critical value of the
smallest possible degrees of freedom is significant, one below that of the
largest is not, and between the two both answers are possible. In `Periodic` a
Prometheus source may carry no query text (`unlabelled`); then no two queryids share a
fingerprint and each is evaluated on its own.

In `WatchController` and `Manager` a Reconcile is one step up to its decision and
one step per later change of shared state; stopping a worker and deleting it from
the registry is one step, and so is starting one and entering it, as no other actor
writes the registry and a worker in between looks to a reader like one just before or
just after. `RequeueAfter` and a retry after an
error both put the request back into `queue`; delays are left out. Edits of specs
and Secrets, failing API calls, rollouts and restarts of the process are
disturbances of a kind; `allowed` is the group of kinds a behaviour may see and
how many of them, chosen at the start and bounding nothing else. Numbered
`Runtime`s stand for workers, so that a reference to a stopped worker stays
visible. What a worker's analysis finds is an event of the environment.

In `PlanCapture` a plan is the type of its root node, standing for the query it
belongs to; a function that reads the server returns the set of its possible
results, failure included.

History variables record what no single state shows: which events were
registered, handled or skipped (`DeployLoop`), what was reported and alerted and
when each event was last looked at, and whether a sample came or went since the
current look began (`DeployAnalysis`), what was observed (`SampleMirror`), what was
aborted, alerted, owed and reported (`Manager`). No guard reads one, except that `arrived` lets each event into `DeployAnalysis` once: the
hand-over is what `DeployLoop` shows.

## Runs

| Run | Instance | Distinct states |
|---|---|---|
| `deploy_loop` | 3 payloads (one rejected), 3 deliveries, clock to 4, window 1, restart looks back 2, table keeps 3 | 124,053 |
| `collector` | 2 queryids, 3 texts (one EXPLAIN, two fingerprints), 2 rows per scrape, 1 backfilled row, retention 1, clock to 3, ring of 2 plans, 6 servers of majors 13 to 16 | 254,177 |
| `deploy_analysis` | 2 deploys, 2 queryids of one fingerprint, 2 latencies, 1 row per scrape, window 1, clock to 5 | 778,368 |
| `sample_mirror` | 2 queryids of one text, 2 rows per scrape, 1 backfilled row, retention 1 in memory and in the table, clock from 2 to 5, 1 restart, pre-13 server | 817,820 |
| `periodic` | windows of 7 slots with 2 latencies and gaps, the collector and Prometheus with and without query texts, threshold 20 %, 3 executions, tolerance 1 | 92,498 |
| `manager` | 2 watches, 2 sources, 7 specs, 2 revisions, up to 5 workers, 6 groups of disturbances | 146,640 |

Why the bounds suffice for the interesting cases:

- `deploy_loop`: three deliveries are enough for a repeated ID, a timestamp out
  of order and an arrival during a drain. The clock outlives a window, the
  look-back and the table's retention, so events are retired, skipped as too old
  and pruned. Crashes are unbounded. A request is only admitted while its
  deadline can still be reached before the clock stops.
- `collector`: two queryids with two fingerprints collide, separate and change
  fingerprint. Retention 1 lets histories age out in part and entirely. There is
  a server for each way the choice of the plan source can go: extension absent,
  too old, or recent; queryids computed or not; GENERIC_PLAN known or not.
- `deploy_analysis`: two deploys with overlapping windows are in one tick; rows
  land between any two reads; histories reach the fallback threshold of 2.
  `collector` is where a changing fingerprint is checked.
- `sample_mirror`: two queryids of one text are what makes a range read answer
  with a sibling's samples. The clock leaves room for two ticks of the mirror, for
  one on either side of a restart, and for rows to age out of the table. The pre-13
  server makes the wrong guess of the column names visible.
- `periodic`: seven slots hold two segments of the minimum length with a gap, so a
  step is seen entering, crossing and leaving the window; two latencies suffice
  for one step, and every series over them is checked.
- `manager`: each group starts from the states its question needs and allows the
  disturbances that bear on it, two or three in any order and at any point:
  `Config` (specs, both Secrets, client eviction, restart, API failures),
  `Routing` (watch and source edited, created in either order), `Aborting`
  (webhook, regression, failing abort, edits and a restart in the middle),
  `Rollouts` (two sources, one naming a watch that comes later), `Rollback`
  (a StatefulSet that completes, is deleted or rolled back), `Replacing` (its
  watch's worker is replaced or stopped around a rollout). Every pair of actors
  meets in some group; all of them in one state space would be out of
  reach.

Deadlock is checked in `deploy_loop` and `periodic`. In the others it is not: the
scrape loop may be stopped and the clock bound ends the instance, and a manager
with nothing to reconcile is at rest.

What they check:

- `deploy_loop`: the store's three structures agree (`StoreAgrees`); range reads
  equal a scan (`RangeQueryExact`); each event is handed over once and in order
  (`HandedOverInOrder`); restarts and redeliveries replay nothing (`NoReplay`);
  no event is dropped before its deadline (`RegisteredIsTracked`); what is under
  analysis is durable (`PendingIsDurable`); each accepted event is seen out
  unless the process dies (`AcceptedIsSeenOut`, liveness); the whole implements
  `EventQueue` (`ImplementsQueue`).
- `collector`: the maps agree (`IndexConsistent`), histories are sorted and never
  empty (`HistoriesOrdered`), a queryid is filed under its newest fingerprint
  (`FingerprintCurrent`), pruning takes what is too old and nothing else
  (`RetentionHolds`, `OnlyAgedOutGoes`), `SamplesInRange` answers with
  the samples of the range, each as often as it is stored (`MergeIsExact`), the plan ring brackets every change point (`PlansBracket`), a
  plan is filed under its own query whichever source it came from (`PlanIsOwn`),
  and one query's failure costs no other its snapshot, except on a server without
  GENERIC_PLAN (`PassIsComplete`).
- `deploy_analysis`: a final look after the window (`RetiredAfterFinalLook`), one
  report per deploy and queryid (`ReportedOnce`), nothing swallowed
  (`NotifiedIsReported`), no second alert (`AlertedOnce`), no query left out
  (`EveryQueryJudged`).
- `sample_mirror`: what is in the table or restored from it was observed, under
  the queryid it was observed for (`HistoryIsObserved`); an observation is copied
  at most once per queryid that can answer with it (`CopiesAreBounded`); what the
  mirror's windows have passed is in the table, unless an insert failed or the
  row was stored after its tick began (`MirrorComplete`).
- `periodic`: the incremental search equals the definition of the energy
  statistic, cuts a series that is one step at the step, and cuts no segment too
  short (`ChangePointsExact`); a clean step with the code's own minimum of samples on
  either side is dated to its first slow sample and blamed on a deploy exactly within
  the tolerance (`StepIsLocated`); one lasting step is reported once while the window
  slides over it (`OneReportPerStep`).
- `manager`: one worker per watch, and no worker the registry does not know
  (`LiveIsRegistered`); alerts and objects say of an abort what happened
  (`AbortIsTold`); no route outlives its source (`NoOrphanRoute`); no rollout is
  reported that did not complete, nor more often than it did
  (`ReportsMatchRollouts`). Liveness: every configuration is applied or refused
  and said to be, once its DSN resolves (`ConfigIsApplied`), every source is served
  (`SourceIsServed`), the first rollout of a revision is delivered to each matching
  source (`FirstRolloutIsReported`).

Six further runs show where a comment and the code disagree:

- `backfilled_is_handled`: the operator's comment calls the events it skips after
  a restart "already-handled"; one whose window was still open when the process
  died was not, and nothing analyses it again.
- `one_row_per_deploy`: the event store's comment says retried deliveries do not
  create duplicate rows; a Flux alert gets a new ID from the clock each time.
- `skipped_is_identical`: the engine's comment says a skipped queryid has the
  identical merged sample set; samples are only merged when the queryid's own
  are few, so the sets differ when they are not.
- `no_late_sample`: PendingSet's comment says no further real sample can arrive
  after the deadline; a scrape in flight at the deadline stores one later.
- `route_feeds_watch`: a Ready DeploySource is documented as accepting deploy
  events; after its watch's worker was replaced, its route still feeds the old
  worker's Store, which nobody drains.
- `rollout_is_reported`: a recreated workload is said to be treated as a fresh
  rollout; its event has the ID of the one before, so a Store that holds that one
  drops it, and the revision counts as reported all the same. A StatefulSet rolled
  back to an earlier revision takes the same path. When the deletion and the creation
  are handled by one Reconcile, no event is made at all.

## Fairness

`deploy_loop`. `WF(PollLoop)`: the loop is a goroutine of its own on a ticker, and
none of its steps waits for another actor of the model; a database call that
never returns is outside it. `WF(Elapse)`: time passes. Nothing is assumed of
senders, of the prune loop, or of a crashed process being restarted.

`manager`. Strong fairness of `ReconcileWatch(w)` and `ReconcileSource(s)` for each
object: controller-runtime's work queue hands out requests in order, so a queued
one is served although requests of other objects make the reconciler busy again
and again, and a Reconcile that finds its watch running is queued again by the
refresh interval. Weak fairness of the later steps of a Reconcile and of the
workload reconciler: nothing but the reconciler itself moves it on. Users,
Secrets, sweeps of the client cache, workers' ticks and the rollout itself owe
nothing. Disturbances are finitely many, so each liveness property says what
holds once they have ceased.

The other runs check safety only.

## Proofs

The proofs assume of the constants only what the named `ASSUME`s of the modules
state: natural numbers, texts mapped to fingerprints, the empty tuple not a
webhook's ID, no webhook with the ID of a rollout (those begin with `k8s-`;
`SendersAssumption`), and for `PlanCapture` what upstream documents of a server
(from version 1.6 on, and on a server from 14 on that computes queryids,
pg_store_plans files plans under pg_stat_statements' own). For `SampleMirror` the
queryids are finitely many and the table keeps rows at least as long as memory
does. Latencies are naturals in `Periodic`. The bounds, those on disturbances
included, are arbitrary naturals.

`TimeSeqProofs` holds what the others build on. The binary search of a sorted
sequence returns the position that splits it, and an insertion there keeps it
sorted and adds exactly one element. A loop of the code is a recursive function
over `0 .. Len(s)`; that such a function exists and computes what its body says is
`LoopExists`, proved once from the least counterexample (`InductionUpTo`). From it:
`Only` selects exactly the elements at the given positions, each as often as it is
there (`OnlyExact`), so `FilterRange` returns exactly the records in the range
(`FilterRangeExact`); the insertion sort that stands for `sort.Slice` returns its
input in order and leaves a sorted slice alone (`SortByTimeExact`); and `Ascending`
lists a finite set without repetition (`AscendingExact`). How often an element
occurs in a sequence is counted by `Occurrences`, and the lemmas on it say what an
append, a concatenation, an insertion and a selection do to the count.

`DeployLoopProofs`. The invariant `Inv` is `TypeOK`, `LoopControl` (the batch
is non-empty exactly while its events are persisted and registered, and nothing
is drained or registered before the start is complete), `StoreAgrees` and
`HandedOverInOrder`. `LoopControl` is what makes it inductive: without it a drain
could overwrite a batch not yet handed over. `HandedOverInOrder` is kept because a
webhook only appends, a drain moves the cursor and the batch together, and a
registration moves the head of the batch. `NoReplay` then follows: what is
registered lies in the log after the initial cursor, what was backfilled lies
before it, and IDs in the log are unique.

`RegisteredIsTracked` and `PendingIsDurable` rest on `RetryInv`: whatever is tracked
was registered and has its own deadline, and the event about to be registered is
already in the table. The upsert of an event cannot replace the row of a tracked
one because, by `Inv`, their IDs differ; an event is retired by a clock reading
that, by `LoopControl`, is not ahead of the clock.

`RangeQueryExact` holds in every state with `StoreAgrees`: the index is a
permutation of the log, so its two binary searches cut out exactly the events of
the range, and counting them in the index or in the log gives the same number.

`ImplementsQueue` is the refinement. What waits in a running process is the batch
followed by the log after the cursor. A webhook appends to it (`Accept`) or brings
a known ID; a drain moves events from the log to the batch and is a stutter; a
registration takes the head (`HandOver`); a row of the backfill is only learnt of,
before the queue opens (`Learn`); a crash empties it (`Lose`). `Inv` is needed in
each step: a drain is a stutter because the batch is empty when one happens, a
registration takes the head because the batch is not, and the queue opens empty
because the initial cursor is at the end of the log.

`CollectorProofs`. The invariant `CInv` is `CollectorTypeOK`, `DataInv` (the three
maps agree, histories are sorted and the fingerprint is the newest sample's),
`LoadOrder` (backfilled rows still to come are not older than those loaded),
`ClockOrder` (no sample is newer than the current scrape's clock, which is not
ahead of the wall clock) and `RetentionHolds`. `ClockOrder` and `LoadOrder` are
what makes sortedness inductive: a row is appended at the end of its history
because nothing there is newer. The four invariants and the action property `OnlyAgedOutGoes`
are theorems.

The last part of the module is about what readers get in any state of the collector.
`MergeIsExact`: a position of a history is read at most once, because the
histories of two queryids have no position in common; the index names exactly the
siblings, by `DataInv`; so the merged sequence is as long as the set of positions
in the range and has their samples, each as often as it is stored, and sorting it
changes neither.

`DeployAnalysisProofs`. `RetiredAfterFinalLook` from `LookInv`: Tick's clock is not
ahead of the wall clock, the analysis of the event at the head of the list began
no earlier than Tick's clock, and each entry holds its event's own deadline. It
holds for any statistics, the constant `Regressed` being arbitrary, and so do the
next four.

`ReportedOnce`, `NotifiedIsReported`, `AlertedOnce` and `EveryQueryJudged` come from
`AInv` on top of `CInv`. `NotifiedIsReported` is the core: the dedup memory of an
entry is exactly what was reported for its event, so filtering the findings by it
leaves results no report has. That needs `Owned` (an event has one entry, in
`pending` or in `live`), since a second entry would start with an empty memory, and
that a list sorted by queryid repeats none (`AscendingExact`). `AlertedOnce` adds
`Outgoing`: what is to be sent was reported and has not been sent.
`EveryQueryJudged` adds `LoopInv`: as long as no row lands, each queryid is still to
be visited or judged, and a queryid without a representative of its own is judged
by the one whose fingerprint it has. A row that lands ends the claim, which is why
`undisturbed` is recorded.

The last part of the module is about the plans an alert quotes. `PlansBracket` from
`PlanInv`: every ring is bounded, ordered and not ahead of the clock. Every
behaviour of `PlanCapture` is one of `Collector` (`PlanCaptureIsCollector`): whatever
the plan sources answer, a pass only appends a snapshot or not. So the theorems on
`Collector` hold with the plan sources in place. `PlanIsOwn` and `PassIsComplete` are
proved by cases on the sources.

`MirrorProofs`. `MInv` is `CInv` and `Mirrored`, which follows every observation `x`
from memory to the table, through failed inserts, pruning and restarts:

- `Observed`: memory, the table and the rows being loaded hold only what was taken,
  and a row's text gives back its fingerprint, so a restart restores what was
  stored.
- `Clocks` and `Apart`: none of the mirror's clock readings is the time of a sample
  in memory. The windows of two ticks share their end point, and this is why no
  sample is in both; it also keeps a restarted mirror from copying what it loaded.
- `Waits`: what is still to be copied is in memory as often as it was taken. Without
  it a tick could pass a sample that pruning had taken away first.
- `Room`: during a tick a sample is in the table at most once for each queryid
  already read. `CopiesAreBounded` alone says nothing of how many reads are left.
- `Passed` and `Whole`: what a read has passed is in the table as often as it was
  taken, unless it is excused. The mid-tick form is needed because a tick is one
  step per queryid and rows land in between.

`HistoryIsObserved`, `CopiesAreBounded` and `MirrorComplete` follow. Because `MInv`
contains `CInv` without assuming the first start, `RestartsAreSound` says that the
theorems on the collector's maps, order, retention and reads hold in every process
that was started from the table.

`EnergySearchProofs`. `BestAlwaysExact` and `SegmentsAlwaysLong` are about the search
itself, for every series of integers. A sum over a set of pairs is defined by taking
elements in the order `CHOOSE` picks them; that the order does not matter is proved
first, by the least size of a set for which it would. Then the sums after `Slide`
are those of the definition at the next split, because the pairs lost and gained are
exactly the row and the column of the value that moved; the loop keeps the first
split of greatest energy; and a cut inside `Splittable` bounds leaves both parts
long enough.

`PeriodicProofs`. `StepAlwaysFound` is about a series with one step: pairs on one side of
it have gap 0 and pairs across it have one and the same gap, so equal gaps add up to a
product, the energy of a split before or after the step has factors in common with
that of the step, and what is left to compare is that it has fewer values beyond the
step. The split of greatest energy is then the step, whatever the minimum length, and
the one `BestAlwaysExact` says is kept. `ChangePointsAlwaysExact` carries this to the
windows of `Periodic`: a window has at most one sample per slot, the two sides of the split share at most the
one at the split, and sorting changes no latency, so what is analysed is always such
a series and all three apply to it.

`ManagerProofs`. `ManagerInv` is `RegistryInv` and `RouteInv`. `LiveIsRegistered` alone
is not inductive: that starting a worker overwrites no other needs that a
Reconcile about to start one has none registered, and that workers are numbered
in the order they were started. `NoOrphanRoute` needs that the worker a Reconcile
looked up earlier belongs to the watch named by the spec it then read.

`AbortIsTold` is from `AbortInv`, which follows a regression on its way: from a Store
(`FeedInv`: only deploy events get there) to the list of what is due, to the task
that aborts, alerts and records (`TellInv`: a task that comes from an abort carries
it, and one about to record has already alerted). Only a deploy's loop can abort,
so the periodic loop of the same worker, which runs concurrently, cannot claim
one. A crash between an abort and its alert tells nobody; `Crash` takes such an
abort out of the claim, and the hazard list names it.

`ReportsMatchRollouts` is from `OnceInv`. A rollout is in no
more Stores than it completed times, and strictly fewer whenever it may yet be
reported: it is complete and not the last revision reported for the source, or a
Reconcile that reports another revision may make it so, or a Reconcile has read it
and not yet added it. The bare inequality is not inductive, as nothing in it says
that the next addition has room.

`ManagerTypeOK` has a part per group of variables. What is not a matter of single
assignments: a cursor stays within its Store, as Stores only grow; a worker in
`live` has been started; and what is reported is a source with one of its revisions.

Only model-checked:

- `AcceptedIsSeenOut`, `ConfigIsApplied`, `SourceIsServed`,
  `FirstRolloutIsReported`: the prover has no support for liveness under fairness.
- `StepIsLocated`, `OneReportPerStep`, in windows of up to eight values, where
  `changePointMinSegLen` is 3. From 40 values on it is a tenth of them (6 and 12 at the
  default windows of 61 and 121 samples), and a step with fewer on one side lies where
  the search may not cut; `StepIsLocated` makes no claim about it. Of what
  `StepIsLocated` says, only the search depends on the minimum, and that part is
  `StepAlwaysFound`, for every length and every minimum. The mapping of the cut to a
  sample, the threshold, Welch's test and the tolerance are checked only for the
  windows of the run.

## Behaviour without a promise

The models contain the following behaviour of the code; no comment or doc says
what should happen instead, so no property judges it:

- A rollback to an earlier ArgoCD revision has that revision's ID, and the Store
  drops it for the life of the process. Its log and ID set only grow.
- A webhook is answered before its event is durable; a crash before the next
  drain loses it.
- A server version that cannot be read once counts as modern for the life of the
  process; on a server before 13 every scrape then fails.
- A mean latency of 0 before a deploy never gives a regression.
- An alert that fails is logged and not repeated, as the result is already marked
  as notified.
- After a failed and then recovered DSN lookup a running watch is Running with
  Ready=False.
- The sample mirror asks for every queryid over a range of one scrape interval, and a
  queryid with so few samples of its own is answered with its siblings' too: with two
  queryids of one text each observation is in the table twice. `CopiesAreBounded` is
  what can be said.
- A regression recorded while its watch is being deleted has no owner. Two events
  whose names are cut to the same object name share one object. An object whose
  status update failed stays without a status.
- Two gauges read the length of PendingSet's slice and of the tracker's map
  without a lock while Tick writes them (outside the models).

One more has a doc that can be read against it. A watch whose DSN no longer resolves
is marked Failed and its Reconcile returns before it looks at the registry
(`internal/controller/postgreswatch_controller.go:202-206`): the worker it had goes on
with the old DSN, for good if the Secret stays unreadable. `Failed` is documented as
"the worker could not be started (e.g. bad DSN) and reconciliation will keep retrying"
(`api/v1alpha1/postgreswatch_types.go:410-412`), which is so of a new worker and says
nothing of the old one. `ConfigIsApplied` claims of such a watch only that it says
Failed, and `LiveIsRegistered` that its worker is still the registered one.

## Not modelled

- The fingerprint scanner (`internal/collector/fingerprint.go`): it reads a text
  character by character; which texts share a fingerprint is an arbitrary
  function in the models.
- The exact tail of the t distribution and the rounding of floats; see the
  abstraction of `ChangePoint` above.
- Alert messages, JSON decoding of payloads and of Prometheus answers, the SQL and
  the textual diff of plans: conversions no property is about.
- Metrics, logging, flags, HTTP servers, schema migration, dashboard, generated
  API types: no state that the rest of the system reads back.
- The in-memory stores: a second implementation of the two storage interfaces,
  used by tests only.
- Delays. A requeue after a minute and one at once are the same step; only the
  operator's deadlines and retention are timed.
- The clock never steps backwards in the models. The code compares wall-clock
  readings in UTC and would misjudge deadlines and the order of samples if it
  did.
- Several replicas: one process at a time is modelled; the manager relies on leader
  election for that.

## Plan

1. The rest of `StepIsLocated` for every window: the dating of the cut and Welch's
   test on a step.
2. A worker of `Manager` refined by `DeployAnalysis`, so that what it finds is no
   longer an event of the environment.
3. The fingerprint scanner on short strings of token classes.
