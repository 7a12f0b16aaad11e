------------------------------- MODULE Manager -------------------------------
(***************************************************************************)
(* The manager process (internal/cli/manager.go): WatchController composed *)
(* with DeploySourceReconciler and its webhook routes, with                *)
(* WorkloadWatchReconciler, and with the process itself, which may stop    *)
(* and start again at any point.                                           *)
(*                                                                         *)
(* The three reconcilers run concurrently and meet in the Registry; each   *)
(* one handles one request at a time.                                      *)
(***************************************************************************)
EXTENDS WatchController

CONSTANTS
  Kind,           \* kinds the workload "app" may have
  FirstRevision   \* the revision a new workload has

ASSUME ManagerAssumption == FirstRevision \in Revision /\ "" \notin Revision

\* No webhook carries the ID of a rollout: those begin with k8s-, and the only
\* payloads that bring an ID of their own are the generic ones.
ASSUME SendersAssumption == WebhookID \cap (Source \X Revision) = {}

VARIABLES
  sourceStatus,   \* Source -> [phase, path]
  routes,         \* Source -> the worker its webhook route feeds, or None
  sourcing,       \* the DeploySource reconcile in progress
  workload,       \* the workload "app": [kind, rev, old, stage], or Absent
  lastRevision,   \* Source -> the revision last reported for it, or ""
  reporting,      \* the workload reconcile in progress
  \* history
  completions,    \* Revision -> how often a rollout of it has completed
  owed,           \* <<source, rev>>: a reconcile saw it complete for the source
  reported        \* <<source, rev>>: a Store took the event of the rollout going on

sourceVars == <<sourceStatus, routes, sourcing>>
workloadVars == <<workload, lastRevision, reporting, completions, owed, reported>>
vars == <<watchVars, sourceVars, workloadVars>>

NoStatus == [phase |-> "", path |-> FALSE]
App == <<"workload", "app">>

Init ==
  /\ WatchInit
  /\ sourceStatus = [s \in Source |-> NoStatus]
  /\ routes = [s \in Source |-> None]
  /\ sourcing = Idle
  /\ workload = Absent
  /\ lastRevision = [s \in Source |-> ""]
  /\ reporting = Idle
  /\ completions = [v \in Revision |-> 0]
  /\ owed = {} /\ reported = {}
-----------------------------------------------------------------------------
(***************************************************************************)
(* ingester.Store.Add: an ID the Store holds is not added again.           *)
(***************************************************************************)
AddTo(r, ev) ==
  events' = IF \E i \in DOMAIN events[r] : events[r][i].id = ev.id THEN events
            ELSE [events EXCEPT ![r] = Append(@, ev)]
-----------------------------------------------------------------------------
(***************************************************************************)
(* DeploySourceReconciler and DynamicMux.                                  *)
(***************************************************************************)
Matches(spec, kind) == spec # Absent /\ spec.type = "kubernetes" /\ spec.kind = kind

\* A source that no longer matches is owed nothing more.
EditSource(s, spec) ==
  /\ Edit("source") /\ spec \in allowed.specs \ {sourceSpec[s]}
  /\ sourceSpec' = [sourceSpec EXCEPT ![s] = spec]
  /\ sourceStatus' = IF spec = Absent THEN [sourceStatus EXCEPT ![s] = NoStatus] ELSE sourceStatus
  /\ queue' = queue \cup {<<"source", s>>}
  /\ owed' = {o \in owed : o[1] = s => workload # Absent /\ Matches(spec, workload.kind)}
  /\ UNCHANGED <<watchSpec, watchStatus, dsnSecret, kubeSecret, regressions, registry, live,
                 workerVars, clients, reconciling, historyVars, routes, sourcing, workload,
                 lastRevision, reporting, completions, reported>>

\* Get, and Registry.Get of the watch the source names, which need not exist.
ReconcileSource(s) ==
  LET spec == sourceSpec[s]
  IN  /\ sourcing = Idle /\ <<"source", s>> \in queue
      /\ queue' = queue \ {<<"source", s>>}
      /\ IF spec = Absent
         THEN routes' = [routes EXCEPT ![s] = None] /\ UNCHANGED sourcing
         ELSE /\ sourcing' = [step |-> "route", source |-> s, spec |-> spec,
                              runtime |-> IF spec.ref \in Watch THEN registry[spec.ref] ELSE None]
              /\ UNCHANGED routes
      /\ UNCHANGED <<apiVars, registry, live, workerVars, clients, reconciling, historyVars,
                     sourceStatus, workloadVars>>

\* Mutant: a route left from before the type changed is not removed.
RouteUnlessNative ==
  IF sourcing.spec.type = "kubernetes" THEN routes[sourcing.source] ELSE sourcing.runtime

\* The route the source should have: none while its watch does not run, none for
\* a workload watched natively, else one to the Store of that worker.
RouteFor == IF sourcing.spec.type = "kubernetes" THEN None ELSE sourcing.runtime

\* Mux.Register and Mux.Unregister
SetRoute ==
  /\ sourcing.step = "route"
  /\ routes' = [routes EXCEPT ![sourcing.source] = RouteFor]
  /\ sourcing' = [sourcing EXCEPT !.step = "status"]
  /\ UNCHANGED <<watchVars, sourceStatus, workloadVars>>

SourceStatus ==
  [phase |-> IF sourcing.runtime = None THEN "Pending" ELSE "Ready", path |-> RouteFor # None]

\* Mutant: a source whose watch is not running is not looked at again.
RequeueOnError(s, written) ==
  queue' = IF written THEN queue ELSE queue \cup {<<"source", s>>}

\* Pending asks for another Reconcile, and so does a status that could not be
\* written or that changed the object.
RequeueSource(s, written) ==
  queue' = IF written /\ sourcing.runtime # None /\ SourceStatus = sourceStatus[s]
           THEN queue ELSE queue \cup {<<"source", s>>}

UpdateSourceStatus ==
  LET s == sourcing.source
  IN  /\ sourcing.step = "status"
      /\ sourcing' = Idle
      /\ \/ /\ sourceSpec[s] = sourcing.spec
            /\ sourceStatus' = [sourceStatus EXCEPT ![s] = SourceStatus]
            /\ RequeueSource(s, TRUE)
            /\ UNCHANGED <<allowed, edits>>
         \/ /\ sourceSpec[s] # sourcing.spec
            /\ RequeueSource(s, FALSE)
            /\ UNCHANGED <<sourceStatus, allowed, edits>>
         \/ Edit("api") /\ RequeueSource(s, FALSE) /\ UNCHANGED sourceStatus
      /\ UNCHANGED <<watchSpec, watchStatus, sourceSpec, dsnSecret, kubeSecret, regressions,
                     registry, live, workerVars, clients, reconciling, historyVars, routes,
                     workloadVars>>

\* DynamicMux.ServeHTTP: the handler, if there is a route, stores the event in the
\* Store it was built with.
Webhook(s, id) ==
  /\ Edit("webhook") /\ routes[s] # None
  /\ AddTo(routes[s], [id |-> id, source |-> s])
  /\ UNCHANGED <<watchSpec, watchStatus, sourceSpec, dsnSecret, kubeSecret, regressions, queue,
                 registry, live, conf, cursor, pending, due, task, clients, reconciling,
                 historyVars, sourceVars, workloadVars>>
-----------------------------------------------------------------------------
(***************************************************************************)
(* The workload.  After an edit its controller assigns the revision, then  *)
(* replaces the pods; the fields Reconcile reads follow from the stage.    *)
(***************************************************************************)
Stages == <<"edited", "rolling", "surging", "done">>
NextStage(stage) == Stages[1 + CHOOSE i \in 1 .. 3 : Stages[i] = stage]

Replicas == 2

\* Status fields of a workload.  Before the edit is observed they still describe
\* the revision before it.  A Deployment has one pod too many while it surges; a
\* StatefulSet has every pod updated before its current revision catches up.
StatusOf(wl) ==
  [generation |-> 2,
   observedGeneration |-> IF wl.stage = "edited" THEN 1 ELSE 2,
   updatedReplicas |-> IF wl.stage = "rolling" THEN Replicas - 1 ELSE Replicas,
   replicas |-> IF wl.kind = "Deployment" /\ wl.stage = "surging" THEN Replicas + 1 ELSE Replicas,
   availableReplicas |-> IF wl.stage = "rolling" THEN Replicas - 1 ELSE Replicas,
   currentRevision |-> IF wl.stage = "done" THEN wl.rev ELSE wl.old,
   updateRevision |-> IF wl.stage = "edited" THEN wl.old ELSE wl.rev]

DeploymentRolloutComplete(d) ==
  /\ d.observedGeneration >= d.generation
  /\ d.updatedReplicas = Replicas
  /\ d.replicas = Replicas
  /\ d.availableReplicas = Replicas

StatefulSetRolloutComplete(d) ==
  /\ d.observedGeneration >= d.generation
  /\ d.updatedReplicas = Replicas
  /\ d.currentRevision = d.updateRevision

\* Mutant: the number of updated replicas is taken for the whole story.
UpdatedIsComplete(wl) == StatusOf(wl).updatedReplicas = Replicas

RolloutComplete(wl) ==
  IF wl.kind = "Deployment" THEN DeploymentRolloutComplete(StatusOf(wl))
  ELSE StatefulSetRolloutComplete(StatusOf(wl))

WorkloadChange ==
  /\ queue' = queue \cup {App}
  /\ UNCHANGED <<watchSpec, watchStatus, sourceSpec, dsnSecret, kubeSecret, regressions,
                 registry, live, workerVars, clients, reconciling, historyVars, sourceVars,
                 lastRevision, reporting>>

\* An edit that creates the workload or starts the rollout of another revision.
\* A StatefulSet may go back to one it had before; a Deployment, whose revisions are
\* numbered, does not go back to the first.
EditWorkload(kind, rev) ==
  /\ Edit(kind)
  /\ IF workload = Absent THEN rev = FirstRevision
     ELSE /\ kind = workload.kind /\ rev # workload.rev /\ workload.stage = "done"
          /\ kind = "Deployment" => rev # FirstRevision
  /\ workload' = [kind |-> kind, rev |-> rev, stage |-> "edited",
                  old |-> IF workload = Absent THEN "" ELSE workload.rev]
  /\ owed' = {} /\ reported' = {}
  /\ UNCHANGED completions
  /\ WorkloadChange

DeleteWorkload ==
  /\ Edit("delete") /\ workload # Absent
  /\ workload' = Absent
  /\ owed' = {} /\ reported' = {}
  /\ UNCHANGED completions
  /\ WorkloadChange

\* The Deployment or StatefulSet controller makes progress (external).
RollOn ==
  /\ workload # Absent /\ workload.stage # "done"
  /\ workload' = [workload EXCEPT !.stage = NextStage(@)]
  /\ completions' = IF workload'.stage = "done"
                    THEN [completions EXCEPT ![workload.rev] = @ + 1] ELSE completions
  /\ UNCHANGED <<allowed, edits, owed, reported>>
  /\ WorkloadChange
-----------------------------------------------------------------------------
(***************************************************************************)
(* WorkloadWatchReconciler.                                                *)
(***************************************************************************)
\* List and Get; a workload that is gone is forgotten.
ReconcileWorkload ==
  /\ reporting = Idle /\ App \in queue
  /\ queue' = queue \ {App}
  /\ LET matches == {s \in Source : Matches(sourceSpec[s], workload.kind)}
         revision == StatusOf(workload).updateRevision
     IN  IF workload = Absent
         THEN lastRevision' = [s \in Source |-> ""] /\ UNCHANGED <<reporting, owed>>
         ELSE IF matches = {} \/ ~RolloutComplete(workload) \/ revision = ""
         THEN UNCHANGED <<lastRevision, reporting, owed>>
         ELSE /\ reporting' = [step |-> "match", rev |-> revision,
                               left |-> {<<s, sourceSpec[s].ref>> : s \in matches},
                               source |-> "", runtime |-> None, requeue |-> FALSE]
              /\ owed' = owed \cup {<<s, revision>> : s \in matches}
              /\ UNCHANGED lastRevision
  /\ UNCHANGED <<apiVars, registry, live, workerVars, clients, reconciling, historyVars,
                 sourceVars, workload, completions, reported>>

\* One match, up to Registry.Get.
TakeMatch ==
  /\ reporting.step = "match"
  /\ \E m \in reporting.left :
       LET s == m[1]
           rt == IF m[2] \in Watch THEN registry[m[2]] ELSE None
           rest == [reporting EXCEPT !.left = @ \ {m}]
       IN  reporting' =
             IF lastRevision[s] = reporting.rev THEN rest
             ELSE IF rt = None THEN [rest EXCEPT !.requeue = TRUE]
             ELSE [rest EXCEPT !.step = "add", !.source = s, !.runtime = rt]
  /\ UNCHANGED <<watchVars, sourceVars, workload, lastRevision, completions, owed, reported>>

\* Store.Add; lastRevision is set even if the Store holds that ID and drops the event.
AddRollout ==
  LET s == reporting.source
      rev == reporting.rev
  IN  /\ reporting.step = "add"
      /\ AddTo(reporting.runtime, [id |-> <<s, rev>>, source |-> s])
      /\ lastRevision' = [lastRevision EXCEPT ![s] = rev]
      /\ reported' = IF events' = events THEN reported ELSE reported \cup {<<s, rev>>}
      /\ reporting' = [reporting EXCEPT !.step = "match", !.source = "", !.runtime = None]
      /\ UNCHANGED <<apiVars, queue, registry, live, conf, cursor, pending, due, task, clients,
                     reconciling, historyVars, sourceVars, workload, completions, owed>>

\* Mutant: a match whose watch is not running is given up.
NoRetry == queue' = queue

RetryIfNeeded == queue' = IF reporting.requeue THEN queue \cup {App} ELSE queue

EndReport ==
  /\ reporting.step = "match" /\ reporting.left = {}
  /\ RetryIfNeeded
  /\ reporting' = Idle
  /\ UNCHANGED <<apiVars, registry, live, workerVars, clients, reconciling, historyVars,
                 sourceVars, workload, lastRevision, completions, owed, reported>>
-----------------------------------------------------------------------------
(***************************************************************************)
(* The process.                                                            *)
(***************************************************************************)
Existing ==
  {q \in Request :
     \/ q[1] = "watch" /\ watchSpec[q[2]] # Absent
     \/ q[1] = "source" /\ sourceSpec[q[2]] # Absent
     \/ q = App /\ workload # Absent}

\* A request without a change: the informers' resync (external).
Resync(q) ==
  /\ Edit("resync") /\ q \in Existing \ queue
  /\ queue' = queue \cup {q}
  /\ UNCHANGED <<watchSpec, watchStatus, sourceSpec, dsnSecret, kubeSecret, regressions,
                 registry, live, workerVars, clients, reconciling, historyVars, sourceVars,
                 workloadVars>>

\* reportManagerStartupFailureStatus, for the objects whose update succeeds.
FailedWatchStatus(ws) ==
  [w \in Watch |-> IF w \in ws THEN [phase |-> "Failed", ready |-> FALSE] ELSE watchStatus[w]]

FailedSourceStatus(ss) ==
  [s \in Source |-> IF s \in ss THEN [phase |-> "Failed", path |-> FALSE] ELSE sourceStatus[s]]

\* The process ends and starts again: nothing in memory survives, and the new one
\* reconciles every object.  When it is mgr.Start that returned an error, RunManager
\* first marks what objects it can as failed.  An abort it did not live to tell of is
\* forgotten; workers keep their numbers.
Crash(failedWatches, failedSources) ==
  /\ Edit("crash")
  /\ \A w \in failedWatches : watchSpec[w] # Absent
  /\ \A s \in failedSources : sourceSpec[s] # Absent
  /\ watchStatus' = FailedWatchStatus(failedWatches)
  /\ sourceStatus' = FailedSourceStatus(failedSources)
  /\ queue' = Existing
  /\ registry' = [w \in Watch |-> None] /\ live' = {}
  /\ conf' = [r \in Runtime |-> IF Started(r) THEN Gone ELSE NoConf]
  /\ events' = [r \in Runtime |-> <<>>] /\ cursor' = [r \in Runtime |-> 0]
  /\ pending' = [r \in Runtime |-> {}]
  /\ due' = [l \in Loop |-> {}] /\ task' = [l \in Loop |-> Idle]
  /\ clients' = [k \in {} |-> k]
  /\ reconciling' = Idle /\ sourcing' = Idle /\ reporting' = Idle
  /\ routes' = [s \in Source |-> None]
  /\ lastRevision' = [s \in Source |-> ""]
  /\ aborted' = {a \in aborted : \E n \in alerted :
                   n.worker = a.worker /\ n.event = a.event /\ n.abort # "none"}
  /\ owed' = {} /\ reported' = {}
  /\ UNCHANGED <<watchSpec, sourceSpec, dsnSecret, kubeSecret, regressions, alerted, workload,
                 completions>>
-----------------------------------------------------------------------------
SourceStep ==
  \/ \E s \in Source : ReconcileSource(s)
  \/ SetRoute \/ UpdateSourceStatus

WorkloadStep == ReconcileWorkload \/ TakeMatch \/ AddRollout \/ EndReport

WatchEdit ==
  \/ \E w \in Watch, spec \in Spec \cup {Absent} : EditWatch(w, spec)
  \/ \E value \in DSN : EditDSNSecret(value)
  \/ \E value \in Kubeconfig : EditKubeconfig(value)
  \/ \E k \in Kubeconfig : ClientBreaks(k)

Environment ==
  \/ \E s \in Source, spec \in SourceSpec \cup {Absent} : EditSource(s, spec)
  \/ \E s \in Source, id \in WebhookID : Webhook(s, id)
  \/ \E kind \in Kind, rev \in Revision : EditWorkload(kind, rev)
  \/ DeleteWorkload
  \/ \E q \in Request : Resync(q)
  \/ \E ws \in SUBSET Watch, ss \in SUBSET Source : Crash(ws, ss)

Next ==
  \/ Environment
  \/ (WatchEdit \/ WatchStep \/ WorkerStep \/ Sweep) /\ UNCHANGED <<sourceVars, workloadVars>>
  \/ SourceStep \/ WorkloadStep \/ RollOn

\* Each controller's workers take what is in its queue, in turn, and finish what
\* they take.  The workload's own controller, users, sweeps and ticks owe nothing.
Fairness ==
  /\ \A w \in Watch : SF_vars(ReconcileWatch(w) /\ UNCHANGED <<sourceVars, workloadVars>>)
  /\ WF_vars((StartWatch \/ UpdateStatus) /\ UNCHANGED <<sourceVars, workloadVars>>)
  /\ \A s \in Source : SF_vars(ReconcileSource(s))
  /\ WF_vars(SetRoute \/ UpdateSourceStatus)
  /\ WF_vars(WorkloadStep)

ManagerSpec == Init /\ [][Next]_vars /\ Fairness
-----------------------------------------------------------------------------
\* The states the manager can be in.
ManagerTypeOK ==
  /\ watchSpec \in [Watch -> Spec \cup {Absent}]
  /\ watchStatus \in [Watch -> [phase : {"", "Running", "Failed"}, ready : BOOLEAN]]
  /\ sourceSpec \in [Source -> SourceSpec \cup {Absent}]
  /\ sourceStatus \in [Source -> [phase : {"", "Pending", "Ready", "Failed"}, path : BOOLEAN]]
  /\ DOMAIN regressions \subseteq ObjectName
  /\ queue \subseteq Request
  /\ registry \in [Watch -> Runtime \cup {None}]
  /\ live \subseteq {r \in Runtime : Started(r)}
  /\ \A r \in Runtime : pending[r] \subseteq Event /\ cursor[r] \in 0 .. Len(events[r])
  /\ \A l \in Loop : due[l] \subseteq Regression
  /\ DOMAIN clients \subseteq Kubeconfig
  /\ routes \in [Source -> Runtime \cup {None}]
  /\ lastRevision \in [Source -> Revision \cup {""}]
  /\ owed \subseteq Source \X Revision /\ reported \subseteq Source \X Revision
  /\ edits \in 0 .. allowed.most

\* A route is served only for a DeploySource that exists, takes webhooks and names
\* the watch whose worker the route feeds; anything else is about to be reconciled.
\* ("a DeploySource CR can be deleted (or its postgresWatchRef can change) at any
\* time", mux.go:22-28; deploysource_controller.go:78-174.)
NoOrphanRoute ==
  \A s \in Source :
    routes[s] # None =>
      \/ /\ sourceSpec[s] # Absent
         /\ sourceSpec[s].type # "kubernetes"
         /\ sourceSpec[s].ref = conf[routes[s]].watch
      \/ <<"source", s>> \in queue
      \/ sourcing # Idle /\ sourcing.source = s

\* A DeploySource that reports its route as served ("the webhook route is registered
\* and accepting deploy events", api/v1alpha1/deploysource_types.go:75-77) has one that
\* feeds a worker somebody runs, or is about to be reconciled.  Does not hold: a
\* worker that is replaced or stopped leaves the route with the old worker's Store,
\* and nothing tells DeploySourceReconciler (deploysource_controller.go:69-75).
RouteFeedsWatch ==
  \A s \in Source :
    sourceStatus[s].path =>
      \/ routes[s] \in live
      \/ <<"source", s>> \in queue
      \/ sourcing # Idle /\ sourcing.source = s

\* No Store holds a rollout that has not completed, and a rollout is in no more
\* Stores than it completed times: neither a half-finished rollout nor a second
\* report of one that was delivered reaches analysis, whatever becomes of the
\* watches meanwhile (workload_watch_controller.go:173-257; docs/webhooks.md:143).
ReportsMatchRollouts ==
  \A s \in Source, rev \in Revision :
    Cardinality({r \in Runtime : \E i \in DOMAIN events[r] : events[r][i].id = <<s, rev>>})
      <= completions[rev]

\* Of a watch w once nothing changes any more: what a Reconcile of it leads to.
Resolved(w) ==
  LET spec == watchSpec[w]
      found == FoundSecret(spec)
  IN  IF UsesPrometheus(spec) THEN "" ELSE
      IF spec.dsn # "" THEN spec.dsn ELSE
      IF /\ spec.secretRef /\ Readable(found)
         /\ spec.remote # "none" => RemoteClientBuilds(spec, kubeSecret)
      THEN found ELSE NoSecret

\* A watch whose DSN does not resolve is marked Failed; whether it still has a worker
\* is left open, as Reconcile returns before it looks at the registry.
Settled(w) ==
  LET r == registry[w]
      dsn == Resolved(w)
  IN  IF watchSpec[w] = Absent THEN r = None
      ELSE IF dsn = NoSecret
      THEN watchStatus[w] = [phase |-> "Failed", ready |-> FALSE]
      ELSE IF StartRefused(watchSpec[w], dsn)
      THEN r = None /\ watchStatus[w] = [phase |-> "Failed", ready |-> FALSE]
      ELSE /\ r # None
           /\ HashOf(r) = SpecHash(watchSpec[w], dsn)
           /\ watchStatus[w].phase = "Running"

\* Whatever was edited, rotated, broken or restarted, in the end each watch whose DSN
\* resolves runs with the spec and the DSN it now has, or is refused, does not run and
\* says Failed; a deleted one does not run (postgreswatch_controller.go:180-246; the
\* DSN Secret and the kubeconfig are found again by the periodic refresh only, a broken
\* remote client by eviction).  A watch whose DSN does not resolve says Failed and no
\* more is claimed of it: lines 202-206 leave the worker it had running, for good if
\* the Secret stays unreadable, although Failed is documented as "the worker could not
\* be started" (api/v1alpha1/postgreswatch_types.go:410-412).
ConfigIsApplied == <>[](\A w \in Watch : Settled(w))

Served(s) ==
  LET spec == sourceSpec[s]
      r == IF spec # Absent /\ spec.ref \in Watch THEN registry[spec.ref] ELSE None
  IN  IF spec = Absent THEN routes[s] = None
      ELSE r # None =>
             /\ sourceStatus[s] = [phase |-> "Ready", path |-> spec.type # "kubernetes"]
             /\ (routes[s] # None) = (spec.type # "kubernetes")

\* A DeploySource may be created before the PostgresWatch it names ("it just stays
\* Pending and retries", deploysource_controller.go:43-56): in the end, if that
\* watch runs, the source is Ready and has its route, and a deleted one has none.
SourceIsServed == <>[](\A s \in Source : Served(s))

\* The event of a rollout that a Reconcile saw complete for the source s is in a Store,
\* as far as the source still matches, the workload keeps the revision and the watch is
\* there to receive it.
Delivered(s, rev) ==
  LET ref == sourceSpec[s].ref
  IN  (<<s, rev>> \in owed /\ ref \in Watch /\ registry[ref] # None)
        => <<s, rev>> \in reported

\* The first rollout of a revision reaches every DeploySource that matches the workload,
\* even when a watch starts long after: "the reconcile does retry until every match has
\* been delivered" (docs/webhooks.md:147; workload_watch_controller.go:213-257).
FirstRolloutIsReported ==
  <>[](\A s \in Source, rev \in Revision : completions[rev] = 1 => Delivered(s, rev))

\* So does every later one: a workload deleted and created again "is treated as a fresh
\* rollout rather than a no-op repeat" (workload_watch_controller.go:137-140).  Does not
\* hold: the event's ID names the revision only, so a Store that holds the one of the
\* earlier rollout drops it (ingester.go:84-86); and when the deletion and the creation
\* are handled by one Reconcile, lastRevision was not forgotten and no event is made.
RolloutIsReported == <>[](\A s \in Source, rev \in Revision : Delivered(s, rev))
=============================================================================
