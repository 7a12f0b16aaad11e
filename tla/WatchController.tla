--------------------------- MODULE WatchController ---------------------------
(***************************************************************************)
(* internal/controller: PostgresWatchReconciler, the Registry of running   *)
(* workers, the cache of remote-cluster clients, and each worker's loops   *)
(* (alerting, auto-abort, recording a PerformanceRegression).              *)
(*                                                                         *)
(* controller-runtime runs one Reconcile at a time per controller; it      *)
(* interleaves with the other controllers, with the workers' goroutines    *)
(* and with edits of the API objects, so Reconcile is one step up to its   *)
(* decision and one per change of shared state after it.  RequeueAfter and *)
(* a retry after an error both put the request back; delays are not        *)
(* modelled.                                                               *)
(*                                                                         *)
(* A worker's PendingSet is detailed in DeployAnalysis; here one query is  *)
(* watched, and a tick reports it for some of the events it holds, which   *)
(* can then report no more, lets some go and keeps the others.  That the   *)
(* query has regressed is an event of the environment.                     *)
(***************************************************************************)
EXTENDS WatchConfig, Integers, Sequences, FiniteSets

CONSTANTS
  Watch, Source,     \* names of PostgresWatches and DeploySources
  Spec, SourceSpec,  \* the specs they may be given
  DSN, Kubeconfig,   \* values the two Secrets may hold
  OwnNamespace,      \* the namespace of all these objects
  SecretNamespace,   \* the one the DSN Secret lives in, wherever it is read
  HaveAborter,       \* the manager could build a dynamic client
  WebhookID,         \* IDs a webhook's events may carry
  Revision,          \* revisions of the workload "app"
  ObjectName,        \* names of PerformanceRegression objects
  Slug,              \* event ID -> regressionResourceName
  PeriodicName,      \* the name a periodic regression is recorded under
  TTLSweeps,         \* remoteClientTTL, in sweeps
  Disturbances,      \* bounds: the [kinds, most, specs] of edits and faults of a run
  MaxRuntimes        \* bound: workers ever started

ASSUME WatchControllerAssumption ==
  /\ Slug \in [WebhookID \cup (Source \X Revision) -> ObjectName]
  /\ PeriodicName \in ObjectName
  /\ <<>> \notin WebhookID    \* no parser leaves an event without an ID
  /\ TTLSweeps \in Nat \ {0} /\ MaxRuntimes \in Nat
  /\ HaveAborter \in BOOLEAN
  /\ \A d \in Disturbances : d.most \in Nat

VARIABLES
  \* API server
  watchSpec,    \* Watch -> its spec, or Absent
  watchStatus,  \* Watch -> [phase, ready]
  sourceSpec,   \* Source -> its spec, or Absent
  dsnSecret,    \* what reading the DSN Secret yields
  kubeSecret,   \* what reading the kubeconfig Secret yields
  regressions,  \* names of PerformanceRegressions -> [owner, event, abort]
  allowed,      \* the edits and faults this run may have
  edits,        \* how many there were
  \* manager process
  queue,        \* requests waiting in the controllers' work queues
  registry,     \* Watch -> its worker, or None
  live,         \* workers whose context is not cancelled
  conf,         \* worker -> [watch, spec, dsn] it was built from; NoConf before
  events,       \* worker -> its Store: deploy events in arrival order
  cursor,       \* worker -> its DrainSince position
  pending,      \* worker -> events under analysis
  due,          \* loop -> regressions Tick returned, still to handle
  task,         \* loop -> the one being handled
  clients,      \* kubeconfig -> its cached client
  reconciling,  \* the PostgresWatch reconcile in progress
  \* history
  aborted,      \* aborts carried out, as [worker, event]
  alerted       \* what Notify was called with, as [worker, event, abort]

apiVars == <<watchSpec, watchStatus, sourceSpec, dsnSecret, kubeSecret, regressions, allowed,
             edits>>
workerVars == <<conf, events, cursor, pending, due, task>>
historyVars == <<aborted, alerted>>
watchVars == <<apiVars, queue, registry, live, workerVars, clients, reconciling, historyVars>>

Absent == [absent |-> TRUE]
NoConf == [unbuilt |-> TRUE]
Gone == [gone |-> TRUE]
NoEvent == [id |-> <<>>, source |-> ""]
None == 0
Runtime == 1 .. MaxRuntimes
Loop == Runtime \X {"deploy", "periodic"}
\* WorkloadWatchReconciler's ID names the DeploySource and the revision.
EventID == WebhookID \cup (Source \X Revision)
Event == [id : EventID, source : Source]
Idle == [step |-> "idle"]
Request == ({"watch"} \X Watch) \cup ({"source"} \X Source) \cup {<<"workload", "app">>}

Started(r) == conf[r] # NoConf
HashOf(r) == SpecHash(conf[r].spec, conf[r].dsn)

WatchInit ==
  /\ watchSpec \in [Watch -> Spec \cup {Absent}]
  /\ watchStatus = [w \in Watch |-> [phase |-> "", ready |-> FALSE]]
  /\ sourceSpec \in [Source -> SourceSpec \cup {Absent}]
  /\ dsnSecret \in DSN /\ kubeSecret \in Kubeconfig
  /\ regressions = [n \in {} |-> n]
  /\ allowed \in Disturbances /\ edits = 0
  /\ queue = {q \in Request :
                \/ q[1] = "watch" /\ watchSpec[q[2]] # Absent
                \/ q[1] = "source" /\ sourceSpec[q[2]] # Absent}
  /\ registry = [w \in Watch |-> None]
  /\ live = {}
  /\ conf = [r \in Runtime |-> NoConf]
  /\ events = [r \in Runtime |-> <<>>] /\ cursor = [r \in Runtime |-> 0]
  /\ pending = [r \in Runtime |-> {}]
  /\ due = [l \in Loop |-> {}] /\ task = [l \in Loop |-> Idle]
  /\ clients = [k \in {} |-> k]
  /\ reconciling = Idle
  /\ aborted = {} /\ alerted = {}
-----------------------------------------------------------------------------
(***************************************************************************)
(* Edits by users and by other controllers.  Each one that touches a       *)
(* watched object enqueues it; Secrets are not watched.                    *)
(***************************************************************************)
Edit(kind) ==
  /\ kind \in allowed.kinds /\ edits < allowed.most
  /\ edits' = edits + 1
  /\ UNCHANGED allowed

EditWatch(w, spec) ==
  /\ Edit("watch") /\ spec \in allowed.specs \ {watchSpec[w]}
  /\ watchSpec' = [watchSpec EXCEPT ![w] = spec]
  /\ watchStatus' = IF spec = Absent
                    THEN [watchStatus EXCEPT ![w] = [phase |-> "", ready |-> FALSE]]
                    ELSE watchStatus
  /\ queue' = queue \cup {<<"watch", w>>}
  /\ UNCHANGED <<sourceSpec, dsnSecret, kubeSecret, regressions, registry, live,
                 workerVars, clients, reconciling, historyVars>>

EditDSNSecret(value) ==
  /\ Edit("dsn") /\ value # dsnSecret
  /\ dsnSecret' = value
  /\ UNCHANGED <<watchSpec, watchStatus, sourceSpec, kubeSecret, regressions, queue,
                 registry, live, workerVars, clients, reconciling, historyVars>>

EditKubeconfig(value) ==
  /\ Edit("kubeconfig") /\ value # kubeSecret
  /\ kubeSecret' = value
  /\ UNCHANGED <<watchSpec, watchStatus, sourceSpec, dsnSecret, regressions, queue,
                 registry, live, workerVars, clients, reconciling, historyVars>>

\* A cached client's connections go stale: its requests fail from now on.
ClientBreaks(k) ==
  /\ Edit("client") /\ k \in DOMAIN clients /\ ~clients[k].broken
  /\ clients' = [clients EXCEPT ![k].broken = TRUE]
  /\ UNCHANGED <<watchSpec, watchStatus, sourceSpec, dsnSecret, kubeSecret, regressions,
                 queue, registry, live, workerVars, reconciling, historyVars>>

-----------------------------------------------------------------------------
(***************************************************************************)
(* The remote client cache.  Only Reconcile calls get and evict, so they   *)
(* interleave with nothing but the sweep, whose period is the unit in      *)
(* which an entry's idle time is counted.                                  *)
(***************************************************************************)
\* remoteClientCache.get: a hit is touched, a miss builds a client.
CacheGet(k) ==
  [x \in DOMAIN clients \cup {k} |->
     IF x # k THEN clients[x]
     ELSE [broken |-> k \in DOMAIN clients /\ clients[k].broken, idle |-> 0]]

CacheEvict(k) == [x \in DOMAIN clients \ {k} |-> clients[x]]

\* Start and evictOlderThan
Sweep ==
  /\ clients # [k \in {} |-> k]
  /\ LET kept == {k \in DOMAIN clients : clients[k].idle < TTLSweeps}
     IN  clients' = [k \in kept |-> [clients[k] EXCEPT !.idle = @ + 1]]
  /\ UNCHANGED <<apiVars, queue, registry, live, workerVars, reconciling, historyVars>>
-----------------------------------------------------------------------------
(***************************************************************************)
(* PostgresWatchReconciler.Reconcile.                                      *)
(***************************************************************************)
\* Mutant: the worker is forgotten but not cancelled.
StopWatchForgets(w) ==
  /\ live' = live
  /\ registry' = [registry EXCEPT ![w] = None]

StopWatch(w) ==
  /\ live' = live \ {registry[w]}
  /\ registry' = [registry EXCEPT ![w] = None]

\* resolveDSN fails: markFailed is next, and the worker, if any, keeps running.
ResolveFails(w) ==
  /\ reconciling' = [step |-> "status", watch |-> w, spec |-> watchSpec[w], dsn |-> "",
                     outcome |-> "failed"]
  /\ UNCHANGED <<live, registry>>

\* The DSN is known: the worker already runs this configuration, or any old one is
\* stopped.
ResolvesTo(w, dsn) ==
  LET r == registry[w]
      running == r # None /\ HashOf(r) = SpecHash(watchSpec[w], dsn)
  IN  /\ reconciling' = [step |-> IF running THEN "status" ELSE "start", watch |-> w,
                         spec |-> watchSpec[w], dsn |-> dsn, outcome |-> "refreshed"]
      /\ IF running THEN UNCHANGED <<live, registry>> ELSE StopWatch(w)

\* The DSN Secret, in the namespace the spec leads to.
FoundSecret(spec) ==
  IF DSNSecretNamespace(spec, OwnNamespace) = SecretNamespace THEN dsnSecret ELSE NoSecret

\* resolveDSN: a remote client whose request failed is evicted from the cache.
ResolveDSN(w) ==
  LET spec == watchSpec[w]
      secret == FoundSecret(spec)
      use == IF Readable(secret) THEN ResolvesTo(w, secret) ELSE ResolveFails(w)
  IN  IF spec.dsn # "" THEN ResolvesTo(w, spec.dsn) /\ UNCHANGED clients
      ELSE IF ~spec.secretRef THEN ResolveFails(w) /\ UNCHANGED clients
      ELSE IF spec.remote = "none" THEN use /\ UNCHANGED clients
      ELSE IF ~RemoteClientBuilds(spec, kubeSecret) THEN ResolveFails(w) /\ UNCHANGED clients
      ELSE IF CacheGet(kubeSecret)[kubeSecret].broken \/ secret = NoSecret
      THEN ResolveFails(w) /\ clients' = CacheEvict(kubeSecret)
      ELSE use /\ clients' = CacheGet(kubeSecret)

\* The Get, resolveDSN and stopWatch.  A watch that is gone has its worker stopped,
\* and nothing more is due.
ReconcileWatch(w) ==
  /\ reconciling = Idle /\ <<"watch", w>> \in queue
  /\ queue' = queue \ {<<"watch", w>>}
  /\ IF watchSpec[w] = Absent THEN StopWatch(w) /\ UNCHANGED <<clients, reconciling>>
     ELSE IF UsesPrometheus(watchSpec[w]) THEN ResolvesTo(w, "") /\ UNCHANGED clients
     ELSE ResolveDSN(w)
  /\ UNCHANGED <<apiVars, workerVars, historyVars>>

NextRuntime == 1 + Cardinality({r \in Runtime : Started(r)})

\* startWatch with a new Store, new loops and a new PendingSet, and Registry.Set.
StartWatch ==
  LET w == reconciling.watch
      r == NextRuntime
  IN  /\ reconciling.step = "start"
      /\ IF StartRefused(reconciling.spec, reconciling.dsn)
         THEN /\ reconciling' = [reconciling EXCEPT !.step = "status", !.outcome = "failed"]
              /\ UNCHANGED <<live, registry, conf>>
         ELSE /\ r \in Runtime
              /\ conf' = [conf EXCEPT ![r] = [watch |-> w, spec |-> reconciling.spec,
                                              dsn |-> reconciling.dsn]]
              /\ live' = live \cup {r}
              /\ registry' = [registry EXCEPT ![w] = r]
              /\ reconciling' = [reconciling EXCEPT !.step = "status", !.outcome = "started"]
      /\ UNCHANGED <<apiVars, queue, events, cursor, pending, due, task, clients, historyVars>>

\* refreshStatus leaves the Ready condition as it is; the others set it.
NewStatus(w) ==
  CASE reconciling.outcome = "started" -> [phase |-> "Running", ready |-> TRUE]
    [] reconciling.outcome = "failed" -> [phase |-> "Failed", ready |-> FALSE]
    [] OTHER -> [phase |-> "Running", ready |-> watchStatus[w].ready]

\* Mutant: the refresh of an unchanged watch does not come back.
RequeueOnChange(w) ==
  queue' = IF reconciling.outcome = "refreshed" THEN queue ELSE queue \cup {<<"watch", w>>}

\* Every way out asks for another Reconcile: RequeueAfter or an error.
Requeue(w) == queue' = queue \cup {<<"watch", w>>}

\* Status().Update fails when the object was edited or deleted after it was read,
\* or because the API server fails.
UpdateStatus ==
  LET w == reconciling.watch
  IN  /\ reconciling.step = "status"
      /\ reconciling' = Idle
      /\ Requeue(w)
      /\ \/ /\ watchSpec[w] = reconciling.spec
            /\ watchStatus' = [watchStatus EXCEPT ![w] = NewStatus(w)]
            /\ UNCHANGED <<allowed, edits>>
         \/ watchSpec[w] # reconciling.spec /\ UNCHANGED <<watchStatus, allowed, edits>>
         \/ Edit("api") /\ UNCHANGED watchStatus
      /\ UNCHANGED <<watchSpec, sourceSpec, dsnSecret, kubeSecret, regressions, registry, live,
                     workerVars, clients, historyVars>>
-----------------------------------------------------------------------------
(***************************************************************************)
(* A worker's loops.  A loop looks at its context only between ticks: one  *)
(* that has begun to handle what Tick returned goes on after Cancel.       *)
(***************************************************************************)
\* A regression Tick returned: of a deploy event, or (NoEvent) periodic.
\* confident: the score reaches autoAbort.confidenceThreshold.
Regression == [event : Event \cup {NoEvent}, confident : BOOLEAN]

\* The loop is at its select.  Of a cancelled worker it may still choose the ticker.
Spare(l) == conf[l[1]] \notin {NoConf, Gone} /\ due[l] = {} /\ task[l] = Idle

Drained(r) == {events[r][i] : i \in cursor[r] + 1 .. Len(events[r])}

\* Mutant: the cursor moves one past the events that were there.
CursorPastEnd(r) == Len(events[r]) + 1

\* DrainSince
CursorAfter(r) == Len(events[r])

\* pollLoop, up to the regressions Tick returns.
PollTick(r) ==
  /\ "regression" \in allowed.kinds
  /\ Spare(<<r, "deploy">>)
  /\ cursor' = [cursor EXCEPT ![r] = CursorAfter(r)]
  /\ \E kept \in SUBSET (pending[r] \cup Drained(r)) :
     \E found \in SUBSET ((pending[r] \cup Drained(r)) \ kept) :
       /\ pending' = [pending EXCEPT ![r] = kept]
       /\ \E sure \in SUBSET found :
            due' = [due EXCEPT ![<<r, "deploy">>] =
                      {[event |-> ev, confident |-> ev \in sure] : ev \in found}]
       /\ IF found = {} THEN UNCHANGED <<allowed, edits>> ELSE Edit("regression")
  /\ UNCHANGED <<watchSpec, watchStatus, sourceSpec, dsnSecret, kubeSecret, regressions, queue, 
                 registry, live, conf, events, task, clients, reconciling, historyVars>>

\* periodicPollLoop; its regressions have no event and are never aborted.
PeriodicTick(r) ==
  /\ Edit("regression") /\ Spare(<<r, "periodic">>) /\ conf[r].spec.periodic
  /\ due' = [due EXCEPT ![<<r, "periodic">>] = {[event |-> NoEvent, confident |-> FALSE]}]
  /\ UNCHANGED <<watchSpec, watchStatus, sourceSpec, dsnSecret, kubeSecret, regressions, queue,
                 registry, live, conf, events, cursor, pending, task, clients, reconciling,
                 historyVars>>

AutoAborts(r, reg) == HaveAborter /\ conf[r].spec.autoAbort /\ reg.confident

\* maybeAutoAbort, in the worker's context.  The lookup of the source may fail, which
\* counts as nothing to abort; once the context is cancelled the abort fails.
AbortOutcomes(r, reg) ==
  LET src == sourceSpec[reg.event.source]
  IN  IF ~AutoAborts(r, reg) THEN {"none"}
      ELSE IF src = Absent \/ src.type # "argo-rollouts" THEN {"none"}
      ELSE IF r \in live THEN {"none", "done", "error"} ELSE {"none", "error"}

\* A call that fails may have been carried out.
CarriedOut(abort, done) ==
  CASE abort = "none" -> {aborted}
    [] abort = "done" -> {aborted \cup {done}}
    [] abort = "error" -> {aborted, aborted \cup {done}}

\* Mutant: the outcome of an abort is not written into the regression.
TakeUpUntold(l, reg, abort) ==
  task' = [task EXCEPT ![l] = [step |-> "notify", reg |-> reg, abort |-> "none"]]

TakeUp(l, reg, abort) ==
  task' = [task EXCEPT ![l] = [step |-> "notify", reg |-> reg, abort |-> abort]]

\* The next of the regressions Tick returned, up to its alert.
HandleRegression(l) ==
  /\ task[l] = Idle
  /\ \E reg \in due[l] :
     \E abort \in AbortOutcomes(l[1], reg) :
       /\ due' = [due EXCEPT ![l] = @ \ {reg}]
       /\ TakeUp(l, reg, abort)
       /\ aborted' \in CarriedOut(abort, [worker |-> l[1], event |-> reg.event])
       /\ IF abort = "error" /\ l[1] \in live THEN Edit("abort") ELSE UNCHANGED <<allowed, edits>>
  /\ UNCHANGED <<watchSpec, watchStatus, sourceSpec, dsnSecret, kubeSecret, regressions, queue,
                 registry, live, conf, events, cursor, pending, clients, reconciling, alerted>>

\* Notify, in a context of its own; a failed delivery is only logged.
NotifyRegression(l) ==
  /\ task[l].step = "notify"
  /\ alerted' = alerted \cup {[worker |-> l[1], event |-> task[l].reg.event,
                               abort |-> task[l].abort]}
  /\ task' = [task EXCEPT ![l].step = "record"]
  /\ UNCHANGED <<apiVars, queue, registry, live, conf, events, cursor, pending, due, clients,
                 reconciling, aborted>>

RecordName(reg) == IF reg.event = NoEvent THEN PeriodicName ELSE Slug[reg.event.id]

Recorded(name, entry) ==
  [n \in DOMAIN regressions \cup {name} |-> IF n = name THEN entry ELSE regressions[n]]

\* recordRegression: create what is not there, owned by the watch if that exists,
\* then applyRegressionStatus in a call of its own.  Either call may fail, and what
\* was left undone is only logged.
RecordRegression(l) ==
  LET name == RecordName(task[l].reg)
      w == conf[l[1]].watch
      entry == IF name \in DOMAIN regressions THEN regressions[name]
               ELSE [owner |-> IF watchSpec[w] = Absent THEN "" ELSE w,
                     event |-> task[l].reg.event, abort |-> ""]
  IN  /\ task[l].step = "record"
      /\ task' = [task EXCEPT ![l] = Idle]
      /\ \/ /\ regressions' = Recorded(name, [entry EXCEPT !.abort = task[l].abort])
            /\ UNCHANGED <<allowed, edits>>
         \/ Edit("api") /\ regressions' \in {regressions, Recorded(name, entry)}
      /\ UNCHANGED <<watchSpec, watchStatus, sourceSpec, dsnSecret, kubeSecret, queue, registry,
                     live, conf, events, cursor, pending, due, clients, reconciling, historyVars>>

WorkerStep ==
  \/ \E r \in Runtime : PollTick(r) \/ PeriodicTick(r)
  \/ \E l \in Loop : HandleRegression(l) \/ NotifyRegression(l) \/ RecordRegression(l)

WatchStep ==
  \/ \E w \in Watch : ReconcileWatch(w)
  \/ StartWatch \/ UpdateStatus
-----------------------------------------------------------------------------
\* Exactly one worker is running for a watch that has one, and it is the one the
\* registry knows: a restart, a deletion or a failed start leaves no second scrape
\* and alert loop behind ("so we never leak a goroutine",
\* postgreswatch_controller.go:217-219).
LiveIsRegistered ==
  /\ \A r \in live : Started(r) /\ registry[conf[r].watch] = r
  /\ \A w \in Watch : registry[w] # None => registry[w] \in live /\ conf[registry[w]].watch = w

\* What a user is told of an abort is what happened: the alert that follows an abort
\* says it was triggered, and neither an alert nor a recorded regression says that
\* one succeeded when it did not ("visible on the resulting PerformanceRegression CR
\* and included in the Slack alert", postgreswatch_controller.go:811-814).
AbortIsTold ==
  /\ \A a \in aborted :
       LET t == task[<<a.worker, "deploy">>]
       IN  \/ \E n \in alerted : n.worker = a.worker /\ n.event = a.event /\ n.abort # "none"
           \/ t.step = "notify" /\ t.abort # "none" /\ t.reg.event = a.event
  /\ \A n \in alerted :
       n.abort = "done" => [worker |-> n.worker, event |-> n.event] \in aborted
  /\ \A name \in DOMAIN regressions :
       regressions[name].abort = "done" => \E a \in aborted : Slug[a.event.id] = name
=============================================================================
