---------------------------- MODULE ManagerProofs ----------------------------
(***************************************************************************)
(* Proofs about Manager, for any watches, sources, specs and faults.       *)
(* First, exactly one worker runs for a watch, the one in the registry,    *)
(* and no webhook route outlives the DeploySource it was made for.  Then,  *)
(* what alerts and recorded regressions say of an abort is what was done,  *)
(* and a rollout reaches the Stores no more often than it completed.       *)
(* Last, the types.                                                        *)
(***************************************************************************)
EXTENDS Manager, FiniteSetTheorems, TLAPS

\* The registry.  Workers are numbered in the order they were started, and a
\* Reconcile that is about to start one has none registered.
RegistryInv ==
  /\ registry \in [Watch -> Runtime \cup {None}]
  /\ live \subseteq Runtime
  /\ DOMAIN conf = Runtime
  /\ \A r \in live : conf[r].watch \in Watch
  /\ \E n \in 0 .. MaxRuntimes : \A r \in Runtime : Started(r) <=> r <= n
  /\ reconciling # Idle =>
       /\ DOMAIN reconciling = {"step", "watch", "spec", "dsn", "outcome"}
       /\ reconciling.watch \in Watch
       /\ reconciling.step \in {"start", "status"}
       /\ reconciling.step = "start" => registry[reconciling.watch] = None
  /\ LiveIsRegistered

\* The routes.  A route feeds a worker that was started, the worker a Reconcile
\* has looked up is one of the watch its source names, and the route is set by
\* the time the status is written.
RouteInv ==
  /\ routes \in [Source -> Runtime \cup {None}]
  /\ \A s \in Source : routes[s] # None => Started(routes[s])
  /\ DOMAIN sourceSpec = Source
  /\ sourcing # Idle =>
       /\ DOMAIN sourcing = {"step", "source", "spec", "runtime"}
       /\ sourcing.step \in {"route", "status"}
       /\ sourcing.source \in Source
       /\ sourcing.spec # Absent
       /\ sourcing.runtime \in Runtime \cup {None}
       /\ sourcing.runtime # None =>
            Started(sourcing.runtime) /\ conf[sourcing.runtime].watch = sourcing.spec.ref
       /\ sourcing.step = "status" => routes[sourcing.source] = RouteFor
  /\ NoOrphanRoute

ManagerInv == RegistryInv /\ RouteInv

\* None is no worker, and a configuration is never NoConf.
LEMMA Distinct ==
  /\ None \notin Runtime
  /\ Gone # NoConf
  /\ \A w, sp, d : [watch |-> w, spec |-> sp, dsn |-> d] # NoConf
<1>1. None \notin Runtime
  BY WatchControllerAssumption DEF None, Runtime
<1>2. DOMAIN Gone # DOMAIN NoConf
  BY Zenon DEF Gone, NoConf
<1>3. ASSUME NEW w, NEW sp, NEW d
      PROVE  DOMAIN [watch |-> w, spec |-> sp, dsn |-> d] # DOMAIN NoConf
  BY Zenon DEF NoConf
<1> QED BY Zenon, <1>1, <1>2, <1>3

LEMMA ManagerInit == Init => ManagerInv
<1> SUFFICES ASSUME Init PROVE ManagerInv
  BY Zenon
<1>0. /\ registry = [w \in Watch |-> None] /\ live = {}
      /\ conf = [r \in Runtime |-> NoConf] /\ reconciling = Idle
      /\ routes = [s \in Source |-> None] /\ sourcing = Idle
      /\ DOMAIN sourceSpec = Source
  BY Zenon DEF Init, WatchInit
<1>1. RegistryInv
  <2>1. \A r \in Runtime : ~Started(r)
    BY Zenon, <1>0 DEF Started
  <2>2. \E n \in 0 .. MaxRuntimes : \A r \in Runtime : Started(r) <=> r <= n
    <3>1. 0 \in 0 .. MaxRuntimes /\ \A r \in Runtime : ~(r <= 0)
      BY WatchControllerAssumption DEF Runtime
    <3> QED BY Zenon, <2>1, <3>1
  <2>3. LiveIsRegistered
    BY Zenon, <1>0 DEF LiveIsRegistered
  <2> QED BY Zenon, <1>0, <2>2, <2>3 DEF RegistryInv
<1>2. RouteInv
  BY Zenon, <1>0 DEF RouteInv, NoOrphanRoute
<1> QED BY Zenon, <1>1, <1>2 DEF ManagerInv
-----------------------------------------------------------------------------
(***************************************************************************)
(* Steps that leave the registry and the routes alone.                     *)
(***************************************************************************)
LEMMA RegistryUntouched ==
  ASSUME RegistryInv, UNCHANGED <<registry, live, conf, reconciling>>
  PROVE  RegistryInv'
BY Zenon DEF RegistryInv, LiveIsRegistered, Started

LEMMA RoutesUntouched ==
  ASSUME RouteInv, UNCHANGED <<routes, sourcing, sourceSpec, conf>>,
         \A s \in Source : <<"source", s>> \in queue => <<"source", s>> \in queue'
  PROVE  RouteInv'
BY Zenon DEF RouteInv, NoOrphanRoute, Started, RouteFor

\* Workers once started keep their configuration, so routes stay right while new
\* ones start.
LEMMA RoutesSurviveStart ==
  ASSUME RouteInv, UNCHANGED <<routes, sourcing, sourceSpec, queue>>,
         \A r \in Runtime : Started(r) => conf'[r] = conf[r]
  PROVE  RouteInv'
<1>1. \A r \in Runtime : Started(r) => Started(r)'
  BY Zenon DEF Started
<1>2. \A s \in Source : routes[s] # None =>
        routes[s] \in Runtime /\ Started(routes[s]) /\ conf'[routes[s]] = conf[routes[s]]
  BY Zenon DEF RouteInv
<1>3. NoOrphanRoute'
  BY Zenon, <1>2 DEF RouteInv, NoOrphanRoute
<1>4. sourcing # Idle /\ sourcing.runtime # None =>
        Started(sourcing.runtime)' /\ conf'[sourcing.runtime].watch = sourcing.spec.ref
  BY Zenon, <1>1 DEF RouteInv
<1> QED BY Zenon, <1>1, <1>2, <1>3, <1>4 DEF RouteInv, RouteFor
-----------------------------------------------------------------------------
(***************************************************************************)
(* PostgresWatchReconciler.                                                *)
(***************************************************************************)
\* What a Reconcile does up to its decision: stop a worker, with or without one to
\* start next, or leave it and go on to the status.
LEMMA ReconcileOutcome ==
  ASSUME NEW w \in Watch, ReconcileWatch(w)
  PROVE  \/ StopWatch(w) /\ UNCHANGED reconciling
         \/ /\ UNCHANGED <<live, registry>>
            /\ \E sp, d, o : reconciling' = [step |-> "status", watch |-> w, spec |-> sp,
                                             dsn |-> d, outcome |-> o]
         \/ /\ StopWatch(w)
            /\ \E sp, d, o : reconciling' = [step |-> "start", watch |-> w, spec |-> sp,
                                             dsn |-> d, outcome |-> o]
<1>1. \A d : ResolvesTo(w, d) =>
        \/ /\ UNCHANGED <<live, registry>>
           /\ \E sp, x, o : reconciling' = [step |-> "status", watch |-> w, spec |-> sp,
                                            dsn |-> x, outcome |-> o]
        \/ /\ StopWatch(w)
           /\ \E sp, x, o : reconciling' = [step |-> "start", watch |-> w, spec |-> sp,
                                            dsn |-> x, outcome |-> o]
  BY Zenon DEF ResolvesTo
<1>2. ResolveFails(w) =>
        /\ UNCHANGED <<live, registry>>
        /\ \E sp, d, o : reconciling' = [step |-> "status", watch |-> w, spec |-> sp,
                                         dsn |-> d, outcome |-> o]
  BY Zenon DEF ResolveFails
<1>3. ResolveDSN(w) => ResolveFails(w) \/ \E d : ResolvesTo(w, d)
  BY Zenon DEF ResolveDSN
<1> QED BY Zenon, <1>1, <1>2, <1>3 DEF ReconcileWatch

\* Stopping the registered worker of w leaves one worker for each other watch.
LEMMA StopKeeps ==
  ASSUME RegistryInv, NEW w \in Watch, StopWatch(w), UNCHANGED conf
  PROVE  /\ registry' \in [Watch -> Runtime \cup {None}]
         /\ registry'[w] = None
         /\ live' \subseteq live
         /\ LiveIsRegistered'
<1>1. /\ live' = live \ {registry[w]}
      /\ registry' = [registry EXCEPT ![w] = None]
      /\ registry \in [Watch -> Runtime \cup {None}]
      /\ \A r \in live : conf[r].watch \in Watch
  BY Zenon DEF StopWatch, RegistryInv
<1>2. registry' \in [Watch -> Runtime \cup {None}] /\ registry'[w] = None
      /\ \A v \in Watch \ {w} : registry'[v] = registry[v]
  BY Zenon, <1>1
<1>3. ASSUME NEW r \in live'
      PROVE  Started(r)' /\ registry'[conf'[r].watch] = r
  <2>1. r \in live /\ r # registry[w] /\ conf[r].watch \in Watch
    BY Zenon, <1>1, <1>3
  <2>2. Started(r) /\ registry[conf[r].watch] = r
    BY Zenon, <2>1 DEF RegistryInv, LiveIsRegistered
  <2> QED BY Zenon, <1>2, <2>1, <2>2 DEF Started
<1>4. ASSUME NEW v \in Watch, registry'[v] # None
      PROVE  registry'[v] \in live' /\ conf'[registry'[v]].watch = v
  <2>1. v # w /\ registry'[v] = registry[v]
    BY Zenon, <1>2, <1>4
  <2>2. registry[v] \in live /\ conf[registry[v]].watch = v
    BY Zenon, <1>4, <2>1 DEF RegistryInv, LiveIsRegistered
  <2>3. registry[w] # None => conf[registry[w]].watch = w
    BY Zenon DEF RegistryInv, LiveIsRegistered
  <2> QED BY Zenon, <1>1, <1>4, <2>1, <2>2, <2>3
<1> QED BY Zenon, <1>1, <1>2, <1>3, <1>4 DEF LiveIsRegistered

LEMMA ReconcileWatchStep ==
  ASSUME RegistryInv, NEW w \in Watch, ReconcileWatch(w)
  PROVE  RegistryInv'
<1>1. UNCHANGED conf /\ reconciling = Idle
  BY Zenon DEF ReconcileWatch, workerVars
<1>2. \E n \in 0 .. MaxRuntimes : \A r \in Runtime : Started(r)' <=> r <= n
  BY Zenon, <1>1 DEF RegistryInv, Started
<1>3. ASSUME NEW sp, NEW d, NEW o, NEW step \in {"start", "status"},
             reconciling' = [step |-> step, watch |-> w, spec |-> sp, dsn |-> d, outcome |-> o]
      PROVE  /\ DOMAIN reconciling' = {"step", "watch", "spec", "dsn", "outcome"}
             /\ reconciling'.watch = w /\ reconciling'.step = step
  BY Zenon, <1>3
<1>4. CASE StopWatch(w) /\ UNCHANGED reconciling
  BY Zenon, <1>1, <1>2, <1>4, StopKeeps DEF RegistryInv
<1>5. CASE /\ UNCHANGED <<live, registry>>
           /\ \E sp, d, o : reconciling' = [step |-> "status", watch |-> w, spec |-> sp,
                                            dsn |-> d, outcome |-> o]
  <2>1. /\ DOMAIN reconciling' = {"step", "watch", "spec", "dsn", "outcome"}
        /\ reconciling'.watch = w /\ reconciling'.step = "status"
    BY Zenon, <1>5, <1>3
  <2>2. LiveIsRegistered'
    BY Zenon, <1>1, <1>5 DEF RegistryInv, LiveIsRegistered, Started
  <2> QED BY Zenon, <1>1, <1>2, <1>5, <2>1, <2>2 DEF RegistryInv
<1>6. CASE /\ StopWatch(w)
           /\ \E sp, d, o : reconciling' = [step |-> "start", watch |-> w, spec |-> sp,
                                            dsn |-> d, outcome |-> o]
  <2>1. /\ DOMAIN reconciling' = {"step", "watch", "spec", "dsn", "outcome"}
        /\ reconciling'.watch = w /\ reconciling'.step = "start"
    BY Zenon, <1>6, <1>3
  <2>2. /\ registry' \in [Watch -> Runtime \cup {None}] /\ registry'[w] = None
        /\ live' \subseteq live /\ LiveIsRegistered'
    BY Zenon, <1>1, <1>6, StopKeeps
  <2> QED BY Zenon, <1>1, <1>2, <2>1, <2>2 DEF RegistryInv
<1> QED BY Zenon, <1>4, <1>5, <1>6, ReconcileOutcome

\* The number a new worker gets is free.
LEMMA NextRuntimeIsNew ==
  ASSUME RegistryInv, NextRuntime \in Runtime
  PROVE  /\ ~Started(NextRuntime)
         /\ \A r \in Runtime : Started(r) <=> r <= NextRuntime - 1
<1>1. PICK n \in 0 .. MaxRuntimes : \A r \in Runtime : Started(r) <=> r <= n
  BY Zenon DEF RegistryInv
<1>2. {r \in Runtime : Started(r)} = 1 .. n
  BY <1>1, WatchControllerAssumption DEF Runtime
<1>3. Cardinality(1 .. n) = n
  BY <1>1, FS_Interval, WatchControllerAssumption
<1>4. NextRuntime = 1 + n
  <2>1. Cardinality({r \in Runtime : Started(r)}) = n
    BY <1>2, <1>3, Zenon
  <2> QED BY Zenon, <2>1 DEF NextRuntime
<1> QED BY <1>1, <1>4

LEMMA StartWatchStep ==
  ASSUME RegistryInv, StartWatch
  PROVE  RegistryInv' /\ \A r \in Runtime : Started(r) => conf'[r] = conf[r]
<1> DEFINE w == reconciling.watch
<1>0. /\ reconciling # Idle /\ w \in Watch /\ registry[w] = None
      /\ DOMAIN reconciling = {"step", "watch", "spec", "dsn", "outcome"}
  BY DEF StartWatch, RegistryInv, Idle
<1>1. ASSUME NEW o, reconciling' = [reconciling EXCEPT !.step = "status", !.outcome = o]
      PROVE  /\ DOMAIN reconciling' = {"step", "watch", "spec", "dsn", "outcome"}
             /\ reconciling'.watch = w /\ reconciling'.step = "status"
  BY Zenon, <1>0, <1>1
<1>2. CASE UNCHANGED <<live, registry, conf>> /\
           reconciling' = [reconciling EXCEPT !.step = "status", !.outcome = "failed"]
  <2>1. /\ DOMAIN reconciling' = {"step", "watch", "spec", "dsn", "outcome"}
        /\ reconciling'.watch = w /\ reconciling'.step = "status"
    BY Zenon, <1>1, <1>2
  <2>2. LiveIsRegistered' /\ \E n \in 0 .. MaxRuntimes : \A r \in Runtime : Started(r)' <=> r <= n
    BY Zenon, <1>2 DEF RegistryInv, LiveIsRegistered, Started
  <2> QED BY Zenon, <1>0, <1>2, <2>1, <2>2 DEF RegistryInv
<1>3. CASE ~StartRefused(reconciling.spec, reconciling.dsn)
  <2>1. PICK r : r = NextRuntime
    BY Zenon
  <2>2. PICK c : c = [watch |-> w, spec |-> reconciling.spec, dsn |-> reconciling.dsn]
    BY Zenon
  <2>3. c # NoConf /\ c.watch = w
    BY Zenon, <2>2, Distinct
  <2>4. /\ r \in Runtime /\ conf' = [conf EXCEPT ![r] = c]
        /\ live' = live \cup {r} /\ registry' = [registry EXCEPT ![w] = r]
        /\ reconciling' = [reconciling EXCEPT !.step = "status", !.outcome = "started"]
    BY Zenon, <1>3, <2>1, <2>2 DEF StartWatch
  <2>5. ~Started(r) /\ \A x \in Runtime : Started(x) <=> x <= r - 1
    BY Zenon, <2>1, <2>4, NextRuntimeIsNew
  <2>6. /\ DOMAIN conf' = Runtime /\ conf'[r] = c
        /\ \A x \in Runtime \ {r} : conf'[x] = conf[x]
    BY Zenon, <2>4 DEF RegistryInv
  <2>7. \E n \in 0 .. MaxRuntimes : \A x \in Runtime : Started(x)' <=> x <= n
    <3>1. r \in 0 .. MaxRuntimes /\ r \in Int /\ Runtime \subseteq Int
      BY <2>4, WatchControllerAssumption DEF Runtime
    <3>2. ASSUME NEW x \in Runtime PROVE Started(x)' <=> x <= r
      <4>1. CASE x = r
        BY <2>3, <2>6, <3>1, <4>1 DEF Started
      <4>2. CASE x # r
        <5>1. Started(x)' <=> Started(x)
          BY Zenon, <2>6, <4>2 DEF Started
        <5> QED BY <2>5, <3>1, <4>2, <5>1
      <4> QED BY Zenon, <4>1, <4>2
    <3> QED BY Zenon, <3>1, <3>2
  <2>8. /\ registry' \in [Watch -> Runtime \cup {None}] /\ registry'[w] = r
        /\ \A v \in Watch \ {w} : registry'[v] = registry[v]
    BY Zenon, <1>0, <2>4 DEF RegistryInv
  <2>9. LiveIsRegistered'
    <3>1. ASSUME NEW x \in live
          PROVE  /\ Started(x)' /\ registry'[conf'[x].watch] = x /\ x # r
                 /\ conf'[x].watch \in Watch
      <4>1. /\ x \in Runtime /\ conf[x].watch \in Watch /\ Started(x)
            /\ registry[conf[x].watch] = x
        BY Zenon DEF RegistryInv, LiveIsRegistered
      <4>2. x # None
        BY Zenon, <4>1, Distinct
      <4>3. conf[x].watch # w
        BY Zenon, <1>0, <4>1, <4>2
      <4> QED BY Zenon, <2>5, <2>6, <2>8, <4>1, <4>3 DEF Started
    <3>2. Started(r)' /\ registry'[conf'[r].watch] = r
      BY Zenon, <2>3, <2>6, <2>8 DEF Started
    <3>3. ASSUME NEW v \in Watch, registry'[v] # None
          PROVE  registry'[v] \in live' /\ conf'[registry'[v]].watch = v
      <4>1. CASE v = w
        BY Zenon, <2>3, <2>4, <2>6, <2>8, <4>1
      <4>2. CASE v # w
        <5>1. registry[v] \in live /\ conf[registry[v]].watch = v
          BY Zenon, <2>8, <3>3, <4>2 DEF RegistryInv, LiveIsRegistered
        <5>2. registry[v] \in Runtime /\ registry[v] # r
          BY Zenon, <3>1, <5>1 DEF RegistryInv
        <5> QED BY Zenon, <2>4, <2>6, <2>8, <4>2, <5>1, <5>2
      <4> QED BY Zenon, <4>1, <4>2
    <3> QED BY Zenon, <2>4, <3>1, <3>2, <3>3 DEF LiveIsRegistered
  <2>10. \A x \in live' : conf'[x].watch \in Watch
    BY Zenon, <1>0, <2>3, <2>4, <2>5, <2>6 DEF RegistryInv, LiveIsRegistered
  <2>11. /\ DOMAIN reconciling' = {"step", "watch", "spec", "dsn", "outcome"}
         /\ reconciling'.watch = w /\ reconciling'.step = "status"
    BY Zenon, <1>1, <2>4
  <2>12. live' \subseteq Runtime
    BY Zenon, <2>4 DEF RegistryInv
  <2>13. RegistryInv'
    BY Zenon, <1>0, <2>6, <2>7, <2>8, <2>9, <2>10, <2>11, <2>12 DEF RegistryInv
  <2> QED BY Zenon, <2>5, <2>6, <2>13
<1> QED BY Zenon, <1>2, <1>3 DEF StartWatch

LEMMA UpdateStatusStep ==
  ASSUME RegistryInv, UpdateStatus
  PROVE  RegistryInv'
<1>1. UNCHANGED <<registry, live, conf>> /\ reconciling' = Idle
  BY Zenon DEF UpdateStatus, workerVars
<1>2. LiveIsRegistered' /\ \E n \in 0 .. MaxRuntimes : \A r \in Runtime : Started(r)' <=> r <= n
  BY Zenon, <1>1 DEF RegistryInv, LiveIsRegistered, Started
<1> QED BY Zenon, <1>1, <1>2 DEF RegistryInv
-----------------------------------------------------------------------------
(***************************************************************************)
(* DeploySourceReconciler.                                                 *)
(***************************************************************************)
LEMMA EditSourceStep ==
  ASSUME RouteInv, NEW s \in Source, NEW spec, EditSource(s, spec)
  PROVE  RouteInv'
<1>1. /\ UNCHANGED <<routes, sourcing, conf>> /\ queue' = queue \cup {<<"source", s>>}
      /\ sourceSpec' = [sourceSpec EXCEPT ![s] = spec]
  BY Zenon DEF EditSource, workerVars
<1>2. DOMAIN sourceSpec' = Source /\ \A t \in Source \ {s} : sourceSpec'[t] = sourceSpec[t]
  BY Zenon, <1>1 DEF RouteInv
<1>3. NoOrphanRoute'
  <2> SUFFICES ASSUME NEW t \in Source, routes[t] # None, <<"source", t>> \notin queue',
                      ~(sourcing # Idle /\ sourcing.source = t)
               PROVE  /\ sourceSpec'[t] # Absent /\ sourceSpec'[t].type # "kubernetes"
                      /\ sourceSpec'[t].ref = conf[routes[t]].watch
    BY Zenon, <1>1 DEF NoOrphanRoute
  <2>1. t # s /\ <<"source", t>> \notin queue
    BY Zenon, <1>1
  <2> QED BY Zenon, <1>2, <2>1 DEF RouteInv, NoOrphanRoute
<1> QED BY Zenon, <1>1, <1>2, <1>3 DEF RouteInv, Started, RouteFor

\* The worker a Reconcile finds in the registry is one of the watch it looked up.
LEMMA LookedUp ==
  ASSUME RegistryInv, NEW ref, NEW r, r = (IF ref \in Watch THEN registry[ref] ELSE None)
  PROVE  /\ r \in Runtime \cup {None}
         /\ r # None => Started(r) /\ conf[r].watch = ref
BY Zenon DEF RegistryInv, LiveIsRegistered

LEMMA ReconcileSourceStep ==
  ASSUME RegistryInv, RouteInv, NEW s \in Source, ReconcileSource(s)
  PROVE  RouteInv'
<1>1. /\ sourcing = Idle /\ queue' = queue \ {<<"source", s>>}
      /\ UNCHANGED <<sourceSpec, conf>>
  BY Zenon DEF ReconcileSource, apiVars, workerVars
<1>2. \A r : Started(r)' <=> Started(r)
  BY Zenon, <1>1 DEF Started
<1>3. CASE sourceSpec[s] = Absent
  <2>1. routes' = [routes EXCEPT ![s] = None] /\ sourcing' = Idle
    BY Zenon, <1>1, <1>3 DEF ReconcileSource
  <2>2. routes' \in [Source -> Runtime \cup {None}] /\ routes'[s] = None
        /\ \A t \in Source \ {s} : routes'[t] = routes[t]
    BY Zenon, <2>1 DEF RouteInv
  <2>3. NoOrphanRoute'
    <3> SUFFICES ASSUME NEW t \in Source, routes'[t] # None, <<"source", t>> \notin queue'
                 PROVE  /\ sourceSpec[t] # Absent /\ sourceSpec[t].type # "kubernetes"
                        /\ sourceSpec[t].ref = conf[routes'[t]].watch
      BY Zenon, <1>1 DEF NoOrphanRoute
    <3>1. t # s /\ routes'[t] = routes[t] /\ <<"source", t>> \notin queue
      BY Zenon, <1>1, <2>2
    <3> QED BY Zenon, <1>1, <3>1 DEF RouteInv, NoOrphanRoute
  <2> QED BY Zenon, <1>1, <1>2, <2>1, <2>2, <2>3 DEF RouteInv
<1>4. CASE sourceSpec[s] # Absent
  <2>1. PICK sp : sp = sourceSpec[s]
    BY Zenon
  <2>2. PICK r : r = IF sp.ref \in Watch THEN registry[sp.ref] ELSE None
    BY Zenon
  <2>3. /\ sourcing' = [step |-> "route", source |-> s, spec |-> sp, runtime |-> r]
        /\ UNCHANGED routes
    BY Zenon, <1>4, <2>1, <2>2 DEF ReconcileSource
  <2>4. /\ DOMAIN sourcing' = {"step", "source", "spec", "runtime"}
        /\ sourcing'.step = "route" /\ sourcing'.source = s
        /\ sourcing'.spec = sp /\ sourcing'.runtime = r
    BY Zenon, <2>3
  <2>5. r \in Runtime \cup {None} /\ (r # None => Started(r) /\ conf[r].watch = sp.ref)
    BY Zenon, <2>2, LookedUp
  <2>6. sourcing' # Idle
    BY <2>4 DEF Idle
  <2>7. NoOrphanRoute'
    <3> SUFFICES ASSUME NEW t \in Source, routes[t] # None, <<"source", t>> \notin queue', t # s
                 PROVE  /\ sourceSpec[t] # Absent /\ sourceSpec[t].type # "kubernetes"
                        /\ sourceSpec[t].ref = conf[routes[t]].watch
      BY Zenon, <1>1, <2>3, <2>4, <2>6 DEF NoOrphanRoute
    <3>1. <<"source", t>> \notin queue
      BY Zenon, <1>1
    <3> QED BY Zenon, <1>1, <3>1 DEF RouteInv, NoOrphanRoute
  <2> QED BY Zenon, <1>1, <1>2, <1>4, <2>1, <2>3, <2>4, <2>5, <2>6, <2>7 DEF RouteInv
<1> QED BY Zenon, <1>3, <1>4

LEMMA SetRouteStep ==
  ASSUME RouteInv, SetRoute
  PROVE  RouteInv'
<1>1. PICK s, r : s = sourcing.source /\ r = RouteFor
  BY Zenon
<1>2. /\ sourcing # Idle /\ s \in Source
      /\ DOMAIN sourcing = {"step", "source", "spec", "runtime"}
      /\ sourcing.runtime \in Runtime \cup {None} /\ sourcing.spec # Absent
      /\ sourcing.runtime # None =>
           Started(sourcing.runtime) /\ conf[sourcing.runtime].watch = sourcing.spec.ref
  BY <1>1 DEF SetRoute, RouteInv, Idle
<1>3. /\ routes' = [routes EXCEPT ![s] = r]
      /\ sourcing' = [sourcing EXCEPT !.step = "status"]
      /\ UNCHANGED <<queue, sourceSpec, conf>>
  BY Zenon, <1>1 DEF SetRoute, watchVars, apiVars, workerVars
<1>4. /\ DOMAIN sourcing' = {"step", "source", "spec", "runtime"} /\ sourcing'.step = "status"
      /\ sourcing'.source = s /\ sourcing'.spec = sourcing.spec
      /\ sourcing'.runtime = sourcing.runtime
  BY Zenon, <1>1, <1>2, <1>3
<1>5. r \in Runtime \cup {None} /\ (r # None => Started(r)) /\ RouteFor' = r
  BY Zenon, <1>1, <1>2, <1>4 DEF RouteFor
<1>6. /\ routes' \in [Source -> Runtime \cup {None}] /\ routes'[s] = r
      /\ \A t \in Source \ {s} : routes'[t] = routes[t]
  BY Zenon, <1>2, <1>3, <1>5 DEF RouteInv
<1>7. \A x : Started(x)' <=> Started(x)
  BY Zenon, <1>3 DEF Started
<1>8. sourcing' # Idle
  BY <1>4 DEF Idle
<1>9. NoOrphanRoute'
  <2> SUFFICES ASSUME NEW t \in Source, routes'[t] # None, <<"source", t>> \notin queue, t # s
               PROVE  /\ sourceSpec[t] # Absent /\ sourceSpec[t].type # "kubernetes"
                      /\ sourceSpec[t].ref = conf[routes'[t]].watch
    BY Zenon, <1>3, <1>4, <1>8 DEF NoOrphanRoute
  <2> QED BY Zenon, <1>1, <1>6 DEF RouteInv, NoOrphanRoute
<1>10. (\A t \in Source : routes[t] # None => Started(routes[t]))'
  BY Zenon, <1>3, <1>5, <1>6 DEF RouteInv, Started
<1> QED BY Zenon, <1>2, <1>3, <1>4, <1>5, <1>6, <1>7, <1>9, <1>10 DEF RouteInv

LEMMA UpdateSourceStatusStep ==
  ASSUME RouteInv, UpdateSourceStatus
  PROVE  RouteInv'
<1>1. PICK s : s = sourcing.source
  BY Zenon
<1>2. /\ sourcing # Idle /\ s \in Source /\ sourcing.spec # Absent
      /\ sourcing.runtime # None => conf[sourcing.runtime].watch = sourcing.spec.ref
      /\ routes[s] = RouteFor
  BY <1>1 DEF UpdateSourceStatus, RouteInv, Idle
<1>3. sourcing' = Idle /\ UNCHANGED <<routes, sourceSpec, conf>>
  BY Zenon DEF UpdateSourceStatus, workerVars
<1>4. \/ queue' = queue \cup {<<"source", s>>}
      \/ queue' = queue /\ sourceSpec[s] = sourcing.spec /\ sourcing.runtime # None
  BY Zenon, <1>1 DEF UpdateSourceStatus, RequeueSource
<1>5. NoOrphanRoute'
  <2> SUFFICES ASSUME NEW t \in Source, routes[t] # None, <<"source", t>> \notin queue'
               PROVE  /\ sourceSpec[t] # Absent /\ sourceSpec[t].type # "kubernetes"
                      /\ sourceSpec[t].ref = conf[routes[t]].watch
    BY Zenon, <1>3 DEF NoOrphanRoute
  <2>1. <<"source", t>> \notin queue
    BY Zenon, <1>4
  <2>2. CASE t = s
    <3>1. sourceSpec[s] = sourcing.spec /\ sourcing.runtime # None
      BY Zenon, <1>4, <2>2
    <3>2. sourcing.spec.type # "kubernetes" /\ routes[s] = sourcing.runtime
      BY Zenon, <1>2, <2>2 DEF RouteFor
    <3> QED BY Zenon, <1>2, <2>2, <3>1, <3>2
  <2>3. CASE t # s
    BY Zenon, <1>1, <2>1, <2>3 DEF RouteInv, NoOrphanRoute
  <2> QED BY Zenon, <2>2, <2>3
<1> QED BY Zenon, <1>3, <1>5 DEF RouteInv, Started
-----------------------------------------------------------------------------
\* The process starts anew: nothing runs and nothing is routed.
LEMMA CrashStep ==
  ASSUME ManagerInv, NEW ws, NEW ss, Crash(ws, ss)
  PROVE  ManagerInv'
<1>1. /\ registry' = [w \in Watch |-> None] /\ live' = {} /\ reconciling' = Idle
      /\ conf' = [r \in Runtime |-> IF Started(r) THEN Gone ELSE NoConf]
      /\ routes' = [s \in Source |-> None] /\ sourcing' = Idle /\ UNCHANGED sourceSpec
  BY Zenon DEF Crash
<1>2. \A r \in Runtime : Started(r)' <=> Started(r)
  BY Zenon, <1>1, Distinct DEF Started
<1>3. \E n \in 0 .. MaxRuntimes : \A r \in Runtime : Started(r)' <=> r <= n
  BY Zenon, <1>2 DEF ManagerInv, RegistryInv
<1>4. LiveIsRegistered'
  BY Zenon, <1>1 DEF LiveIsRegistered
<1>5. RegistryInv'
  BY Zenon, <1>1, <1>3, <1>4 DEF RegistryInv
<1>6. RouteInv'
  BY Zenon, <1>1 DEF ManagerInv, RouteInv, NoOrphanRoute
<1> QED BY Zenon, <1>5, <1>6 DEF ManagerInv

\* A source request in the queue stays there.
SourcesStayQueued ==
  \A s \in Source : <<"source", s>> \in queue => <<"source", s>> \in queue'

\* Worker loops, edits and workload reconciles leave the registry and the routes alone.
LEMMA Bystanders ==
  ASSUME \/ (WatchEdit \/ WorkerStep \/ Sweep) /\ UNCHANGED <<sourceVars, workloadVars>>
         \/ WorkloadStep \/ RollOn \/ DeleteWorkload
         \/ \E s \in Source, id \in WebhookID : Webhook(s, id)
         \/ \E kind \in Kind, rev \in Revision : EditWorkload(kind, rev)
         \/ \E q \in Request : Resync(q)
  PROVE  /\ UNCHANGED <<registry, live, conf, reconciling, routes, sourcing, sourceSpec>>
         /\ SourcesStayQueued
<1> USE DEF SourcesStayQueued
<1>1. CASE WatchEdit /\ UNCHANGED <<sourceVars, workloadVars>>
  BY Zenon, <1>1 DEF WatchEdit, EditWatch, EditDSNSecret, EditKubeconfig, ClientBreaks, workerVars,
              sourceVars
<1>2. CASE WorkerStep /\ UNCHANGED <<sourceVars, workloadVars>>
  <2>1. ASSUME NEW r \in Runtime, PollTick(r) \/ PeriodicTick(r)
        PROVE  UNCHANGED <<registry, live, conf, reconciling, sourceSpec, queue>>
    BY Zenon, <2>1 DEF PollTick, PeriodicTick
  <2>2. ASSUME NEW l \in Loop, HandleRegression(l) \/ NotifyRegression(l) \/ RecordRegression(l)
        PROVE  UNCHANGED <<registry, live, conf, reconciling, sourceSpec, queue>>
    BY Zenon, <2>2 DEF HandleRegression, NotifyRegression, RecordRegression, apiVars
  <2> QED BY Zenon, <1>2, <2>1, <2>2 DEF WorkerStep, sourceVars
<1>3. CASE Sweep /\ UNCHANGED <<sourceVars, workloadVars>>
  BY Zenon, <1>3 DEF Sweep, apiVars, workerVars, sourceVars
<1>4. CASE WorkloadStep
  <2>1. \A s \in Source : <<"source", s>> # App
    BY Zenon DEF App
  <2>2. UNCHANGED <<registry, live, conf, reconciling, routes, sourcing, sourceSpec>>
    BY Zenon, <1>4 DEF WorkloadStep, ReconcileWorkload, TakeMatch, AddRollout, EndReport, apiVars,
                workerVars, watchVars, sourceVars
  <2>3. queue' = queue \ {App} \/ queue \subseteq queue'
    BY Zenon, <1>4 DEF WorkloadStep, ReconcileWorkload, TakeMatch, AddRollout, EndReport,
                RetryIfNeeded, watchVars
  <2> QED BY Zenon, <2>1, <2>2, <2>3
<1>5. CASE RollOn \/ DeleteWorkload
           \/ \E kind \in Kind, rev \in Revision : EditWorkload(kind, rev)
  <2>1. WorkloadChange
    BY Zenon, <1>5 DEF RollOn, DeleteWorkload, EditWorkload
  <2> QED BY Zenon, <2>1 DEF WorkloadChange, workerVars, sourceVars
<1>6. CASE \E s \in Source, id \in WebhookID : Webhook(s, id)
  BY Zenon, <1>6 DEF Webhook, sourceVars
<1>7. CASE \E q \in Request : Resync(q)
  BY Zenon, <1>7 DEF Resync, workerVars, sourceVars
<1> QED BY Zenon, <1>1, <1>2, <1>3, <1>4, <1>5, <1>6, <1>7

LEMMA ManagerStep == ManagerInv /\ [Next]_vars => ManagerInv'
<1> SUFFICES ASSUME ManagerInv, [Next]_vars PROVE ManagerInv'
  BY Zenon
<1> USE DEF ManagerInv
<1>1. CASE Environment
  <2>1. CASE \E s \in Source, spec \in SourceSpec \cup {Absent} : EditSource(s, spec)
    <3>1. PICK s \in Source, spec \in SourceSpec \cup {Absent} : EditSource(s, spec)
      BY Zenon, <2>1
    <3>2. UNCHANGED <<registry, live, conf, reconciling>>
      BY Zenon, <3>1 DEF EditSource, workerVars
    <3> QED BY Zenon, <3>1, <3>2, EditSourceStep, RegistryUntouched
  <2>2. CASE \E ws \in SUBSET Watch, ss \in SUBSET Source : Crash(ws, ss)
    BY Zenon, <2>2, CrashStep
  <2>3. CASE \/ DeleteWorkload
             \/ \E s \in Source, id \in WebhookID : Webhook(s, id)
             \/ \E kind \in Kind, rev \in Revision : EditWorkload(kind, rev)
             \/ \E q \in Request : Resync(q)
    BY Zenon, <2>3, Bystanders, RegistryUntouched, RoutesUntouched DEF SourcesStayQueued
  <2> QED BY Zenon, <1>1, <2>1, <2>2, <2>3 DEF Environment
<1>2. CASE (WatchEdit \/ WorkerStep \/ Sweep) /\ UNCHANGED <<sourceVars, workloadVars>>
  BY Zenon, <1>2, Bystanders, RegistryUntouched, RoutesUntouched DEF SourcesStayQueued
<1>3. CASE WatchStep /\ UNCHANGED <<sourceVars, workloadVars>>
  <2>0. UNCHANGED <<routes, sourcing>>
    BY Zenon, <1>3 DEF sourceVars
  <2>1. CASE \E w \in Watch : ReconcileWatch(w)
    <3>1. PICK w \in Watch : ReconcileWatch(w)
      BY Zenon, <2>1
    <3>2. UNCHANGED <<conf, sourceSpec>> /\ queue' = queue \ {<<"watch", w>>}
      BY Zenon, <3>1 DEF ReconcileWatch, apiVars, workerVars
    <3> QED BY Zenon, <2>0, <3>1, <3>2, ReconcileWatchStep, RoutesUntouched
  <2>2. CASE StartWatch
    <3>1. UNCHANGED <<sourceSpec, queue>>
      BY Zenon, <2>2 DEF StartWatch, apiVars
    <3> QED BY Zenon, <2>0, <2>2, <3>1, StartWatchStep, RoutesSurviveStart
  <2>3. CASE UpdateStatus
    <3>1. UNCHANGED <<conf, sourceSpec>> /\ queue \subseteq queue'
      BY Zenon, <2>3 DEF UpdateStatus, Requeue, workerVars
    <3> QED BY Zenon, <2>0, <2>3, <3>1, UpdateStatusStep, RoutesUntouched
  <2> QED BY Zenon, <1>3, <2>1, <2>2, <2>3 DEF WatchStep
<1>4. CASE SourceStep
  <2>1. UNCHANGED <<registry, live, conf, reconciling>>
    BY Zenon, <1>4 DEF SourceStep, ReconcileSource, SetRoute, UpdateSourceStatus, watchVars, workerVars
  <2> QED BY Zenon, <1>4, <2>1, RegistryUntouched, ReconcileSourceStep, SetRouteStep,
             UpdateSourceStatusStep DEF SourceStep
<1>5. CASE WorkloadStep \/ RollOn
  BY Zenon, <1>5, Bystanders, RegistryUntouched, RoutesUntouched DEF SourcesStayQueued
<1>6. CASE UNCHANGED vars
  BY Zenon, <1>6, RegistryUntouched, RoutesUntouched DEF vars, watchVars, sourceVars, workerVars, apiVars
<1> QED BY Zenon, <1>1, <1>2, <1>3, <1>4, <1>5, <1>6 DEF Next

\* One worker runs for a watch, the one the registry knows (Reconcile, stopWatch,
\* startWatch), whatever edits, faults and restarts there are and however many watches.
THEOREM OneWorkerPerWatch == ManagerSpec => []LiveIsRegistered
<1>1. ManagerInv => LiveIsRegistered
  BY Zenon DEF ManagerInv, RegistryInv
<1> QED BY <1>1, ManagerInit, ManagerStep, PTL DEF ManagerSpec

\* A webhook route belongs to a DeploySource that exists, takes webhooks and names the
\* watch whose worker it feeds, or is about to be reconciled (DynamicMux, Reconcile).
THEOREM RoutesHaveOwners == ManagerSpec => []NoOrphanRoute
<1>1. ManagerInv => NoOrphanRoute
  BY Zenon DEF ManagerInv, RouteInv
<1> QED BY <1>1, ManagerInit, ManagerStep, PTL DEF ManagerSpec
-----------------------------------------------------------------------------
\* What reaches a Store, and with it analysis, is a deploy event.
StoreInv ==
  /\ events \in [Runtime -> Seq(Event)]
  /\ cursor \in [Runtime -> Nat]
  /\ pending \in [Runtime -> SUBSET Event]

\* The rollout a Reconcile reports has a revision and belongs to a source.
RolloutInv ==
  /\ workload # Absent =>
       /\ DOMAIN workload = {"kind", "rev", "stage", "old"}
       /\ workload.rev \in Revision /\ workload.old \in Revision \cup {""}
  /\ reporting # Idle =>
       /\ DOMAIN reporting = {"step", "rev", "left", "source", "runtime", "requeue"}
       /\ reporting.rev \in Revision
       /\ \A m \in reporting.left : m[1] \in Source
       /\ reporting.step = "add" => reporting.source \in Source

\* Only a deploy's regression can be confident enough to abort.
DueInv ==
  /\ due \in [Loop -> SUBSET Regression]
  /\ \A l \in Loop : \A reg \in due[l] :
       reg.confident => l[2] = "deploy" /\ reg.event \in Event

Done(r, ev) == [worker |-> r, event |-> ev]

\* A regression on its way from the abort to its alert, and from there to its
\* object, carries what was done.
TaskInv ==
  /\ DOMAIN task = Loop
  /\ \A l \in Loop :
       task[l] # Idle =>
         /\ DOMAIN task[l] = {"step", "reg", "abort"}
         /\ task[l].abort # "none" => l[2] = "deploy" /\ task[l].reg.event \in Event
         /\ task[l].step = "notify" /\ task[l].abort = "done"
              => Done(l[1], task[l].reg.event) \in aborted
         /\ task[l].step = "record" /\ task[l].abort = "done"
              => \E n \in alerted : n.abort = "done" /\ n.event = task[l].reg.event

ToldInv ==
  /\ \A a \in aborted :
       /\ a.worker \in Runtime
       /\ LET t == task[<<a.worker, "deploy">>]
          IN  \/ \E n \in alerted : n.worker = a.worker /\ n.event = a.event /\ n.abort # "none"
              \/ t.step = "notify" /\ t.abort # "none" /\ t.reg.event = a.event
  /\ \A n \in alerted : n.abort = "done" => Done(n.worker, n.event) \in aborted
  /\ \A name \in DOMAIN regressions :
       /\ "abort" \in DOMAIN regressions[name]
       /\ regressions[name].abort = "done"
            => \E n \in alerted : n.abort = "done" /\ Slug[n.event.id] = name

FeedInv == StoreInv /\ RolloutInv
TellInv == DueInv /\ TaskInv /\ ToldInv

feedVars == <<events, cursor, pending, workload, reporting>>
tellVars == <<due, task, aborted, alerted, regressions>>

AbortInv == FeedInv /\ TellInv

\* No event is NoEvent, and no loop is idle in the middle of a regression.
LEMMA RealEvents == NoEvent \notin Event
<1>1. <<>> \notin Source \X Revision
  OBVIOUS
<1> QED BY Zenon, <1>1, WatchControllerAssumption DEF NoEvent, Event, EventID

LEMMA AbortInit == Init => AbortInv
<1> SUFFICES ASSUME Init PROVE AbortInv
  BY Zenon
<1>1. /\ events = [r \in Runtime |-> <<>>] /\ cursor = [r \in Runtime |-> 0]
      /\ pending = [r \in Runtime |-> {}] /\ workload = Absent /\ reporting = Idle
      /\ due = [l \in Loop |-> {}] /\ task = [l \in Loop |-> Idle]
      /\ aborted = {} /\ alerted = {} /\ regressions = [n \in {} |-> n]
  BY Zenon DEF Init, WatchInit
<1>2. FeedInv
  BY <1>1 DEF FeedInv, StoreInv, RolloutInv
<1>3. TellInv
  BY Zenon, <1>1 DEF TellInv, DueInv, TaskInv, ToldInv
<1> QED BY Zenon, <1>2, <1>3 DEF AbortInv

LEMMA FeedUnchanged == FeedInv /\ UNCHANGED feedVars => FeedInv'
BY Zenon DEF FeedInv, StoreInv, RolloutInv, feedVars

LEMMA TaskUnchanged ==
  ASSUME TaskInv, ToldInv, UNCHANGED <<task, aborted, alerted, regressions>>
  PROVE  TaskInv' /\ ToldInv'
<1>1. TaskInv'
  BY Zenon DEF TaskInv
<1>2. ToldInv'
  BY Zenon DEF ToldInv
<1> QED BY Zenon, <1>1, <1>2

LEMMA TellUnchanged == TellInv /\ UNCHANGED tellVars => TellInv'
BY Zenon, TaskUnchanged DEF TellInv, DueInv, tellVars
-----------------------------------------------------------------------------
(***************************************************************************)
(* What reaches the Stores.                                                *)
(***************************************************************************)
\* Store.Add keeps the Stores sequences of events.
LEMMA AddKeeps ==
  ASSUME StoreInv, NEW r, NEW ev \in Event, AddTo(r, ev), UNCHANGED <<cursor, pending>>
  PROVE  StoreInv'
<1>1. ASSUME NEW x \in Runtime PROVE Append(events[x], ev) \in Seq(Event)
  BY DEF StoreInv
<1>2. events' \in [Runtime -> Seq(Event)]
  BY Zenon, <1>1 DEF StoreInv, AddTo
<1> QED BY Zenon, <1>2 DEF StoreInv

LEMMA WebhookStep ==
  ASSUME AbortInv, NEW s \in Source, NEW id \in WebhookID, Webhook(s, id)
  PROVE  AbortInv'
<1>1. [id |-> id, source |-> s] \in Event
  BY Zenon DEF Event, EventID
<1>2. StoreInv'
  <2>1. AddTo(routes[s], [id |-> id, source |-> s]) /\ UNCHANGED <<cursor, pending>>
    BY Zenon DEF Webhook
  <2> QED BY Zenon, <1>1, <2>1, AddKeeps DEF AbortInv, FeedInv
<1>3. RolloutInv' /\ UNCHANGED tellVars
  BY Zenon DEF Webhook, AbortInv, FeedInv, RolloutInv, workloadVars, historyVars, tellVars
<1> QED BY Zenon, <1>2, <1>3, TellUnchanged DEF AbortInv, FeedInv

LEMMA WorkloadEditStep ==
  ASSUME AbortInv,
         \/ \E kind \in Kind, rev \in Revision : EditWorkload(kind, rev)
         \/ DeleteWorkload \/ RollOn
  PROVE  AbortInv'
<1>0. WorkloadChange
  BY Zenon DEF EditWorkload, DeleteWorkload, RollOn
<1>1. UNCHANGED <<events, cursor, pending, reporting>> /\ UNCHANGED tellVars
  BY Zenon, <1>0 DEF WorkloadChange, workerVars, historyVars, tellVars
<1>2. RolloutInv'
  <2>1. CASE \E kind \in Kind, rev \in Revision : EditWorkload(kind, rev)
    <3>1. PICK kind \in Kind, rev \in Revision :
            workload' = [kind |-> kind, rev |-> rev, stage |-> "edited",
                         old |-> IF workload = Absent THEN "" ELSE workload.rev]
      BY Zenon, <2>1 DEF EditWorkload
    <3>2. workload # Absent => workload.rev \in Revision
      BY Zenon DEF AbortInv, FeedInv, RolloutInv
    <3>3. /\ DOMAIN workload' = {"kind", "rev", "stage", "old"}
          /\ workload'.rev \in Revision /\ workload'.old \in Revision \cup {""}
      BY Zenon, <3>1, <3>2
    <3> QED BY Zenon, <1>1, <3>3 DEF AbortInv, FeedInv, RolloutInv
  <2>2. CASE DeleteWorkload
    BY Zenon, <1>1, <2>2 DEF DeleteWorkload, AbortInv, FeedInv, RolloutInv
  <2>3. CASE RollOn
    <3>1. workload # Absent /\ workload' = [workload EXCEPT !.stage = NextStage(@)]
      BY Zenon, <2>3 DEF RollOn
    <3>2. DOMAIN workload' = DOMAIN workload /\ workload'.rev = workload.rev
          /\ workload'.old = workload.old
      BY Zenon, <3>1 DEF AbortInv, FeedInv, RolloutInv
    <3> QED BY Zenon, <1>1, <3>1, <3>2 DEF AbortInv, FeedInv, RolloutInv
  <2> QED BY Zenon, <2>1, <2>2, <2>3
<1> QED BY Zenon, <1>1, <1>2, TellUnchanged DEF AbortInv, FeedInv, StoreInv

LEMMA ReconcileWorkloadStep ==
  ASSUME AbortInv, ReconcileWorkload
  PROVE  AbortInv'
<1>1. UNCHANGED <<events, cursor, pending, workload>> /\ UNCHANGED tellVars
  BY Zenon DEF ReconcileWorkload, workerVars, apiVars, historyVars, tellVars
<1>2. workload # Absent =>
        StatusOf(workload).updateRevision \in Revision \cup {""}
  BY Zenon DEF AbortInv, FeedInv, RolloutInv, StatusOf
<1>3. \/ UNCHANGED reporting
      \/ /\ workload # Absent
         /\ \E M \in SUBSET Source : \E rev \in Revision :
              reporting' = [step |-> "match", rev |-> rev,
                            left |-> {<<s, sourceSpec[s].ref>> : s \in M},
                            source |-> "", runtime |-> None, requeue |-> FALSE]
  BY Zenon, <1>2 DEF ReconcileWorkload
<1>4. RolloutInv'
  <2>1. CASE UNCHANGED reporting
    BY Zenon, <1>1, <2>1 DEF AbortInv, FeedInv, RolloutInv
  <2>2. CASE ~UNCHANGED reporting
    <3>1. PICK M \in SUBSET Source, rev \in Revision :
            reporting' = [step |-> "match", rev |-> rev,
                          left |-> {<<s, sourceSpec[s].ref>> : s \in M},
                          source |-> "", runtime |-> None, requeue |-> FALSE]
      BY Zenon, <1>3, <2>2
    <3>2. \A m \in {<<s, sourceSpec[s].ref>> : s \in M} : m[1] \in Source
      OBVIOUS
    <3>3. /\ DOMAIN reporting' = {"step", "rev", "left", "source", "runtime", "requeue"}
          /\ reporting'.rev \in Revision /\ reporting'.step = "match"
          /\ \A m \in reporting'.left : m[1] \in Source
      BY Zenon, <3>1, <3>2
    <3> QED BY Zenon, <1>1, <3>3 DEF AbortInv, FeedInv, RolloutInv
  <2> QED BY Zenon, <2>1, <2>2
<1> QED BY Zenon, <1>1, <1>4, TellUnchanged DEF AbortInv, FeedInv, StoreInv

LEMMA TakeMatchStep ==
  ASSUME AbortInv, TakeMatch
  PROVE  AbortInv'
<1>1. /\ UNCHANGED <<events, cursor, pending, workload>> /\ UNCHANGED tellVars
      /\ reporting.step = "match"
  BY Zenon DEF TakeMatch, watchVars, workerVars, apiVars, historyVars, tellVars
<1>2. reporting # Idle
  BY <1>1 DEF Idle
<1>3. PICK m \in reporting.left :
        LET rest == [reporting EXCEPT !.left = @ \ {m}]
        IN  \/ reporting' = rest
            \/ reporting' = [rest EXCEPT !.requeue = TRUE]
            \/ \E rt : reporting' = [rest EXCEPT !.step = "add", !.source = m[1], !.runtime = rt]
  BY Zenon DEF TakeMatch
<1>4. /\ DOMAIN reporting = {"step", "rev", "left", "source", "runtime", "requeue"}
      /\ reporting.rev \in Revision
      /\ \A x \in reporting.left : x[1] \in Source
  BY Zenon, <1>2 DEF AbortInv, FeedInv, RolloutInv
<1>5. /\ DOMAIN reporting' = DOMAIN reporting
      /\ reporting'.rev = reporting.rev
      /\ reporting'.left = reporting.left \ {m}
      /\ reporting'.step = "match" \/ reporting'.source = m[1]
  BY Zenon, <1>1, <1>3, <1>4
<1>6. RolloutInv'
  BY Zenon, <1>1, <1>4, <1>5 DEF AbortInv, FeedInv, RolloutInv
<1> QED BY Zenon, <1>1, <1>6, TellUnchanged DEF AbortInv, FeedInv, StoreInv

LEMMA AddRolloutStep ==
  ASSUME AbortInv, AddRollout
  PROVE  AbortInv'
<1>0. /\ reporting.step = "add"
      /\ AddTo(reporting.runtime, [id |-> <<reporting.source, reporting.rev>>,
                                   source |-> reporting.source])
      /\ reporting' = [reporting EXCEPT !.step = "match", !.source = "", !.runtime = None]
      /\ UNCHANGED <<cursor, pending, workload>> /\ UNCHANGED tellVars
  BY Zenon DEF AddRollout, apiVars, historyVars, tellVars
<1>1. reporting # Idle
  BY <1>0 DEF Idle
<1>2. [id |-> <<reporting.source, reporting.rev>>, source |-> reporting.source] \in Event
  BY Zenon, <1>0, <1>1 DEF AbortInv, FeedInv, RolloutInv, Event, EventID
<1>3. StoreInv'
  BY Zenon, <1>0, <1>2, AddKeeps DEF AbortInv, FeedInv
<1>4. RolloutInv'
  BY Zenon, <1>0, <1>1 DEF AbortInv, FeedInv, RolloutInv
<1> QED BY Zenon, <1>0, <1>3, <1>4, TellUnchanged DEF AbortInv, FeedInv

LEMMA EndReportStep ==
  ASSUME AbortInv, EndReport
  PROVE  AbortInv'
<1>1. UNCHANGED <<events, cursor, pending, workload>> /\ UNCHANGED tellVars /\ reporting' = Idle
  BY Zenon DEF EndReport, workerVars, apiVars, historyVars, tellVars
<1> QED BY Zenon, <1>1, TellUnchanged DEF AbortInv, FeedInv, StoreInv, RolloutInv
-----------------------------------------------------------------------------
(***************************************************************************)
(* From Tick's return value to the alert and the object.                   *)
(***************************************************************************)
LEMMA PollTickStep ==
  ASSUME AbortInv, NEW r \in Runtime, PollTick(r), UNCHANGED <<workload, reporting>>
  PROVE  AbortInv'
<1> DEFINE seen == pending[r] \cup Drained(r)
           l == <<r, "deploy">>
<1>0. /\ UNCHANGED <<events, task, aborted, alerted, regressions>>
      /\ cursor' = [cursor EXCEPT ![r] = CursorAfter(r)]
  BY Zenon DEF PollTick, historyVars
<1>a. PICK kept \in SUBSET seen :
        \E found \in SUBSET (seen \ kept) :
          /\ pending' = [pending EXCEPT ![r] = kept]
          /\ \E sure \in SUBSET found :
               due' = [due EXCEPT ![l] =
                         {[event |-> ev, confident |-> ev \in sure] : ev \in found}]
  BY Zenon DEF PollTick
<1>b. PICK found \in SUBSET (seen \ kept) :
          /\ pending' = [pending EXCEPT ![r] = kept]
          /\ \E sure \in SUBSET found :
               due' = [due EXCEPT ![l] =
                         {[event |-> ev, confident |-> ev \in sure] : ev \in found}]
  BY Zenon, <1>a
<1>1. PICK sure \in SUBSET found :
        due' = [due EXCEPT ![l] = {[event |-> ev, confident |-> ev \in sure] : ev \in found}]
  BY Zenon, <1>b
<1>2. seen \subseteq Event
  <2>1. \A i \in cursor[r] + 1 .. Len(events[r]) : events[r][i] \in Event
    BY DEF AbortInv, FeedInv, StoreInv
  <2> QED BY Zenon, <2>1 DEF AbortInv, FeedInv, StoreInv, Drained
<1>3. StoreInv'
  <2>1. CursorAfter(r) \in Nat
    BY DEF AbortInv, FeedInv, StoreInv, CursorAfter
  <2> QED BY Zenon, <1>0, <1>b, <1>2, <2>1 DEF AbortInv, FeedInv, StoreInv
<1>4. RolloutInv'
  BY Zenon DEF AbortInv, FeedInv, RolloutInv
<1>5. DueInv'
  <2> DEFINE R == {[event |-> ev, confident |-> ev \in sure] : ev \in found}
  <2>0. ASSUME NEW ev \in found
        PROVE  [event |-> ev, confident |-> ev \in sure] \in Regression
    <3>1. ev \in Event
      BY Zenon, <1>2
    <3>2. CASE ev \in sure
      <4>1. [event |-> ev, confident |-> TRUE] \in Regression
        BY Zenon, <3>1 DEF Regression
      <4>2. (ev \in sure) = TRUE
        BY Zenon, <3>2
      <4> QED BY <4>1, <4>2, Zenon
    <3>3. CASE ev \notin sure
      <4>1. [event |-> ev, confident |-> FALSE] \in Regression
        BY Zenon, <3>1 DEF Regression
      <4>2. (ev \in sure) = FALSE
        BY <3>3
      <4> QED BY <4>1, <4>2, Zenon
    <3> QED BY Zenon, <3>2, <3>3
  <2>1. \A reg \in R : reg \in Regression /\ reg.event \in Event
    BY <1>2, <2>0
  <2>2. l \in Loop /\ l[2] = "deploy"
    BY Zenon DEF Loop
  <2>3. due' = [due EXCEPT ![l] = R]
    BY Zenon, <1>1
  <2> HIDE DEF R, l
  <2> QED BY Zenon, <2>1, <2>2, <2>3 DEF AbortInv, TellInv, DueInv
<1>6. TaskInv' /\ ToldInv'
  <2>1. TaskInv /\ ToldInv
    BY Zenon DEF AbortInv, TellInv
  <2>2. UNCHANGED <<task, aborted, alerted, regressions>>
    BY Zenon, <1>0
  <2> QED BY Zenon, <2>1, <2>2, TaskUnchanged
<1> QED BY Zenon, <1>3, <1>4, <1>5, <1>6 DEF AbortInv, FeedInv, TellInv

LEMMA PeriodicTickStep ==
  ASSUME AbortInv, NEW r \in Runtime, PeriodicTick(r), UNCHANGED <<workload, reporting>>
  PROVE  AbortInv'
<1> DEFINE l == <<r, "periodic">>
           reg == [event |-> NoEvent, confident |-> FALSE]
<1>0. /\ UNCHANGED feedVars /\ UNCHANGED <<task, aborted, alerted, regressions>>
      /\ due' = [due EXCEPT ![l] = {reg}]
  BY Zenon DEF PeriodicTick, historyVars, feedVars
<1>1. reg \in Regression /\ ~reg.confident /\ l \in Loop
  BY Zenon DEF Regression, Loop
<1>2. DueInv'
  <2> HIDE DEF reg, l
  <2> QED BY Zenon, <1>0, <1>1 DEF AbortInv, TellInv, DueInv
<1>3. TaskInv' /\ ToldInv'
  <2>1. TaskInv /\ ToldInv
    BY Zenon DEF AbortInv, TellInv
  <2>2. UNCHANGED <<task, aborted, alerted, regressions>>
    BY Zenon, <1>0
  <2> QED BY Zenon, <2>1, <2>2, TaskUnchanged
<1> QED BY Zenon, <1>0, <1>2, <1>3, FeedUnchanged DEF AbortInv, TellInv

\* Taking up a regression: its abort is carried out, or not, and noted.
LEMMA HandleStep ==
  ASSUME AbortInv, NEW l \in Loop, HandleRegression(l), UNCHANGED <<workload, reporting>>
  PROVE  AbortInv'
<1>0. /\ UNCHANGED feedVars /\ UNCHANGED <<alerted, regressions>> /\ task[l] = Idle
  BY Zenon DEF HandleRegression, feedVars
<1>a. PICK reg \in due[l] :
        \E abort \in AbortOutcomes(l[1], reg) :
          /\ due' = [due EXCEPT ![l] = @ \ {reg}]
          /\ TakeUp(l, reg, abort)
          /\ aborted' \in CarriedOut(abort, [worker |-> l[1], event |-> reg.event])
  BY Zenon DEF HandleRegression
<1>1. PICK abort \in AbortOutcomes(l[1], reg) :
        /\ due' = [due EXCEPT ![l] = @ \ {reg}]
        /\ TakeUp(l, reg, abort)
        /\ aborted' \in CarriedOut(abort, [worker |-> l[1], event |-> reg.event])
  BY Zenon, <1>a
<1> DEFINE done == Done(l[1], reg.event)
<1>2. /\ abort \in {"none", "done", "error"}
      /\ abort # "none" => l[2] = "deploy" /\ reg.event \in Event
  <2>1. abort \in {"none", "done", "error"} /\ (abort # "none" => reg.confident)
    BY Zenon, <1>1 DEF AbortOutcomes, AutoAborts
  <2> QED BY Zenon, <1>1, <2>1 DEF AbortInv, TellInv, DueInv
<1>3. /\ aborted \subseteq aborted' /\ aborted' \subseteq aborted \cup {done}
      /\ abort = "none" => aborted' = aborted
      /\ abort = "done" => done \in aborted'
  BY Zenon, <1>1, <1>2 DEF CarriedOut, Done
<1>4. task' = [task EXCEPT ![l] = [step |-> "notify", reg |-> reg, abort |-> abort]]
  BY Zenon, <1>1 DEF TakeUp
<1>5. l[1] \in Runtime /\ l = <<l[1], l[2]>>
  BY DEF Loop
<1>6. DueInv'
  BY Zenon, <1>1 DEF AbortInv, TellInv, DueInv
<1> HIDE DEF done
<1>7. TaskInv'
  <2>1. \A k \in Loop : k # l => task'[k] = task[k]
    BY Zenon, <1>4 DEF AbortInv, TellInv, TaskInv
  <2>2. task'[l] = [step |-> "notify", reg |-> reg, abort |-> abort]
    BY Zenon, <1>4 DEF AbortInv, TellInv, TaskInv
  <2>3. DOMAIN task' = Loop
    BY Zenon, <1>4 DEF AbortInv, TellInv, TaskInv
  <2>4. ASSUME NEW k \in Loop, task'[k] # Idle
        PROVE  /\ DOMAIN task'[k] = {"step", "reg", "abort"}
               /\ task'[k].abort # "none" => k[2] = "deploy" /\ task'[k].reg.event \in Event
               /\ task'[k].step = "notify" /\ task'[k].abort = "done"
                    => Done(k[1], task'[k].reg.event) \in aborted'
               /\ task'[k].step = "record" /\ task'[k].abort = "done"
                    => \E n \in alerted' : n.abort = "done" /\ n.event = task'[k].reg.event
    <3>1. CASE k = l
      <4>1. /\ DOMAIN task'[k] = {"step", "reg", "abort"} /\ task'[k].step = "notify"
            /\ task'[k].reg = reg /\ task'[k].abort = abort
        BY <2>2, <3>1
      <4>2. abort = "done" => Done(k[1], reg.event) \in aborted'
        BY Zenon, <1>3, <3>1 DEF done
      <4> QED BY Zenon, <1>2, <3>1, <4>1, <4>2
    <3>2. CASE k # l
      <4>1. task'[k] = task[k] /\ aborted \subseteq aborted' /\ alerted' = alerted
        BY Zenon, <1>0, <1>3, <2>1, <3>2
      <4>2. TaskInv /\ task[k] # Idle
        BY Zenon, <2>4, <4>1 DEF AbortInv, TellInv
      <4>3. /\ DOMAIN task[k] = {"step", "reg", "abort"}
            /\ task[k].abort # "none" => k[2] = "deploy" /\ task[k].reg.event \in Event
            /\ task[k].step = "notify" /\ task[k].abort = "done"
                 => Done(k[1], task[k].reg.event) \in aborted
            /\ task[k].step = "record" /\ task[k].abort = "done"
                 => \E n \in alerted : n.abort = "done" /\ n.event = task[k].reg.event
        BY Zenon, <4>2 DEF TaskInv
      <4> QED BY Zenon, <4>1, <4>3
    <3> QED BY Zenon, <3>1, <3>2
  <2> QED BY Zenon, <2>3, <2>4 DEF TaskInv
<1>8. ToldInv'
  <2>1. ASSUME NEW a \in aborted'
        PROVE  /\ a.worker \in Runtime
               /\ \/ \E n \in alerted' : n.worker = a.worker /\ n.event = a.event /\ n.abort # "none"
                  \/ /\ task'[<<a.worker, "deploy">>].step = "notify"
                     /\ task'[<<a.worker, "deploy">>].abort # "none"
                     /\ task'[<<a.worker, "deploy">>].reg.event = a.event
    <3>1. CASE a \in aborted
      <4>1. a.worker \in Runtime /\ <<a.worker, "deploy">> \in Loop
        BY Zenon, <3>1 DEF AbortInv, TellInv, ToldInv, Loop
      <4>2. CASE <<a.worker, "deploy">> = l
        <5>0. task[<<a.worker, "deploy">>] = Idle
          BY Zenon, <1>0, <4>2
        <5>1. task[<<a.worker, "deploy">>].step = "idle"
          BY <5>0 DEF Idle
        <5>2. \E n \in alerted : n.worker = a.worker /\ n.event = a.event /\ n.abort # "none"
          BY Zenon, <3>1, <5>1 DEF AbortInv, TellInv, ToldInv
        <5> QED BY Zenon, <1>0, <4>1, <5>2
      <4>3. CASE <<a.worker, "deploy">> # l
        <5>1. task'[<<a.worker, "deploy">>] = task[<<a.worker, "deploy">>]
          BY Zenon, <1>4, <4>1, <4>3 DEF AbortInv, TellInv, TaskInv
        <5>2. \/ \E n \in alerted : n.worker = a.worker /\ n.event = a.event /\ n.abort # "none"
              \/ /\ task[<<a.worker, "deploy">>].step = "notify"
                 /\ task[<<a.worker, "deploy">>].abort # "none"
                 /\ task[<<a.worker, "deploy">>].reg.event = a.event
          BY Zenon, <3>1 DEF AbortInv, TellInv, ToldInv
        <5> QED BY Zenon, <1>0, <4>1, <5>1, <5>2
      <4> QED BY Zenon, <4>2, <4>3
    <3>2. CASE a \notin aborted
      <4>1. a = done /\ abort # "none"
        BY Zenon, <1>3, <3>2
      <4>2. a.worker = l[1] /\ a.event = reg.event
        BY Zenon, <4>1 DEF done, Done
      <4>3. <<a.worker, "deploy">> = l
        BY Zenon, <1>2, <1>5, <4>1, <4>2
      <4>4. task'[l] = [step |-> "notify", reg |-> reg, abort |-> abort]
        BY Zenon, <1>4 DEF AbortInv, TellInv, TaskInv
      <4> QED BY <1>5, <4>1, <4>2, <4>3, <4>4
    <3> QED BY Zenon, <3>1, <3>2
  <2>2. \A n \in alerted' : n.abort = "done" => Done(n.worker, n.event) \in aborted'
    BY Zenon, <1>0, <1>3 DEF AbortInv, TellInv, ToldInv
  <2>3. \A name \in DOMAIN regressions' :
          /\ "abort" \in DOMAIN regressions'[name]
          /\ regressions'[name].abort = "done"
               => \E n \in alerted' : n.abort = "done" /\ Slug[n.event.id] = name
    BY Zenon, <1>0 DEF AbortInv, TellInv, ToldInv
  <2> QED BY Zenon, <2>1, <2>2, <2>3 DEF ToldInv
<1> QED BY Zenon, <1>0, <1>6, <1>7, <1>8, FeedUnchanged DEF AbortInv, TellInv

LEMMA NotifyStep ==
  ASSUME AbortInv, NEW l \in Loop, NotifyRegression(l), UNCHANGED <<workload, reporting>>
  PROVE  AbortInv'
<1> DEFINE new == [worker |-> l[1], event |-> task[l].reg.event, abort |-> task[l].abort]
<1>0. /\ UNCHANGED feedVars /\ UNCHANGED <<due, aborted, regressions>>
      /\ task[l].step = "notify" /\ alerted' = alerted \cup {new}
      /\ task' = [task EXCEPT ![l].step = "record"]
  BY Zenon DEF NotifyRegression, apiVars, feedVars
<1>1. task[l] # Idle
  BY <1>0 DEF Idle
<1>2. /\ DOMAIN task' = Loop
      /\ \A k \in Loop : k # l => task'[k] = task[k]
      /\ task'[l] = [task[l] EXCEPT !.step = "record"]
  BY Zenon, <1>0 DEF AbortInv, TellInv, TaskInv
<1>3. /\ DOMAIN task'[l] = {"step", "reg", "abort"} /\ task'[l].step = "record"
      /\ task'[l].reg = task[l].reg /\ task'[l].abort = task[l].abort
  BY Zenon, <1>1, <1>2 DEF AbortInv, TellInv, TaskInv
<1>4. /\ new.worker = l[1] /\ new.event = task[l].reg.event /\ new.abort = task[l].abort
      /\ new \in alerted' /\ alerted \subseteq alerted'
  BY Zenon, <1>0
<1> HIDE DEF new
<1>5. TaskInv'
  <2>1. ASSUME NEW k \in Loop, task'[k] # Idle
        PROVE  /\ DOMAIN task'[k] = {"step", "reg", "abort"}
               /\ task'[k].abort # "none" => k[2] = "deploy" /\ task'[k].reg.event \in Event
               /\ task'[k].step = "notify" /\ task'[k].abort = "done"
                    => Done(k[1], task'[k].reg.event) \in aborted'
               /\ task'[k].step = "record" /\ task'[k].abort = "done"
                    => \E n \in alerted' : n.abort = "done" /\ n.event = task'[k].reg.event
    <3>1. CASE k = l
      BY Zenon, <1>1, <1>3, <1>4, <3>1 DEF AbortInv, TellInv, TaskInv
    <3>2. CASE k # l
      BY <1>0, <1>2, <1>4, <2>1, <3>2 DEF AbortInv, TellInv, TaskInv
    <3> QED BY Zenon, <3>1, <3>2
  <2> QED BY Zenon, <1>2, <2>1 DEF TaskInv
<1>6. ToldInv'
  <2>1. ASSUME NEW a \in aborted'
        PROVE  /\ a.worker \in Runtime
               /\ \/ \E n \in alerted' : n.worker = a.worker /\ n.event = a.event /\ n.abort # "none"
                  \/ /\ task'[<<a.worker, "deploy">>].step = "notify"
                     /\ task'[<<a.worker, "deploy">>].abort # "none"
                     /\ task'[<<a.worker, "deploy">>].reg.event = a.event
    <3>1. a \in aborted /\ a.worker \in Runtime /\ <<a.worker, "deploy">> \in Loop
      BY Zenon, <1>0 DEF AbortInv, TellInv, ToldInv, Loop
    <3>2. CASE <<a.worker, "deploy">> = l
      <4>1. a.worker = l[1]
        BY Zenon, <3>2
      <4>2. \/ \E n \in alerted : n.worker = a.worker /\ n.event = a.event /\ n.abort # "none"
            \/ task[l].abort # "none" /\ task[l].reg.event = a.event
        BY Zenon, <3>1, <3>2 DEF AbortInv, TellInv, ToldInv
      <4>3. CASE task[l].abort # "none" /\ task[l].reg.event = a.event
        <5>1. new.worker = a.worker /\ new.event = a.event /\ new.abort # "none"
          BY Zenon, <1>4, <4>1, <4>3
        <5> QED BY Zenon, <1>4, <3>1, <5>1
      <4> QED BY Zenon, <1>4, <3>1, <4>2, <4>3
    <3>3. CASE <<a.worker, "deploy">> # l
      BY <1>2, <1>4, <3>1, <3>3 DEF AbortInv, TellInv, ToldInv
    <3> QED BY Zenon, <3>2, <3>3
  <2>2. \A n \in alerted' : n.abort = "done" => Done(n.worker, n.event) \in aborted'
    <3>1. new.abort = "done" => Done(new.worker, new.event) \in aborted
      BY Zenon, <1>0, <1>1, <1>4 DEF AbortInv, TellInv, TaskInv
    <3> QED BY Zenon, <1>0, <3>1 DEF AbortInv, TellInv, ToldInv
  <2>3. \A name \in DOMAIN regressions' :
          /\ "abort" \in DOMAIN regressions'[name]
          /\ regressions'[name].abort = "done"
               => \E n \in alerted' : n.abort = "done" /\ Slug[n.event.id] = name
    BY Zenon, <1>0, <1>4 DEF AbortInv, TellInv, ToldInv
  <2> QED BY Zenon, <2>1, <2>2, <2>3 DEF ToldInv
<1>7. DueInv'
  BY Zenon, <1>0 DEF AbortInv, TellInv, DueInv
<1> QED BY Zenon, <1>0, <1>5, <1>6, <1>7, FeedUnchanged DEF AbortInv, TellInv

LEMMA RecordStep ==
  ASSUME AbortInv, NEW l \in Loop, RecordRegression(l), UNCHANGED <<workload, reporting>>
  PROVE  AbortInv'
<1> DEFINE name == RecordName(task[l].reg)
           w == conf[l[1]].watch
           entry == IF name \in DOMAIN regressions THEN regressions[name]
                    ELSE [owner |-> IF watchSpec[w] = Absent THEN "" ELSE w,
                          event |-> task[l].reg.event, abort |-> ""]
<1>0. /\ UNCHANGED feedVars /\ UNCHANGED <<due, aborted, alerted>>
      /\ task[l].step = "record" /\ task' = [task EXCEPT ![l] = Idle]
      /\ \/ regressions' = Recorded(name, [entry EXCEPT !.abort = task[l].abort])
         \/ regressions' = regressions \/ regressions' = Recorded(name, entry)
  BY Zenon DEF RecordRegression, historyVars, feedVars
<1>1. task[l] # Idle
  <2>1. task[l].step = "record"
    BY Zenon, <1>0
  <2> QED BY <2>1 DEF Idle
<1>2. /\ DOMAIN task' = Loop /\ task'[l] = Idle
      /\ \A k \in Loop : k # l => task'[k] = task[k]
  BY Zenon, <1>0 DEF AbortInv, TellInv, TaskInv
<1>3. TaskInv'
  BY ZenonT(40), <1>0, <1>2 DEF AbortInv, TellInv, TaskInv
<1>4. ToldInv'
  <2>1. ASSUME NEW a \in aborted'
        PROVE  /\ a.worker \in Runtime
               /\ \/ \E n \in alerted' : n.worker = a.worker /\ n.event = a.event /\ n.abort # "none"
                  \/ /\ task'[<<a.worker, "deploy">>].step = "notify"
                     /\ task'[<<a.worker, "deploy">>].abort # "none"
                     /\ task'[<<a.worker, "deploy">>].reg.event = a.event
    <3>1. a \in aborted /\ a.worker \in Runtime /\ <<a.worker, "deploy">> \in Loop
      BY Zenon, <1>0 DEF AbortInv, TellInv, ToldInv, Loop
    <3>2. CASE <<a.worker, "deploy">> = l
      BY Zenon, <1>0, <3>1, <3>2 DEF AbortInv, TellInv, ToldInv
    <3>3. CASE <<a.worker, "deploy">> # l
      BY Zenon, <1>0, <1>2, <3>1, <3>3 DEF AbortInv, TellInv, ToldInv
    <3> QED BY Zenon, <3>2, <3>3
  <2>2. \A n \in alerted' : n.abort = "done" => Done(n.worker, n.event) \in aborted'
    BY Zenon, <1>0 DEF AbortInv, TellInv, ToldInv
  <2>3. "abort" \in DOMAIN entry
    BY Zenon DEF AbortInv, TellInv, ToldInv
  <2>4. entry.abort = "done" => \E n \in alerted : n.abort = "done" /\ Slug[n.event.id] = name
    BY Zenon DEF AbortInv, TellInv, ToldInv
  <2>5. task[l].abort = "done" => \E n \in alerted : n.abort = "done" /\ Slug[n.event.id] = name
    BY Zenon, <1>0, <1>1, RealEvents DEF AbortInv, TellInv, TaskInv, RecordName
  <2>6. \A x : [entry EXCEPT !.abort = x].abort = x /\ "abort" \in DOMAIN [entry EXCEPT !.abort = x]
    BY Zenon, <2>3
  <2> HIDE DEF name, entry
  <2>7. \E e : /\ regressions' = regressions \/ regressions' = Recorded(name, e)
               /\ "abort" \in DOMAIN e
               /\ e.abort = "done" => \E n \in alerted : n.abort = "done" /\ Slug[n.event.id] = name
    BY <1>0, <2>3, <2>4, <2>5, <2>6
  <2>8. \A m \in DOMAIN regressions' :
          /\ "abort" \in DOMAIN regressions'[m]
          /\ regressions'[m].abort = "done"
               => \E n \in alerted' : n.abort = "done" /\ Slug[n.event.id] = m
    BY <1>0, <2>7 DEF AbortInv, TellInv, ToldInv, Recorded
  <2> QED BY Zenon, <2>1, <2>2, <2>8 DEF ToldInv
<1>5. DueInv'
  BY Zenon, <1>0 DEF AbortInv, TellInv, DueInv
<1> QED BY Zenon, <1>0, <1>3, <1>4, <1>5, FeedUnchanged DEF AbortInv, TellInv

LEMMA CrashKeeps ==
  ASSUME AbortInv, NEW ws \in SUBSET Watch, NEW ss \in SUBSET Source, Crash(ws, ss)
  PROVE  AbortInv'
<1>0. /\ events' = [r \in Runtime |-> <<>>] /\ cursor' = [r \in Runtime |-> 0]
      /\ pending' = [r \in Runtime |-> {}] /\ reporting' = Idle
      /\ due' = [k \in Loop |-> {}] /\ task' = [k \in Loop |-> Idle]
      /\ aborted' = {a \in aborted : \E n \in alerted :
                       n.worker = a.worker /\ n.event = a.event /\ n.abort # "none"}
      /\ UNCHANGED <<regressions, alerted, workload>>
  BY Zenon DEF Crash
<1>1. FeedInv'
  <2>1. StoreInv'
    <3>1. <<>> \in Seq(Event)
      OBVIOUS
    <3>2. events' \in [Runtime -> Seq(Event)]
      BY Zenon, <1>0, <3>1
    <3>3. cursor' \in [Runtime -> Nat] /\ pending' \in [Runtime -> SUBSET Event]
      BY Zenon, <1>0
    <3> QED BY Zenon, <3>2, <3>3 DEF StoreInv
  <2>2. RolloutInv'
    BY Zenon, <1>0 DEF AbortInv, FeedInv, RolloutInv
  <2> QED BY Zenon, <2>1, <2>2 DEF FeedInv
<1>2. DueInv' /\ TaskInv'
  BY Zenon, <1>0 DEF DueInv, TaskInv
<1>3. ToldInv'
  <2>1. \A n \in alerted : n.abort = "done" => Done(n.worker, n.event) \in aborted'
    <3> SUFFICES ASSUME NEW n \in alerted, n.abort = "done"
                 PROVE  Done(n.worker, n.event) \in aborted'
      BY Zenon
    <3>1. Done(n.worker, n.event) \in aborted
      BY Zenon DEF AbortInv, TellInv, ToldInv
    <3>2. Done(n.worker, n.event).worker = n.worker /\ Done(n.worker, n.event).event = n.event
      BY Zenon DEF Done
    <3> QED BY Zenon, <1>0, <3>1, <3>2
  <2> QED BY Zenon, <1>0, <2>1 DEF AbortInv, TellInv, ToldInv
<1> QED BY Zenon, <1>1, <1>2, <1>3 DEF AbortInv, TellInv
-----------------------------------------------------------------------------
\* Reconciling watches and sources, sweeps and edits touch none of this.
LEMMA Uninvolved ==
  ASSUME \/ (WatchEdit \/ WatchStep \/ Sweep) /\ UNCHANGED workloadVars
         \/ SourceStep
         \/ \E s \in Source, spec \in SourceSpec \cup {Absent} : EditSource(s, spec)
         \/ \E q \in Request : Resync(q)
         \/ UNCHANGED vars
  PROVE  UNCHANGED feedVars /\ UNCHANGED tellVars
<1> USE DEF feedVars, tellVars, apiVars, workerVars, historyVars, watchVars, workloadVars
<1>1. CASE WatchEdit /\ UNCHANGED workloadVars
  BY Zenon, <1>1 DEF WatchEdit, EditWatch, EditDSNSecret, EditKubeconfig, ClientBreaks
<1>2. CASE WatchStep /\ UNCHANGED workloadVars
  BY Zenon, <1>2 DEF WatchStep, ReconcileWatch, StartWatch, UpdateStatus
<1>3. CASE Sweep /\ UNCHANGED workloadVars
  BY Zenon, <1>3 DEF Sweep
<1>4. CASE SourceStep
  BY Zenon, <1>4 DEF SourceStep, ReconcileSource, SetRoute, UpdateSourceStatus
<1>5. CASE \E s \in Source, spec \in SourceSpec \cup {Absent} : EditSource(s, spec)
  BY Zenon, <1>5 DEF EditSource
<1>6. CASE \E q \in Request : Resync(q)
  BY Zenon, <1>6 DEF Resync
<1>7. CASE UNCHANGED vars
  BY Zenon, <1>7 DEF vars
<1> QED BY Zenon, <1>1, <1>2, <1>3, <1>4, <1>5, <1>6, <1>7

LEMMA AbortStep == AbortInv /\ [Next]_vars => AbortInv'
<1> SUFFICES ASSUME AbortInv, [Next]_vars PROVE AbortInv'
  BY Zenon
<1>1. CASE Environment
  BY Zenon, <1>1, WebhookStep, WorkloadEditStep, CrashKeeps, Uninvolved, FeedUnchanged, TellUnchanged
  DEF Environment, AbortInv
<1>2. CASE WorkerStep /\ UNCHANGED <<sourceVars, workloadVars>>
  <2>1. UNCHANGED <<workload, reporting>>
    BY Zenon, <1>2 DEF workloadVars
  <2> QED BY Zenon, <1>2, <2>1, PollTickStep, PeriodicTickStep, HandleStep, NotifyStep, RecordStep
          DEF WorkerStep
<1>3. CASE WorkloadStep \/ RollOn
  BY Zenon, <1>3, ReconcileWorkloadStep, TakeMatchStep, AddRolloutStep, EndReportStep, WorkloadEditStep
  DEF WorkloadStep
<1>4. CASE \/ (WatchEdit \/ WatchStep \/ Sweep) /\ UNCHANGED workloadVars
           \/ SourceStep \/ UNCHANGED vars
  BY Zenon, <1>4, Uninvolved, FeedUnchanged, TellUnchanged DEF AbortInv
<1> QED BY Zenon, <1>1, <1>2, <1>3, <1>4 DEF Next

\* An abort that was carried out is told of in the alert that follows it, and
\* neither an alert nor a recorded regression claims one that was not, whatever
\* fails, is edited or is replaced in between (postgreswatch_controller.go:732-906).
THEOREM AbortsAreTold == ManagerSpec => []AbortIsTold
<1>1. AbortInv => AbortIsTold
  <2> SUFFICES ASSUME AbortInv PROVE AbortIsTold
    BY Zenon
  <2>1. \A name \in DOMAIN regressions :
          regressions[name].abort = "done" => \E a \in aborted : Slug[a.event.id] = name
    <3> SUFFICES ASSUME NEW name \in DOMAIN regressions, regressions[name].abort = "done"
                 PROVE  \E a \in aborted : Slug[a.event.id] = name
      BY Zenon
    <3>1. PICK n \in alerted : n.abort = "done" /\ Slug[n.event.id] = name
      BY Zenon DEF AbortInv, TellInv, ToldInv
    <3>2. Done(n.worker, n.event) \in aborted /\ Done(n.worker, n.event).event = n.event
      BY Zenon, <3>1 DEF AbortInv, TellInv, ToldInv, Done
    <3> QED BY Zenon, <3>1, <3>2
  <2> QED BY Zenon, <2>1 DEF AbortInv, TellInv, ToldInv, AbortIsTold, Done
<1> QED BY <1>1, AbortInit, AbortStep, PTL DEF ManagerSpec
-----------------------------------------------------------------------------
(***************************************************************************)
(* How often a rollout reaches analysis.                                   *)
(***************************************************************************)
Holders(s, rev) == {r \in Runtime : \E i \in DOMAIN events[r] : events[r][i].id = <<s, rev>>}
Copies(s, rev) == Cardinality(Holders(s, rev))

IsDone(rev) == workload # Absent /\ workload.stage = "done" /\ workload.rev = rev

\* A rollout is in no more Stores than it completed times.  There is room for
\* one more when the rollout that is complete was not the last one reported for
\* the source, or may stop being that because a Reconcile that saw another
\* revision is still reporting it, and when a Reconcile has yet to report it.
OnceAt(s, rev) ==
  /\ Copies(s, rev) <= completions[rev]
  /\ IsDone(rev) => completions[rev] >= 1
  /\ /\ IsDone(rev)
     /\ lastRevision[s] # rev \/ (reporting # Idle /\ reporting.rev # rev)
     => Copies(s, rev) < completions[rev]
  /\ reporting # Idle /\ reporting.rev = rev /\ lastRevision[s] # rev
     => Copies(s, rev) < completions[rev]

RolloutStages == {"edited", "rolling", "surging", "done"}

OnceInv ==
  /\ completions \in [Revision -> Nat]
  /\ DOMAIN lastRevision = Source
  /\ workload # Absent => workload.old # workload.rev /\ workload.stage \in RolloutStages
  /\ reporting # Idle /\ reporting.step = "add" => lastRevision[reporting.source] # reporting.rev
  /\ \A s \in Source, rev \in Revision : OnceAt(s, rev)

onceVars == <<events, workload, lastRevision, reporting, completions>>

LEMMA CopiesTyped ==
  ASSUME NEW s, NEW rev
  PROVE  /\ IsFiniteSet(Holders(s, rev)) /\ Copies(s, rev) \in Nat
         /\ Copies(s, rev)' \in Nat
<1>1. IsFiniteSet(Runtime)
  BY WatchControllerAssumption, FS_Interval DEF Runtime
<1>2. Holders(s, rev) \subseteq Runtime /\ Holders(s, rev)' \subseteq Runtime
  BY Zenon DEF Holders
<1>3. IsFiniteSet(Holders(s, rev)) /\ IsFiniteSet(Holders(s, rev)')
  BY Zenon, <1>1, <1>2, FS_Subset
<1>4. Cardinality(Holders(s, rev)) \in Nat /\ Cardinality(Holders(s, rev)') \in Nat
  BY Zenon, <1>3, FS_CardinalityType
<1> QED BY Zenon, <1>3, <1>4 DEF Copies

LEMMA OnceUnchanged == OnceInv /\ UNCHANGED onceVars => OnceInv'
BY ZenonT(40) DEF OnceInv, OnceAt, Copies, Holders, IsDone, onceVars

\* Store.Add gives the event it adds one holder more, and no other event any.
LEMMA AddHolders ==
  ASSUME StoreInv, NEW r, NEW ev, AddTo(r, ev), NEW s, NEW rev
  PROVE  /\ ev.id # <<s, rev>> => Copies(s, rev)' <= Copies(s, rev)
         /\ Copies(s, rev)' <= Copies(s, rev) + 1
<1> DEFINE H == Holders(s, rev)
<1>1. ASSUME NEW x \in Holders(s, rev)', x \notin H
      PROVE  x = r /\ ev.id = <<s, rev>>
  <2>1. x \in Runtime /\ events[x] \in Seq(Event)
    BY Zenon, <1>1 DEF Holders, StoreInv
  <2>2. PICK i \in DOMAIN events'[x] : events'[x][i].id = <<s, rev>>
    BY Zenon, <1>1 DEF Holders
  <2>3. events'[x] # events[x]
    BY Zenon, <1>1, <2>1, <2>2 DEF Holders
  <2>4. x = r /\ events'[x] = Append(events[x], ev)
    BY Zenon, <2>1, <2>3 DEF AddTo, StoreInv
  <2>5. /\ i \in 1 .. Len(events[x]) + 1
        /\ i \in 1 .. Len(events[x]) => i \in DOMAIN events[x] /\ events'[x][i] = events[x][i]
        /\ i = Len(events[x]) + 1 => events'[x][i] = ev
    BY <2>1, <2>2, <2>4
  <2>6. i = Len(events[x]) + 1
    BY <1>1, <2>1, <2>2, <2>5 DEF Holders
  <2> QED BY Zenon, <2>2, <2>4, <2>5, <2>6
<1>2. IsFiniteSet(H) /\ Cardinality(H) \in Nat /\ Copies(s, rev) = Cardinality(H)
  BY Zenon, CopiesTyped DEF Copies
<1>3. Copies(s, rev)' = Cardinality(Holders(s, rev)')
  BY Zenon DEF Copies
<1> HIDE DEF H
<1>4. CASE ev.id # <<s, rev>>
  <2>1. Holders(s, rev)' \subseteq H
    BY Zenon, <1>1, <1>4
  <2>2. Cardinality(Holders(s, rev)') <= Cardinality(H) /\ Cardinality(Holders(s, rev)') \in Nat
    BY Zenon, <1>2, <2>1, FS_Subset, FS_CardinalityType
  <2> QED BY <1>2, <1>3, <2>2
<1>5. CASE ev.id = <<s, rev>>
  <2>1. Holders(s, rev)' \subseteq H \cup {r}
    BY Zenon, <1>1
  <2>a. /\ IsFiniteSet(H \cup {r})
        /\ Cardinality(H \cup {r}) = IF r \in H THEN Cardinality(H) ELSE Cardinality(H) + 1
    BY Zenon, <1>2, FS_AddElement
  <2>2. IsFiniteSet(H \cup {r}) /\ Cardinality(H \cup {r}) <= Cardinality(H) + 1
        /\ Cardinality(H \cup {r}) \in Nat
    BY <1>2, <2>a
  <2>3. Cardinality(Holders(s, rev)') <= Cardinality(H \cup {r})
        /\ Cardinality(Holders(s, rev)') \in Nat
    BY Zenon, <2>1, <2>2, FS_Subset, FS_CardinalityType
  <2> QED BY <1>2, <1>3, <1>5, <2>2, <2>3
<1> QED BY Zenon, <1>4, <1>5

\* A rollout that Reconcile takes for complete is, and it is of this revision.
LEMMA CompleteIsDone ==
  ASSUME NEW wl, wl.stage \in RolloutStages, wl.old # wl.rev, RolloutComplete(wl)
  PROVE  wl.stage = "done" /\ StatusOf(wl).updateRevision = wl.rev
BY DEF RolloutStages, RolloutComplete, DeploymentRolloutComplete, StatefulSetRolloutComplete,
       StatusOf, Replicas

LEMMA OnceInit == Init => OnceInv
<1> SUFFICES ASSUME Init PROVE OnceInv
  BY Zenon
<1>1. /\ events = [r \in Runtime |-> <<>>] /\ workload = Absent /\ reporting = Idle
      /\ lastRevision = [s \in Source |-> ""] /\ completions = [v \in Revision |-> 0]
  BY Zenon DEF Init, WatchInit
<1>2. ASSUME NEW s \in Source, NEW rev \in Revision PROVE Copies(s, rev) = 0
  <2>1. \A r \in Runtime : DOMAIN events[r] = {}
    <3>1. DOMAIN <<>> = {}
      OBVIOUS
    <3>2. \A r \in Runtime : events[r] = <<>>
      BY Zenon, <1>1
    <3> QED BY Zenon, <3>1, <3>2
  <2>2. Holders(s, rev) = {}
    BY Zenon, <2>1 DEF Holders
  <2> QED BY Zenon, <2>2, FS_EmptySet DEF Copies
<1>3. ASSUME NEW s \in Source, NEW rev \in Revision PROVE OnceAt(s, rev)
  <2>1. Copies(s, rev) = 0 /\ completions[rev] = 0
    BY Zenon, <1>1, <1>2
  <2>2. ~ IsDone(rev) /\ reporting = Idle
    BY Zenon, <1>1 DEF IsDone
  <2> QED BY <2>1, <2>2 DEF OnceAt
<1>4. completions \in [Revision -> Nat] /\ DOMAIN lastRevision = Source
  BY Zenon, <1>1
<1> QED BY Zenon, <1>1, <1>3, <1>4 DEF OnceInv

LEMMA OnceWebhook ==
  ASSUME StoreInv, OnceInv, NEW s \in Source, NEW id \in WebhookID, Webhook(s, id)
  PROVE  OnceInv'
<1>1. /\ AddTo(routes[s], [id |-> id, source |-> s])
      /\ UNCHANGED <<workload, lastRevision, reporting, completions>>
  BY Zenon DEF Webhook, workloadVars
<1>2. ASSUME NEW t \in Source, NEW rev \in Revision
      PROVE  Copies(t, rev)' <= Copies(t, rev)
  <2>1. id # <<t, rev>>
    BY SendersAssumption
  <2> QED BY <1>1, <2>1, AddHolders
<1>3. ASSUME NEW t \in Source, NEW rev \in Revision
      PROVE  Copies(t, rev) \in Nat /\ Copies(t, rev)' \in Nat /\ completions[rev] \in Nat
  BY Zenon, CopiesTyped DEF OnceInv
<1> QED BY <1>1, <1>2, <1>3 DEF OnceInv, OnceAt, IsDone

LEMMA OnceEdit ==
  ASSUME OnceInv, RolloutInv,
         (\E kind \in Kind, rev \in Revision : EditWorkload(kind, rev)) \/ DeleteWorkload
  PROVE  OnceInv'
<1>1. UNCHANGED <<events, lastRevision, reporting, completions>>
  BY Zenon DEF EditWorkload, DeleteWorkload, WorkloadChange, workerVars
<1>2. workload' # Absent => /\ workload'.old # workload'.rev
                            /\ workload'.stage = "edited"
  <2>1. CASE DeleteWorkload
    BY Zenon, <2>1 DEF DeleteWorkload
  <2>2. CASE \E kind \in Kind, rev \in Revision : EditWorkload(kind, rev)
    <3>1. PICK kind \in Kind, rev \in Revision : EditWorkload(kind, rev)
      BY Zenon, <2>2
    <3>2. workload' = [kind |-> kind, rev |-> rev, stage |-> "edited",
                       old |-> IF workload = Absent THEN "" ELSE workload.rev]
          /\ (workload = Absent \/ rev # workload.rev)
      BY Zenon, <3>1 DEF EditWorkload
    <3>3. workload'.rev = rev /\ workload'.stage = "edited"
          /\ workload'.old = IF workload = Absent THEN "" ELSE workload.rev
      BY Zenon, <3>2
    <3> QED BY Zenon, <3>2, <3>3, ManagerAssumption
  <2> QED BY Zenon, <2>1, <2>2
<1>3. \A rev \in Revision : ~ IsDone(rev)'
  BY Zenon, <1>2 DEF IsDone
<1>4. ASSUME NEW s \in Source, NEW rev \in Revision PROVE Copies(s, rev)' = Copies(s, rev)
  BY Zenon, <1>1 DEF Copies, Holders
<1> QED BY Zenon, <1>1, <1>2, <1>3, <1>4 DEF OnceInv, OnceAt, RolloutStages

LEMMA OnceRollOn ==
  ASSUME OnceInv, RolloutInv, RollOn
  PROVE  OnceInv'
<1>1. UNCHANGED <<events, lastRevision, reporting>>
  BY Zenon DEF RollOn, WorkloadChange, workerVars
<1>2. /\ workload # Absent /\ workload.stage \in {"edited", "rolling", "surging"}
      /\ workload' = [workload EXCEPT !.stage = NextStage(@)]
      /\ DOMAIN workload = {"kind", "rev", "stage", "old"} /\ workload.rev \in Revision
      /\ completions' = IF workload'.stage = "done"
                        THEN [completions EXCEPT ![workload.rev] = @ + 1] ELSE completions
  BY Zenon DEF RollOn, OnceInv, RolloutInv, RolloutStages
<1>3. NextStage(workload.stage) \in RolloutStages
  <2>1. \E i \in 1 .. 3 : Stages[i] = workload.stage
    <3>1. Stages[1] = "edited" /\ Stages[2] = "rolling" /\ Stages[3] = "surging"
      BY Zenon DEF Stages
    <3> QED BY <1>2, <3>1
  <2>2. PICK i \in 1 .. 3 : i = CHOOSE k \in 1 .. 3 : Stages[k] = workload.stage
    BY Zenon, <2>1
  <2>3. Stages[1 + i] \in RolloutStages
    <3>1. Stages[1 + 1] = "rolling" /\ Stages[1 + 2] = "surging" /\ Stages[1 + 3] = "done"
      BY DEF Stages
    <3>2. i = 1 \/ i = 2 \/ i = 3
      OBVIOUS
    <3> QED BY Zenon, <3>1, <3>2 DEF RolloutStages
  <2> QED BY Zenon, <2>2, <2>3 DEF NextStage
<1>4. /\ workload'.stage = NextStage(workload.stage) /\ workload'.rev = workload.rev
      /\ workload'.old = workload.old
  BY Zenon, <1>2
<1>5. ASSUME NEW rev \in Revision
      PROVE  /\ completions[rev] \in Nat /\ completions'[rev] \in Nat
             /\ completions[rev] <= completions'[rev]
             /\ IsDone(rev)' => completions'[rev] = completions[rev] + 1
  BY <1>2, <1>4 DEF OnceInv, IsDone
<1>6. completions' \in [Revision -> Nat]
  BY <1>2 DEF OnceInv
<1>7. ASSUME NEW s \in Source, NEW rev \in Revision
      PROVE  Copies(s, rev)' = Copies(s, rev) /\ Copies(s, rev) \in Nat
  <2>1. Copies(s, rev)' = Copies(s, rev)
    BY Zenon, <1>1 DEF Copies, Holders
  <2> QED BY Zenon, <2>1, CopiesTyped
<1>8. ASSUME NEW s \in Source, NEW rev \in Revision PROVE OnceAt(s, rev)'
  <2>1. OnceAt(s, rev)
    BY Zenon DEF OnceInv
  <2> QED BY <1>1, <1>5, <1>7, <2>1 DEF OnceAt
<1> QED BY Zenon, <1>1, <1>2, <1>3, <1>4, <1>6, <1>8 DEF OnceInv

LEMMA OnceReconcile ==
  ASSUME OnceInv, ReconcileWorkload
  PROVE  OnceInv'
<1>1. UNCHANGED <<events, workload, completions>> /\ reporting = Idle
  BY Zenon DEF ReconcileWorkload, workerVars
<1>2. ASSUME NEW s \in Source, NEW rev \in Revision PROVE Copies(s, rev)' = Copies(s, rev)
  BY Zenon, <1>1 DEF Copies, Holders
<1>3. \/ workload = Absent /\ lastRevision' = [s \in Source |-> ""] /\ UNCHANGED reporting
      \/ UNCHANGED <<lastRevision, reporting>>
      \/ /\ workload # Absent /\ RolloutComplete(workload) /\ UNCHANGED lastRevision
         /\ reporting'.step = "match"
         /\ reporting'.rev = StatusOf(workload).updateRevision
  <2>1. PICK M, left, revision :
          /\ revision = StatusOf(workload).updateRevision
          /\ IF workload = Absent
             THEN lastRevision' = [s \in Source |-> ""] /\ UNCHANGED <<reporting, owed>>
             ELSE IF M \/ ~RolloutComplete(workload) \/ revision = ""
             THEN UNCHANGED <<lastRevision, reporting, owed>>
             ELSE /\ reporting' = [step |-> "match", rev |-> revision, left |-> left,
                                   source |-> "", runtime |-> None, requeue |-> FALSE]
                  /\ UNCHANGED lastRevision
    BY Zenon DEF ReconcileWorkload
  <2>2. CASE workload = Absent
    BY Zenon, <2>1, <2>2
  <2>3. CASE workload # Absent /\ (M \/ ~RolloutComplete(workload) \/ revision = "")
    BY Zenon, <2>1, <2>3
  <2>4. CASE workload # Absent /\ ~ (M \/ ~RolloutComplete(workload) \/ revision = "")
    <3>1. /\ reporting' = [step |-> "match", rev |-> revision, left |-> left,
                           source |-> "", runtime |-> None, requeue |-> FALSE]
          /\ UNCHANGED lastRevision /\ RolloutComplete(workload)
      BY Zenon, <2>1, <2>4
    <3>2. reporting'.step = "match" /\ reporting'.rev = revision
      BY Zenon, <3>1
    <3> QED BY Zenon, <2>1, <2>4, <3>1, <3>2
  <2> QED BY Zenon, <2>2, <2>3, <2>4
<1>4. CASE workload = Absent /\ lastRevision' = [s \in Source |-> ""] /\ UNCHANGED reporting
  <2>1. \A rev : ~ IsDone(rev)'
    BY Zenon, <1>1, <1>4 DEF IsDone
  <2> QED BY Zenon, <1>1, <1>2, <1>4, <2>1 DEF OnceInv, OnceAt
<1>5. CASE UNCHANGED <<lastRevision, reporting>>
  BY Zenon, <1>1, <1>5, OnceUnchanged DEF onceVars
<1>6. CASE /\ workload # Absent /\ RolloutComplete(workload) /\ UNCHANGED lastRevision
           /\ reporting'.step = "match"
           /\ reporting'.rev = StatusOf(workload).updateRevision
  <2>1. workload.stage = "done" /\ reporting'.rev = workload.rev
    BY Zenon, <1>6, CompleteIsDone DEF OnceInv
  <2>2. ASSUME NEW s \in Source, NEW rev \in Revision PROVE OnceAt(s, rev)'
    <3>1. OnceAt(s, rev) /\ (IsDone(rev) <=> workload.rev = rev) /\ IsDone(rev)' = IsDone(rev)
      BY Zenon, <1>1, <1>6, <2>1 DEF OnceInv, IsDone
    <3> QED BY Zenon, <1>1, <1>2, <1>6, <2>1, <3>1 DEF OnceAt
  <2> QED BY Zenon, <1>1, <1>6, <2>2 DEF OnceInv
<1> QED BY Zenon, <1>3, <1>4, <1>5, <1>6

LEMMA OnceTakeMatch ==
  ASSUME OnceInv, RolloutInv, TakeMatch
  PROVE  OnceInv'
<1>1. /\ UNCHANGED <<events, workload, lastRevision, completions>>
      /\ reporting.step = "match" /\ reporting # Idle
  BY DEF TakeMatch, watchVars, workerVars, Idle
<1>2. DOMAIN reporting = {"step", "rev", "left", "source", "runtime", "requeue"}
  BY Zenon, <1>1 DEF RolloutInv
<1>3. /\ reporting'.rev = reporting.rev
      /\ reporting'.step = "add" => lastRevision[reporting'.source] # reporting.rev
  BY Zenon, <1>1, <1>2 DEF TakeMatch
<1>4. ASSUME NEW s \in Source, NEW rev \in Revision PROVE OnceAt(s, rev)'
  <2>1. OnceAt(s, rev) /\ Copies(s, rev)' = Copies(s, rev) /\ IsDone(rev)' = IsDone(rev)
    BY Zenon, <1>1 DEF OnceInv, Copies, Holders, IsDone
  <2> QED BY Zenon, <1>1, <1>3, <2>1 DEF OnceAt
<1> QED BY Zenon, <1>1, <1>3, <1>4 DEF OnceInv

LEMMA OnceAddRollout ==
  ASSUME OnceInv, StoreInv, RolloutInv, AddRollout
  PROVE  OnceInv'
<1>1. PICK s0, rev0 : s0 = reporting.source /\ rev0 = reporting.rev
  BY Zenon
<1>2. /\ reporting.step = "add" /\ reporting # Idle
      /\ AddTo(reporting.runtime, [id |-> <<s0, rev0>>, source |-> s0])
      /\ lastRevision' = [lastRevision EXCEPT ![s0] = rev0]
      /\ reporting' = [reporting EXCEPT !.step = "match", !.source = "", !.runtime = None]
      /\ UNCHANGED <<workload, completions>>
  BY <1>1 DEF AddRollout, Idle
<1>3. /\ DOMAIN reporting = {"step", "rev", "left", "source", "runtime", "requeue"}
      /\ s0 \in Source /\ rev0 \in Revision /\ DOMAIN lastRevision = Source
      /\ lastRevision[s0] # rev0
  BY Zenon, <1>1, <1>2 DEF RolloutInv, OnceInv
<1>4. reporting'.step = "match" /\ reporting'.rev = rev0
  BY Zenon, <1>1, <1>2, <1>3
<1>5. /\ lastRevision'[s0] = rev0
      /\ \A s \in Source : s # s0 => lastRevision'[s] = lastRevision[s]
  BY Zenon, <1>2, <1>3
<1>6. ASSUME NEW s \in Source, NEW rev \in Revision
      PROVE  /\ Copies(s, rev) \in Nat /\ Copies(s, rev)' \in Nat /\ completions[rev] \in Nat
             /\ <<s, rev>> # <<s0, rev0>> => Copies(s, rev)' <= Copies(s, rev)
             /\ Copies(s, rev)' <= Copies(s, rev) + 1
  <2>1. PICK ev : ev = [id |-> <<s0, rev0>>, source |-> s0]
    BY Zenon
  <2>2. ev.id = <<s0, rev0>> /\ AddTo(reporting.runtime, ev)
    BY Zenon, <1>2, <2>1
  <2>3. /\ ev.id # <<s, rev>> => Copies(s, rev)' <= Copies(s, rev)
        /\ Copies(s, rev)' <= Copies(s, rev) + 1
    BY Zenon, <2>2, AddHolders
  <2> QED BY Zenon, <2>2, <2>3, CopiesTyped DEF OnceInv
<1>7. ASSUME NEW s \in Source, NEW rev \in Revision PROVE OnceAt(s, rev)'
  <2>1. OnceAt(s, rev) /\ IsDone(rev)' = IsDone(rev)
    BY Zenon, <1>2 DEF OnceInv, IsDone
  <2>2. CASE s = s0 /\ rev = rev0
    <3>1. Copies(s, rev) < completions[rev]
      BY Zenon, <1>1, <1>2, <1>3, <2>1, <2>2 DEF OnceAt
    <3>2. Copies(s, rev)' <= completions[rev]
      BY <1>6, <3>1
    <3> QED BY Zenon, <1>2, <1>4, <1>5, <2>1, <2>2, <3>2 DEF OnceAt
  <2>3. CASE rev # rev0
    <3>1. Copies(s, rev)' <= Copies(s, rev)
      BY Zenon, <1>6, <2>3
    <3>2. reporting # Idle /\ reporting.rev # rev /\ reporting'.rev # rev
      BY Zenon, <1>1, <1>2, <1>4, <2>3
    <3> QED BY <1>2, <1>6, <2>1, <3>1, <3>2 DEF OnceAt
  <2>4. CASE s # s0 /\ rev = rev0
    <3>1. Copies(s, rev)' <= Copies(s, rev) /\ lastRevision'[s] = lastRevision[s]
      BY Zenon, <1>5, <1>6, <2>4
    <3>2. reporting # Idle /\ reporting.rev = rev /\ reporting'.rev = rev
      BY Zenon, <1>1, <1>2, <1>4, <2>4
    <3> QED BY <1>2, <1>6, <2>1, <3>1, <3>2 DEF OnceAt
  <2> QED BY Zenon, <2>2, <2>3, <2>4
<1> QED BY Zenon, <1>2, <1>3, <1>4, <1>7 DEF OnceInv

LEMMA OnceEndReport ==
  ASSUME OnceInv, EndReport
  PROVE  OnceInv'
<1>1. UNCHANGED <<events, workload, lastRevision, completions>> /\ reporting' = Idle
  BY Zenon DEF EndReport, workerVars
<1>2. ASSUME NEW s \in Source, NEW rev \in Revision PROVE OnceAt(s, rev)'
  <2>1. OnceAt(s, rev) /\ Copies(s, rev)' = Copies(s, rev) /\ IsDone(rev)' = IsDone(rev)
    BY Zenon, <1>1 DEF OnceInv, Copies, Holders, IsDone
  <2> QED BY Zenon, <1>1, <2>1 DEF OnceAt
<1> QED BY Zenon, <1>1, <1>2 DEF OnceInv

LEMMA OnceCrash ==
  ASSUME OnceInv, NEW ws, NEW ss, Crash(ws, ss)
  PROVE  OnceInv'
<1>1. /\ events' = [r \in Runtime |-> <<>>] /\ reporting' = Idle
      /\ lastRevision' = [s \in Source |-> ""] /\ UNCHANGED <<workload, completions>>
  BY Zenon DEF Crash
<1>2. ASSUME NEW s \in Source, NEW rev \in Revision PROVE Copies(s, rev)' = 0
  <2>1. \A r \in Runtime : DOMAIN events'[r] = {}
    <3>1. DOMAIN <<>> = {}
      OBVIOUS
    <3>2. \A r \in Runtime : events'[r] = <<>>
      BY Zenon, <1>1
    <3> QED BY Zenon, <3>1, <3>2
  <2>2. Holders(s, rev)' = {}
    BY Zenon, <2>1 DEF Holders
  <2> QED BY Zenon, <2>2, FS_EmptySet DEF Copies
<1>3. ASSUME NEW s \in Source, NEW rev \in Revision PROVE OnceAt(s, rev)'
  <2>1. OnceAt(s, rev) /\ (IsDone(rev)' <=> IsDone(rev)) /\ completions[rev] \in Nat
    BY Zenon, <1>1 DEF OnceInv, IsDone
  <2>a. Copies(s, rev)' = 0 /\ completions'[rev] = completions[rev]
    BY Zenon, <1>1, <1>2
  <2>2. Copies(s, rev)' <= completions'[rev]
    BY <2>1, <2>a
  <2>3. IsDone(rev)' => completions'[rev] >= 1 /\ Copies(s, rev)' < completions'[rev]
    BY <2>1, <2>a DEF OnceAt
  <2> QED BY Zenon, <1>1, <2>2, <2>3 DEF OnceAt
<1>4. DOMAIN lastRevision' = Source
  BY Zenon, <1>1
<1> QED BY Zenon, <1>1, <1>3, <1>4 DEF OnceInv

LEMMA OnceStep ==
  ASSUME AbortInv, OnceInv, [Next]_vars
  PROVE  OnceInv'
<1>0. StoreInv /\ RolloutInv
  BY Zenon DEF AbortInv, FeedInv
<1>1. CASE Environment
  <2>1. CASE \/ \E s \in Source, spec \in SourceSpec \cup {Absent} : EditSource(s, spec)
             \/ \E q \in Request : Resync(q)
    <3>1. UNCHANGED onceVars
      BY Zenon, <2>1 DEF EditSource, Resync, onceVars, workerVars, workloadVars
    <3> QED BY Zenon, <3>1, OnceUnchanged
  <2> QED BY Zenon, <1>0, <1>1, <2>1, OnceWebhook, OnceEdit, OnceCrash DEF Environment
<1>2. CASE /\ WatchEdit \/ WatchStep \/ WorkerStep \/ Sweep
           /\ UNCHANGED <<sourceVars, workloadVars>>
  <2>1. UNCHANGED events
    <3>1. CASE WatchEdit
      BY Zenon, <3>1 DEF WatchEdit, EditWatch, EditDSNSecret, EditKubeconfig, ClientBreaks, workerVars
    <3>2. CASE WatchStep
      BY Zenon, <3>2 DEF WatchStep, ReconcileWatch, StartWatch, UpdateStatus, workerVars
    <3>3. CASE WorkerStep
      BY Zenon, <3>3 DEF WorkerStep, PollTick, PeriodicTick, HandleRegression, NotifyRegression,
                  RecordRegression
    <3>4. CASE Sweep
      BY Zenon, <3>4 DEF Sweep, workerVars
    <3> QED BY Zenon, <1>2, <3>1, <3>2, <3>3, <3>4
  <2> QED BY Zenon, <1>2, <2>1, OnceUnchanged DEF onceVars, workloadVars
<1>3. CASE WorkloadStep \/ RollOn
  BY Zenon, <1>0, <1>3, OnceReconcile, OnceTakeMatch, OnceAddRollout, OnceEndReport, OnceRollOn
  DEF WorkloadStep
<1>4. CASE SourceStep \/ UNCHANGED vars
  <2>1. UNCHANGED onceVars
    BY Zenon, <1>4 DEF SourceStep, ReconcileSource, SetRoute, UpdateSourceStatus, onceVars, vars,
                watchVars, workerVars, workloadVars
  <2> QED BY Zenon, <2>1, OnceUnchanged
<1> QED BY Zenon, <1>1, <1>2, <1>3, <1>4 DEF Next

\* No Store ever holds a rollout that has not completed, and no rollout is ever in
\* more Stores than it completed times, however edits, watches that come and go,
\* restarts and Reconciles that report a revision already replaced interleave
\* (workload_watch_controller.go:173-257).
THEOREM RolloutsReportedOnce == ManagerSpec => []ReportsMatchRollouts
<1>1. OnceInv => ReportsMatchRollouts
  BY Zenon DEF OnceInv, OnceAt, Copies, Holders, ReportsMatchRollouts
<1> QED BY <1>1, AbortInit, AbortStep, OnceInit, OnceStep, PTL DEF ManagerSpec
-----------------------------------------------------------------------------
(***************************************************************************)
(* The types, with what an inductive invariant has to add to them: the     *)
(* kubeconfig the cache is keyed by, and the regressions loops are         *)
(* handling.                                                               *)
(***************************************************************************)
WatchesTyped ==
  /\ watchSpec \in [Watch -> Spec \cup {Absent}]
  /\ watchStatus \in [Watch -> [phase : {"", "Running", "Failed"}, ready : BOOLEAN]]

SourcesTyped ==
  /\ sourceSpec \in [Source -> SourceSpec \cup {Absent}]
  /\ sourceStatus \in [Source -> [phase : {"", "Pending", "Ready", "Failed"}, path : BOOLEAN]]

QueueTyped == queue \subseteq Request

ClientsTyped == kubeSecret \in Kubeconfig /\ DOMAIN clients \subseteq Kubeconfig

CursorsTyped == \A r \in Runtime : cursor[r] <= Len(events[r])

RecordsTyped ==
  /\ \A l \in Loop : task[l] # Idle => task[l].reg \in Regression
  /\ DOMAIN regressions \subseteq ObjectName

ReportsTyped ==
  /\ lastRevision \in [Source -> Revision \cup {""}]
  /\ owed \subseteq Source \X Revision /\ reported \subseteq Source \X Revision

EditsTyped == allowed \in Disturbances /\ edits \in Nat /\ edits <= allowed.most

TypeInv ==
  /\ WatchesTyped /\ SourcesTyped /\ QueueTyped /\ ClientsTyped
  /\ CursorsTyped /\ RecordsTyped /\ ReportsTyped /\ EditsTyped

LEMMA TypeInit == Init => TypeInv
<1> SUFFICES ASSUME Init PROVE TypeInv
  OBVIOUS
<1>1. WatchesTyped
  <2>1. [phase |-> "", ready |-> FALSE] \in [phase : {"", "Running", "Failed"}, ready : BOOLEAN]
    OBVIOUS
  <2> QED BY Zenon, <2>1 DEF Init, WatchInit, WatchesTyped
<1>2. SourcesTyped
  <2>1. NoStatus \in [phase : {"", "Pending", "Ready", "Failed"}, path : BOOLEAN]
    BY DEF NoStatus
  <2> QED BY Zenon, <2>1 DEF Init, WatchInit, SourcesTyped
<1>3. QueueTyped
  BY Zenon DEF Init, WatchInit, QueueTyped
<1>4. ClientsTyped
  BY Zenon DEF Init, WatchInit, ClientsTyped
<1>5. CursorsTyped
  <2>1. \A r \in Runtime : cursor[r] = 0 /\ events[r] = <<>>
    BY Zenon DEF Init, WatchInit
  <2> QED BY <2>1 DEF CursorsTyped
<1>6. RecordsTyped
  BY Zenon DEF Init, WatchInit, RecordsTyped
<1>7. ReportsTyped
  BY Zenon DEF Init, ReportsTyped
<1>8. EditsTyped
  <2>1. allowed \in Disturbances /\ edits = 0
    BY Zenon DEF Init, WatchInit
  <2>2. allowed.most \in Nat
    BY Zenon, <2>1, WatchControllerAssumption
  <2> QED BY <2>1, <2>2 DEF EditsTyped
<1> QED BY Zenon, <1>1, <1>2, <1>3, <1>4, <1>5, <1>6, <1>7, <1>8 DEF TypeInv

\* The specs and statuses of watches.
LEMMA WatchesStep ==
  ASSUME WatchesTyped, [Next]_vars
  PROVE  WatchesTyped'
<1> DEFINE T == [phase : {"", "Running", "Failed"}, ready : BOOLEAN]
<1>0. /\ [phase |-> "", ready |-> FALSE] \in T /\ [phase |-> "Failed", ready |-> FALSE] \in T
      /\ [phase |-> "Running", ready |-> TRUE] \in T
      /\ \A x \in T : [phase |-> "Running", ready |-> x.ready] \in T
  OBVIOUS
<1> HIDE DEF T
<1>a. watchSpec \in [Watch -> Spec \cup {Absent}] /\ watchStatus \in [Watch -> T]
  BY Zenon DEF WatchesTyped, T
<1>1. CASE UNCHANGED <<watchSpec, watchStatus>>
  BY Zenon, <1>1 DEF WatchesTyped
<1>2. ASSUME NEW w \in Watch, NEW spec \in Spec \cup {Absent}, EditWatch(w, spec)
      PROVE  WatchesTyped'
  <2>1. watchSpec' = [watchSpec EXCEPT ![w] = spec]
    BY Zenon, <1>2 DEF EditWatch
  <2>2. \/ watchStatus' = [watchStatus EXCEPT ![w] = [phase |-> "", ready |-> FALSE]]
        \/ watchStatus' = watchStatus
    BY Zenon, <1>2 DEF EditWatch
  <2>3. watchSpec' \in [Watch -> Spec \cup {Absent}] /\ watchStatus' \in [Watch -> T]
    BY Zenon, <1>0, <1>a, <2>1, <2>2
  <2> QED BY Zenon, <2>3 DEF WatchesTyped, T
<1>3. CASE UpdateStatus
  <2>1. watchSpec' = watchSpec
    BY Zenon, <1>3 DEF UpdateStatus
  <2>2. PICK w : watchStatus' = watchStatus \/ watchStatus' = [watchStatus EXCEPT ![w] = NewStatus(w)]
    BY Zenon, <1>3 DEF UpdateStatus
  <2>3. w \in Watch => NewStatus(w) \in T
    <3> SUFFICES ASSUME w \in Watch PROVE NewStatus(w) \in T
      OBVIOUS
    <3>1. watchStatus[w] \in T
      BY Zenon, <1>a
    <3> QED BY <1>0, <3>1 DEF NewStatus
  <2>4. watchStatus' \in [Watch -> T]
    BY Zenon, <1>a, <2>2, <2>3
  <2> QED BY Zenon, <1>a, <2>1, <2>4 DEF WatchesTyped, T
<1>4. ASSUME NEW ws, NEW ss, Crash(ws, ss) PROVE WatchesTyped'
  <2>1. watchSpec' = watchSpec /\ watchStatus' = FailedWatchStatus(ws)
    BY Zenon, <1>4 DEF Crash
  <2>2. watchStatus' \in [Watch -> T]
    BY Zenon, <1>0, <1>a, <2>1 DEF FailedWatchStatus
  <2> QED BY Zenon, <1>a, <2>1, <2>2 DEF WatchesTyped, T
<1>5. CASE Environment
  <2>1. CASE \E ws \in SUBSET Watch, ss \in SUBSET Source : Crash(ws, ss)
    BY Zenon, <1>4, <2>1
  <2>2. CASE ~ \E ws \in SUBSET Watch, ss \in SUBSET Source : Crash(ws, ss)
    BY Zenon, <1>1, <1>5, <2>2 DEF Environment, EditSource, Webhook, EditWorkload, DeleteWorkload,
              WorkloadChange, Resync
  <2> QED BY Zenon, <2>1, <2>2
<1>6. CASE WatchEdit
  BY Zenon, <1>1, <1>2, <1>6 DEF WatchEdit, EditDSNSecret, EditKubeconfig, ClientBreaks
<1>7. CASE WatchStep
  BY Zenon, <1>1, <1>3, <1>7 DEF WatchStep, ReconcileWatch, StartWatch, apiVars
<1>8. CASE WorkerStep \/ Sweep
  BY Zenon, <1>1, <1>8 DEF WorkerStep, PollTick, PeriodicTick, HandleRegression, NotifyRegression,
            RecordRegression, Sweep, apiVars
<1>9. CASE SourceStep \/ WorkloadStep \/ RollOn \/ UNCHANGED vars
  BY Zenon, <1>1, <1>9 DEF SourceStep, ReconcileSource, SetRoute, UpdateSourceStatus, WorkloadStep,
            ReconcileWorkload, TakeMatch, AddRollout, EndReport, RollOn, WorkloadChange, vars,
            watchVars, apiVars
<1> QED BY Zenon, <1>5, <1>6, <1>7, <1>8, <1>9 DEF Next

\* The specs and statuses of sources.
LEMMA SourcesStep ==
  ASSUME SourcesTyped, [Next]_vars
  PROVE  SourcesTyped'
<1> DEFINE T == [phase : {"", "Pending", "Ready", "Failed"}, path : BOOLEAN]
<1>0. /\ NoStatus \in T /\ [phase |-> "Failed", path |-> FALSE] \in T /\ SourceStatus \in T
  BY DEF NoStatus, SourceStatus
<1> HIDE DEF T
<1>a. sourceSpec \in [Source -> SourceSpec \cup {Absent}] /\ sourceStatus \in [Source -> T]
  BY Zenon DEF SourcesTyped, T
<1>1. CASE UNCHANGED <<sourceSpec, sourceStatus>>
  BY Zenon, <1>1 DEF SourcesTyped
<1>2. ASSUME NEW s \in Source, NEW spec \in SourceSpec \cup {Absent}, EditSource(s, spec)
      PROVE  SourcesTyped'
  <2>1. sourceSpec' = [sourceSpec EXCEPT ![s] = spec]
    BY Zenon, <1>2 DEF EditSource
  <2>2. sourceStatus' = [sourceStatus EXCEPT ![s] = NoStatus] \/ sourceStatus' = sourceStatus
    BY Zenon, <1>2 DEF EditSource
  <2>3. sourceSpec' \in [Source -> SourceSpec \cup {Absent}] /\ sourceStatus' \in [Source -> T]
    BY Zenon, <1>0, <1>a, <2>1, <2>2
  <2> QED BY Zenon, <2>3 DEF SourcesTyped, T
<1>3. CASE UpdateSourceStatus
  <2>1. sourceSpec' = sourceSpec
    BY Zenon, <1>3 DEF UpdateSourceStatus
  <2>2. PICK s : \/ sourceStatus' = sourceStatus
                 \/ sourceStatus' = [sourceStatus EXCEPT ![s] = SourceStatus]
    BY Zenon, <1>3 DEF UpdateSourceStatus
  <2>3. sourceStatus' \in [Source -> T]
    BY Zenon, <1>0, <1>a, <2>2
  <2> QED BY Zenon, <1>a, <2>1, <2>3 DEF SourcesTyped, T
<1>4. ASSUME NEW ws, NEW ss, Crash(ws, ss) PROVE SourcesTyped'
  <2>1. sourceSpec' = sourceSpec /\ sourceStatus' = FailedSourceStatus(ss)
    BY Zenon, <1>4 DEF Crash
  <2>2. sourceStatus' \in [Source -> T]
    BY Zenon, <1>0, <1>a, <2>1 DEF FailedSourceStatus
  <2> QED BY Zenon, <1>a, <2>1, <2>2 DEF SourcesTyped, T
<1>5. CASE Environment
  <2>1. CASE \/ \E ws \in SUBSET Watch, ss \in SUBSET Source : Crash(ws, ss)
             \/ \E s \in Source, spec \in SourceSpec \cup {Absent} : EditSource(s, spec)
    BY Zenon, <1>2, <1>4, <2>1
  <2>2. CASE \/ \E s \in Source, id \in WebhookID : Webhook(s, id)
             \/ \E kind \in Kind, rev \in Revision : EditWorkload(kind, rev)
             \/ DeleteWorkload
             \/ \E q \in Request : Resync(q)
    BY Zenon, <1>1, <2>2 DEF Webhook, EditWorkload, DeleteWorkload, WorkloadChange, Resync, sourceVars
  <2> QED BY Zenon, <1>5, <2>1, <2>2 DEF Environment
<1>6. CASE (WatchEdit \/ WatchStep \/ WorkerStep \/ Sweep) /\ UNCHANGED <<sourceVars, workloadVars>>
  <2>1. sourceSpec' = sourceSpec
    <3>1. CASE WatchEdit
      BY Zenon, <3>1 DEF WatchEdit, EditWatch, EditDSNSecret, EditKubeconfig, ClientBreaks
    <3>2. CASE WatchStep
      BY Zenon, <3>2 DEF WatchStep, ReconcileWatch, StartWatch, UpdateStatus, apiVars
    <3>3. CASE WorkerStep \/ Sweep
      BY Zenon, <3>3 DEF WorkerStep, PollTick, PeriodicTick, HandleRegression, NotifyRegression,
                RecordRegression, Sweep, apiVars
    <3> QED BY Zenon, <1>6, <3>1, <3>2, <3>3
  <2> QED BY Zenon, <1>1, <1>6, <2>1 DEF sourceVars
<1>7. CASE SourceStep
  BY Zenon, <1>1, <1>3, <1>7 DEF SourceStep, ReconcileSource, SetRoute, watchVars, apiVars
<1>8. CASE WorkloadStep \/ RollOn \/ UNCHANGED vars
  BY Zenon, <1>1, <1>8 DEF WorkloadStep, ReconcileWorkload, TakeMatch, AddRollout, EndReport, RollOn,
            WorkloadChange, vars, watchVars, sourceVars, apiVars
<1> QED BY Zenon, <1>5, <1>6, <1>7, <1>8 DEF Next

\* Only requests of objects the manager watches are queued.
LEMMA QueueStep ==
  ASSUME QueueTyped, RegistryInv, RouteInv, [Next]_vars
  PROVE  QueueTyped'
<1>1. CASE UNCHANGED queue
  BY Zenon, <1>1 DEF QueueTyped
<1>2. ASSUME NEW q, queue' = queue \cup {q} \/ queue' = queue \ {q} \/ queue' = queue, q \in Request
      PROVE  QueueTyped'
  BY Zenon, <1>2 DEF QueueTyped
<1>3. /\ \A w \in Watch : <<"watch", w>> \in Request
      /\ \A s \in Source : <<"source", s>> \in Request
      /\ App \in Request
  BY Zenon DEF Request, App
<1>4. Idle.step = "idle"
  BY DEF Idle
<1>5. CASE Environment
  <2>1. CASE \E ws \in SUBSET Watch, ss \in SUBSET Source : Crash(ws, ss)
    BY Zenon, <2>1 DEF Crash, Existing, QueueTyped
  <2>2. CASE \E s \in Source, spec \in SourceSpec \cup {Absent} : EditSource(s, spec)
    BY Zenon, <1>2, <1>3, <2>2 DEF EditSource
  <2>3. CASE \/ \E kind \in Kind, rev \in Revision : EditWorkload(kind, rev)
             \/ DeleteWorkload
    BY Zenon, <1>2, <1>3, <2>3 DEF EditWorkload, DeleteWorkload, WorkloadChange
  <2>4. CASE \E q \in Request : Resync(q)
    BY Zenon, <1>2, <2>4 DEF Resync
  <2>5. CASE \E s \in Source, id \in WebhookID : Webhook(s, id)
    BY Zenon, <1>1, <2>5 DEF Webhook
  <2> QED BY Zenon, <1>5, <2>1, <2>2, <2>3, <2>4, <2>5 DEF Environment
<1>6. CASE WatchEdit
  BY Zenon, <1>1, <1>2, <1>3, <1>6 DEF WatchEdit, EditWatch, EditDSNSecret, EditKubeconfig, ClientBreaks
<1>7. CASE WatchStep
  <2>1. CASE \E w \in Watch : ReconcileWatch(w)
    BY Zenon, <1>2, <1>3, <2>1 DEF ReconcileWatch
  <2>2. CASE StartWatch
    BY Zenon, <1>1, <2>2 DEF StartWatch
  <2>3. CASE UpdateStatus
    <3>1. reconciling # Idle
      BY Zenon, <1>4, <2>3 DEF UpdateStatus
    <3> QED BY Zenon, <1>2, <1>3, <2>3, <3>1 DEF UpdateStatus, Requeue, RegistryInv
  <2> QED BY Zenon, <1>7, <2>1, <2>2, <2>3 DEF WatchStep
<1>8. CASE WorkerStep \/ Sweep
  BY Zenon, <1>1, <1>8 DEF WorkerStep, PollTick, PeriodicTick, HandleRegression, NotifyRegression,
            RecordRegression, Sweep
<1>9. CASE SourceStep
  <2>1. CASE \E s \in Source : ReconcileSource(s)
    BY Zenon, <1>2, <1>3, <2>1 DEF ReconcileSource
  <2>2. CASE SetRoute
    BY Zenon, <1>1, <2>2 DEF SetRoute, watchVars
  <2>3. CASE UpdateSourceStatus
    <3>1. sourcing # Idle
      BY Zenon, <1>4, <2>3 DEF UpdateSourceStatus
    <3>2. sourcing.source \in Source
      BY Zenon, <3>1 DEF RouteInv
    <3> QED BY Zenon, <1>2, <1>3, <2>3, <3>2 DEF UpdateSourceStatus, RequeueSource
  <2> QED BY Zenon, <1>9, <2>1, <2>2, <2>3 DEF SourceStep
<1>10. CASE WorkloadStep \/ RollOn
  BY Zenon, <1>1, <1>2, <1>3, <1>10 DEF WorkloadStep, ReconcileWorkload, TakeMatch, AddRollout,
            EndReport, RetryIfNeeded, RollOn, WorkloadChange, watchVars
<1>11. CASE UNCHANGED vars
  BY Zenon, <1>1, <1>11 DEF vars, watchVars
<1> QED BY Zenon, <1>5, <1>6, <1>7, <1>8, <1>9, <1>10, <1>11 DEF Next

\* The cache is keyed by values the kubeconfig Secret has had.
LEMMA ClientsStep ==
  ASSUME ClientsTyped, [Next]_vars
  PROVE  ClientsTyped'
<1>1. CASE kubeSecret' = kubeSecret /\ DOMAIN clients' \subseteq DOMAIN clients \cup {kubeSecret}
  BY Zenon, <1>1 DEF ClientsTyped
<1>2. CASE UNCHANGED <<kubeSecret, clients>>
  BY Zenon, <1>2 DEF ClientsTyped
<1>3. ASSUME NEW w, ReconcileWatch(w) PROVE ClientsTyped'
  <2>1. kubeSecret' = kubeSecret
    BY Zenon, <1>3 DEF ReconcileWatch, apiVars
  <2>2. clients' \in {clients, CacheEvict(kubeSecret), CacheGet(kubeSecret)}
    BY Zenon, <1>3 DEF ReconcileWatch, ResolveDSN
  <2>3. DOMAIN clients' \subseteq DOMAIN clients \cup {kubeSecret}
    BY Zenon, <2>2 DEF CacheEvict, CacheGet
  <2> QED BY Zenon, <1>1, <2>1, <2>3
<1>4. CASE Environment
  <2>1. CASE \E ws \in SUBSET Watch, ss \in SUBSET Source : Crash(ws, ss)
    <3>1. kubeSecret' = kubeSecret /\ clients' = [k \in {} |-> k]
      BY Zenon, <2>1 DEF Crash
    <3> QED BY Zenon, <1>1, <3>1
  <2>2. CASE ~ \E ws \in SUBSET Watch, ss \in SUBSET Source : Crash(ws, ss)
    BY Zenon, <1>2, <1>4, <2>2 DEF Environment, EditSource, Webhook, EditWorkload, DeleteWorkload,
              WorkloadChange, Resync
  <2> QED BY Zenon, <2>1, <2>2
<1>5. CASE WatchEdit
  <2>1. CASE \E value \in Kubeconfig : EditKubeconfig(value)
    BY Zenon, <2>1 DEF EditKubeconfig, ClientsTyped
  <2>2. CASE \E k \in Kubeconfig : ClientBreaks(k)
    <3>1. kubeSecret' = kubeSecret /\ DOMAIN clients' = DOMAIN clients
      BY Zenon, <2>2 DEF ClientBreaks
    <3> QED BY Zenon, <1>1, <3>1
  <2> QED BY Zenon, <1>2, <1>5, <2>1, <2>2 DEF WatchEdit, EditWatch, EditDSNSecret
<1>6. CASE WatchStep
  BY Zenon, <1>2, <1>3, <1>6 DEF WatchStep, StartWatch, UpdateStatus, apiVars
<1>7. CASE Sweep
  <2>1. kubeSecret' = kubeSecret /\ DOMAIN clients' \subseteq DOMAIN clients
    BY Zenon, <1>7 DEF Sweep, apiVars
  <2> QED BY Zenon, <1>1, <2>1
<1>8. CASE WorkerStep
  BY Zenon, <1>2, <1>8 DEF WorkerStep, PollTick, PeriodicTick, HandleRegression, NotifyRegression,
            RecordRegression, apiVars
<1>9. CASE SourceStep \/ WorkloadStep \/ RollOn \/ UNCHANGED vars
  BY Zenon, <1>2, <1>9 DEF SourceStep, ReconcileSource, SetRoute, UpdateSourceStatus, WorkloadStep,
            ReconcileWorkload, TakeMatch, AddRollout, EndReport, RollOn, WorkloadChange, vars,
            watchVars, apiVars
<1> QED BY Zenon, <1>4, <1>5, <1>6, <1>7, <1>8, <1>9 DEF Next

\* A cursor never passes the end of its Store, which only grows while the process
\* lives.
LEMMA CursorsStep ==
  ASSUME CursorsTyped, StoreInv, [Next]_vars
  PROVE  CursorsTyped'
<1>0. \A r \in Runtime : events[r] \in Seq(Event) /\ cursor[r] \in Nat /\ Len(events[r]) \in Nat
  <2>1. \A r \in Runtime : events[r] \in Seq(Event) /\ cursor[r] \in Nat
    BY Zenon DEF StoreInv
  <2> QED BY <2>1
<1>1. CASE UNCHANGED <<cursor, events>>
  BY Zenon, <1>1 DEF CursorsTyped
<1>2. ASSUME NEW r0, NEW ev, AddTo(r0, ev), cursor' = cursor PROVE CursorsTyped'
  <2> SUFFICES ASSUME NEW r \in Runtime PROVE cursor'[r] <= Len(events'[r])
    BY Zenon DEF CursorsTyped
  <2>1. events'[r] = events[r] \/ events'[r] = Append(events[r], ev)
    BY Zenon, <1>2 DEF AddTo, StoreInv
  <2>2. cursor'[r] = cursor[r] /\ cursor[r] <= Len(events[r])
    BY Zenon, <1>2 DEF CursorsTyped
  <2>3. Len(Append(events[r], ev)) = Len(events[r]) + 1
    BY <1>0
  <2>4. Len(events'[r]) = Len(events[r]) \/ Len(events'[r]) = Len(events[r]) + 1
    BY Zenon, <2>1, <2>3
  <2> QED BY <1>0, <2>2, <2>4
<1>3. ASSUME NEW r0 \in Runtime, PollTick(r0) PROVE CursorsTyped'
  <2>1. events' = events /\ cursor' = [cursor EXCEPT ![r0] = Len(events[r0])]
    BY Zenon, <1>3 DEF PollTick, CursorAfter
  <2> SUFFICES ASSUME NEW r \in Runtime PROVE cursor'[r] <= Len(events'[r])
    BY Zenon DEF CursorsTyped
  <2>2. cursor'[r] = cursor[r] \/ cursor'[r] = Len(events[r])
    BY Zenon, <2>1 DEF StoreInv
  <2>3. cursor[r] <= Len(events[r]) /\ events'[r] = events[r]
    BY Zenon, <2>1 DEF CursorsTyped
  <2>4. Len(events[r]) <= Len(events[r])
    BY <1>0
  <2> QED BY Zenon, <2>2, <2>3, <2>4
<1>4. CASE Environment
  <2>1. CASE \E ws \in SUBSET Watch, ss \in SUBSET Source : Crash(ws, ss)
    <3>1. \A r \in Runtime : cursor'[r] = 0 /\ events'[r] = <<>>
      BY Zenon, <2>1 DEF Crash
    <3>2. 0 <= Len(<<>>)
      OBVIOUS
    <3> QED BY Zenon, <3>1, <3>2 DEF CursorsTyped
  <2>2. CASE \E s \in Source, id \in WebhookID : Webhook(s, id)
    BY Zenon, <1>2, <2>2 DEF Webhook
  <2>3. CASE \/ \E s \in Source, spec \in SourceSpec \cup {Absent} : EditSource(s, spec)
             \/ \E kind \in Kind, rev \in Revision : EditWorkload(kind, rev)
             \/ DeleteWorkload
             \/ \E q \in Request : Resync(q)
    BY Zenon, <1>1, <2>3 DEF EditSource, EditWorkload, DeleteWorkload, WorkloadChange, Resync, workerVars
  <2> QED BY Zenon, <1>4, <2>1, <2>2, <2>3 DEF Environment
<1>5. CASE WatchEdit
  BY Zenon, <1>1, <1>5 DEF WatchEdit, EditWatch, EditDSNSecret, EditKubeconfig, ClientBreaks, workerVars
<1>6. CASE WatchStep \/ Sweep
  BY Zenon, <1>1, <1>6 DEF WatchStep, ReconcileWatch, StartWatch, UpdateStatus, Sweep, workerVars
<1>7. CASE WorkerStep
  BY Zenon, <1>1, <1>3, <1>7 DEF WorkerStep, PeriodicTick, HandleRegression, NotifyRegression,
            RecordRegression
<1>8. CASE WorkloadStep
  BY Zenon, <1>1, <1>2, <1>8 DEF WorkloadStep, ReconcileWorkload, TakeMatch, AddRollout, EndReport,
            watchVars, workerVars
<1>9. CASE SourceStep \/ RollOn \/ UNCHANGED vars
  BY Zenon, <1>1, <1>9 DEF SourceStep, ReconcileSource, SetRoute, UpdateSourceStatus, RollOn,
            WorkloadChange, vars, watchVars, workerVars
<1> QED BY Zenon, <1>4, <1>5, <1>6, <1>7, <1>8, <1>9 DEF Next

\* What a loop handles is a regression, and it is recorded under an object's name.
LEMMA RecordsStep ==
  ASSUME RecordsTyped, DueInv, TaskInv, [Next]_vars
  PROVE  RecordsTyped'
<1>1. CASE UNCHANGED <<task, regressions>>
  BY Zenon, <1>1 DEF RecordsTyped
<1>2. Idle.step = "idle"
  BY DEF Idle
<1>3. ASSUME NEW l \in Loop, HandleRegression(l) PROVE RecordsTyped'
  <2>1. PICK reg \in due[l] : \E abort \in AbortOutcomes(l[1], reg) : TakeUp(l, reg, abort)
    BY Zenon, <1>3 DEF HandleRegression
  <2>2. PICK abort : task' = [task EXCEPT ![l] = [step |-> "notify", reg |-> reg, abort |-> abort]]
    BY Zenon, <2>1 DEF TakeUp
  <2>3. reg \in Regression
    BY Zenon, <2>1 DEF DueInv
  <2>4. PICK t : t = [step |-> "notify", reg |-> reg, abort |-> abort]
    BY Zenon
  <2>5. t.reg = reg
    BY <2>4
  <2>6. ASSUME NEW k \in Loop, task'[k] # Idle PROVE task'[k].reg \in Regression
    BY Zenon, <2>2, <2>3, <2>4, <2>5, <2>6 DEF RecordsTyped, TaskInv
  <2>7. regressions' = regressions
    BY Zenon, <1>3 DEF HandleRegression
  <2> QED BY Zenon, <2>6, <2>7 DEF RecordsTyped
<1>4. ASSUME NEW l \in Loop, NotifyRegression(l) PROVE RecordsTyped'
  <2>1. task' = [task EXCEPT ![l].step = "record"] /\ regressions' = regressions
    BY Zenon, <1>4 DEF NotifyRegression, apiVars
  <2>2. task[l] # Idle
    BY Zenon, <1>2, <1>4 DEF NotifyRegression
  <2>3. "reg" \in DOMAIN task[l] /\ task[l].reg \in Regression
    BY Zenon, <2>2 DEF TaskInv, RecordsTyped
  <2>4. task'[l] = [task[l] EXCEPT !.step = "record"] /\ \A k \in Loop : k # l => task'[k] = task[k]
    BY Zenon, <2>1 DEF TaskInv
  <2>5. task'[l].reg = task[l].reg
    BY <2>3, <2>4
  <2>6. ASSUME NEW k \in Loop, task'[k] # Idle PROVE task'[k].reg \in Regression
    BY Zenon, <2>3, <2>4, <2>5, <2>6 DEF RecordsTyped
  <2> QED BY Zenon, <2>1, <2>6 DEF RecordsTyped
<1>5. ASSUME NEW l \in Loop, RecordRegression(l) PROVE RecordsTyped'
  <2>1. task[l] # Idle
    BY Zenon, <1>2, <1>5 DEF RecordRegression
  <2>2. PICK reg : reg = task[l].reg
    BY Zenon
  <2>3. reg \in Regression
    BY Zenon, <2>1, <2>2 DEF RecordsTyped
  <2>4. reg.event \in Event \cup {NoEvent}
    BY <2>3 DEF Regression
  <2>5. RecordName(reg) \in ObjectName
    <3>1. CASE reg.event = NoEvent
      BY Zenon, <3>1, WatchControllerAssumption DEF RecordName
    <3>2. CASE reg.event # NoEvent
      <4>1. reg.event.id \in EventID
        BY Zenon, <2>4, <3>2 DEF Event
      <4> QED BY Zenon, <3>2, <4>1, WatchControllerAssumption DEF RecordName, EventID
    <3> QED BY Zenon, <3>1, <3>2
  <2>6. DOMAIN regressions' \subseteq DOMAIN regressions \cup {RecordName(reg)}
    <3>1. PICK entry : regressions' = regressions \/ regressions' = Recorded(RecordName(reg), entry)
      BY Zenon, <1>5, <2>2 DEF RecordRegression
    <3> QED BY Zenon, <3>1 DEF Recorded
  <2>7. task' = [task EXCEPT ![l] = Idle]
    BY Zenon, <1>5 DEF RecordRegression
  <2>8. ASSUME NEW k \in Loop, task'[k] # Idle PROVE task'[k].reg \in Regression
    BY Zenon, <2>7, <2>8 DEF RecordsTyped, TaskInv
  <2> QED BY Zenon, <2>5, <2>6, <2>8 DEF RecordsTyped
<1>6. CASE Environment
  <2>1. CASE \E ws \in SUBSET Watch, ss \in SUBSET Source : Crash(ws, ss)
    BY Zenon, <2>1 DEF Crash, RecordsTyped
  <2>2. CASE ~ \E ws \in SUBSET Watch, ss \in SUBSET Source : Crash(ws, ss)
    BY Zenon, <1>1, <1>6, <2>2 DEF Environment, EditSource, Webhook, EditWorkload, DeleteWorkload,
              WorkloadChange, Resync, workerVars
  <2> QED BY Zenon, <2>1, <2>2
<1>7. CASE WatchEdit
  BY Zenon, <1>1, <1>7 DEF WatchEdit, EditWatch, EditDSNSecret, EditKubeconfig, ClientBreaks, workerVars
<1>8. CASE WatchStep \/ Sweep
  BY Zenon, <1>1, <1>8 DEF WatchStep, ReconcileWatch, StartWatch, UpdateStatus, Sweep, workerVars, apiVars
<1>9. CASE WorkerStep
  BY Zenon, <1>1, <1>3, <1>4, <1>5, <1>9 DEF WorkerStep, PollTick, PeriodicTick
<1>10. CASE SourceStep \/ WorkloadStep \/ RollOn \/ UNCHANGED vars
  BY Zenon, <1>1, <1>10 DEF SourceStep, ReconcileSource, SetRoute, UpdateSourceStatus, WorkloadStep,
            ReconcileWorkload, TakeMatch, AddRollout, EndReport, RollOn, WorkloadChange, vars,
            watchVars, apiVars, workerVars
<1> QED BY Zenon, <1>6, <1>7, <1>8, <1>9, <1>10 DEF Next

\* What was reported, or is owed, is a revision of a source.
LEMMA ReportsStep ==
  ASSUME ReportsTyped, RolloutInv, RolloutInv', [Next]_vars
  PROVE  ReportsTyped'
<1>1. CASE UNCHANGED <<lastRevision, owed, reported>>
  BY Zenon, <1>1 DEF ReportsTyped
<1>2. CASE UNCHANGED lastRevision /\ reported' \subseteq reported /\ owed' \subseteq owed
  BY Zenon, <1>2 DEF ReportsTyped
<1>3. CASE ReconcileWorkload
  <2>1. reported' = reported
    BY Zenon, <1>3 DEF ReconcileWorkload
  <2>2. CASE workload = Absent
    <3>1. lastRevision' = [s \in Source |-> ""] /\ owed' = owed
      BY Zenon, <1>3, <2>2 DEF ReconcileWorkload
    <3> QED BY Zenon, <2>1, <3>1 DEF ReportsTyped
  <2>3. CASE workload # Absent /\ owed' # owed
    <3>1. lastRevision' = lastRevision
      BY Zenon, <1>3, <2>3 DEF ReconcileWorkload
    <3>2. PICK rev : /\ reporting'.rev = rev /\ reporting' # Idle
                     /\ owed' = owed \cup {<<s, rev>> : s \in
                                           {s \in Source : Matches(sourceSpec[s], workload.kind)}}
      <4>1. PICK rev : rev = StatusOf(workload).updateRevision
        BY Zenon
      <4>2. /\ reporting' = [step |-> "match", rev |-> rev,
                              left |-> {<<s, sourceSpec[s].ref>> : s \in
                                        {s \in Source : Matches(sourceSpec[s], workload.kind)}},
                              source |-> "", runtime |-> None, requeue |-> FALSE]
            /\ owed' = owed \cup {<<s, rev>> : s \in
                                  {s \in Source : Matches(sourceSpec[s], workload.kind)}}
        BY Zenon, <1>3, <2>3, <4>1 DEF ReconcileWorkload
      <4>3. reporting'.rev = rev /\ reporting'.step = "match"
        BY <4>2
      <4>4. Idle.step = "idle"
        BY DEF Idle
      <4> QED BY Zenon, <4>2, <4>3, <4>4
    <3>3. rev \in Revision
      BY Zenon, <3>2 DEF RolloutInv
    <3>4. \A s \in Source : <<s, rev>> \in Source \X Revision
      BY <3>3
    <3>5. owed' \subseteq Source \X Revision
      BY Zenon, <3>2, <3>4 DEF ReportsTyped
    <3> QED BY Zenon, <2>1, <3>1, <3>5 DEF ReportsTyped
  <2>4. CASE workload # Absent /\ owed' = owed
    <3>1. lastRevision' = lastRevision
      BY Zenon, <1>3, <2>4 DEF ReconcileWorkload
    <3> QED BY Zenon, <1>1, <2>1, <2>4, <3>1
  <2> QED BY Zenon, <2>2, <2>3, <2>4
<1>4. CASE AddRollout
  <2>1. reporting.step = "add" /\ Idle.step = "idle"
    BY <1>4 DEF AddRollout, Idle
  <2>2. reporting.rev \in Revision /\ reporting.source \in Source
    BY Zenon, <2>1 DEF RolloutInv
  <2>3. /\ lastRevision' = [lastRevision EXCEPT ![reporting.source] = reporting.rev]
        /\ reported' \subseteq reported \cup {<<reporting.source, reporting.rev>>} /\ owed' = owed
    BY Zenon, <1>4 DEF AddRollout
  <2>4. lastRevision' \in [Source -> Revision \cup {""}]
    BY Zenon, <2>2, <2>3 DEF ReportsTyped
  <2>5. <<reporting.source, reporting.rev>> \in Source \X Revision
    BY <2>2
  <2>6. reported' \subseteq Source \X Revision
    BY Zenon, <2>3, <2>5 DEF ReportsTyped
  <2> QED BY Zenon, <2>3, <2>4, <2>6 DEF ReportsTyped
<1>5. CASE Environment
  <2>1. CASE \E ws \in SUBSET Watch, ss \in SUBSET Source : Crash(ws, ss)
    BY Zenon, <2>1 DEF Crash, ReportsTyped
  <2>2. CASE ~ \E ws \in SUBSET Watch, ss \in SUBSET Source : Crash(ws, ss)
    BY Zenon, <1>2, <1>5, <2>2 DEF Environment, EditSource, Webhook, EditWorkload, DeleteWorkload,
              WorkloadChange, Resync, workloadVars
  <2> QED BY Zenon, <2>1, <2>2
<1>6. CASE UNCHANGED <<sourceVars, workloadVars>>
  BY Zenon, <1>1, <1>6 DEF workloadVars
<1>7. CASE SourceStep \/ UNCHANGED vars
  BY Zenon, <1>1, <1>7 DEF SourceStep, ReconcileSource, SetRoute, UpdateSourceStatus, vars, workloadVars
<1>8. CASE WorkloadStep \/ RollOn
  BY Zenon, <1>1, <1>3, <1>4, <1>8 DEF WorkloadStep, TakeMatch, EndReport, RollOn, WorkloadChange
<1> QED BY Zenon, <1>5, <1>6, <1>7, <1>8 DEF Next

\* Every edit or fault is counted, up to the bound.
LEMMA EditsStep ==
  ASSUME EditsTyped, [Next]_vars
  PROVE  EditsTyped'
<1>1. CASE UNCHANGED <<allowed, edits>>
  BY Zenon, <1>1 DEF EditsTyped
<1>2. ASSUME NEW kind, Edit(kind) PROVE EditsTyped'
  <2>1. edits < allowed.most /\ edits' = edits + 1 /\ allowed' = allowed
    BY Zenon, <1>2 DEF Edit
  <2>2. allowed \in Disturbances /\ edits \in Nat
    BY Zenon DEF EditsTyped
  <2>3. allowed.most \in Nat
    BY Zenon, <2>2, WatchControllerAssumption
  <2>4. edits' \in Nat /\ edits' <= allowed.most
    BY <2>1, <2>2, <2>3
  <2> QED BY Zenon, <2>1, <2>2, <2>4 DEF EditsTyped
<1>3. CASE Environment
  BY Zenon, <1>1, <1>2, <1>3 DEF Environment, EditSource, Webhook, EditWorkload, DeleteWorkload,
            Resync, Crash
<1>4. CASE WatchEdit
  BY Zenon, <1>1, <1>2, <1>4 DEF WatchEdit, EditWatch, EditDSNSecret, EditKubeconfig, ClientBreaks
<1>5. CASE WatchStep \/ Sweep
  BY Zenon, <1>1, <1>2, <1>5 DEF WatchStep, ReconcileWatch, StartWatch, UpdateStatus, Sweep, apiVars
<1>6. CASE WorkerStep
  BY Zenon, <1>1, <1>2, <1>6 DEF WorkerStep, PollTick, PeriodicTick, HandleRegression,
            NotifyRegression, RecordRegression, apiVars
<1>7. CASE SourceStep \/ RollOn \/ UNCHANGED vars
  BY Zenon, <1>1, <1>2, <1>7 DEF SourceStep, ReconcileSource, SetRoute, UpdateSourceStatus, RollOn,
            vars, watchVars, apiVars
<1>8. CASE WorkloadStep
  BY Zenon, <1>1, <1>8 DEF WorkloadStep, ReconcileWorkload, TakeMatch, AddRollout, EndReport,
            watchVars, apiVars
<1> QED BY Zenon, <1>3, <1>4, <1>5, <1>6, <1>7, <1>8 DEF Next

LEMMA TypeStep ==
  ASSUME ManagerInv, AbortInv, AbortInv', TypeInv, [Next]_vars
  PROVE  TypeInv'
<1>1. RegistryInv /\ RouteInv /\ StoreInv /\ RolloutInv /\ RolloutInv' /\ DueInv /\ TaskInv
  BY Zenon DEF ManagerInv, AbortInv, FeedInv, TellInv
<1> QED BY Zenon, <1>1, WatchesStep, SourcesStep, QueueStep, ClientsStep, CursorsStep, RecordsStep,
           ReportsStep, EditsStep DEF TypeInv

\* Specs, statuses, queue, registry, Stores with their cursors, caches and reports
\* keep their types for every set of objects, however edits, faults, restarts and
\* the three controllers interleave: in particular a cursor is never past the end of
\* its Store, so that no event is skipped (postgreswatch_controller.go:720-745).
THEOREM ManagerTypeCorrect == ManagerSpec => []ManagerTypeOK
<1>1. ManagerInv /\ AbortInv /\ TypeInv => ManagerTypeOK
  <2> SUFFICES ASSUME ManagerInv, AbortInv, TypeInv PROVE ManagerTypeOK
    OBVIOUS
  <2>1. WatchesTyped /\ SourcesTyped /\ QueueTyped /\ ClientsTyped /\ RecordsTyped /\ ReportsTyped
    BY Zenon DEF TypeInv
  <2>2. /\ registry \in [Watch -> Runtime \cup {None}] /\ routes \in [Source -> Runtime \cup {None}]
        /\ live \subseteq {r \in Runtime : Started(r)}
    BY Zenon DEF ManagerInv, RegistryInv, RouteInv, LiveIsRegistered
  <2>3. ASSUME NEW r \in Runtime
        PROVE  pending[r] \subseteq Event /\ cursor[r] \in 0 .. Len(events[r])
    <3>1. pending[r] \subseteq Event /\ events[r] \in Seq(Event) /\ cursor[r] \in Nat
      BY Zenon DEF AbortInv, FeedInv, StoreInv
    <3>2. cursor[r] <= Len(events[r])
      BY Zenon DEF TypeInv, CursorsTyped
    <3>3. cursor[r] \in 0 .. Len(events[r])
      BY <3>1, <3>2
    <3> QED BY Zenon, <3>1, <3>3
  <2>4. \A l \in Loop : due[l] \subseteq Regression
    BY Zenon DEF AbortInv, TellInv, DueInv
  <2>5. edits \in 0 .. allowed.most
    <3>1. allowed.most \in Nat /\ edits \in Nat /\ edits <= allowed.most
      BY Zenon, WatchControllerAssumption DEF TypeInv, EditsTyped
    <3> QED BY <3>1
  <2> QED BY Zenon, <2>1, <2>2, <2>3, <2>4, <2>5
         DEF ManagerTypeOK, WatchesTyped, SourcesTyped, QueueTyped, ClientsTyped, RecordsTyped,
             ReportsTyped
<1> QED BY <1>1, ManagerInit, ManagerStep, AbortInit, AbortStep, TypeInit, TypeStep, PTL
        DEF ManagerSpec
=============================================================================
