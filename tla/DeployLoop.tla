----------------------------- MODULE DeployLoop -----------------------------
(***************************************************************************)
(* The life of a deploy event in cmd/operator: a webhook delivery is       *)
(* parsed and put in the ingester's Store; the poll loop drains the store, *)
(* mirrors each event into the durable EventStore, registers it with the   *)
(* PendingSet and re-analyses the pending events until their window is     *)
(* over; a crash loses everything but the durable table, and the next      *)
(* process backfills the Store from it.                                    *)
(*                                                                         *)
(* Three actors interleave: HTTP handlers (Webhook), the poll loop         *)
(* (Drain to TickEnd) and the prune loop of the durable table.  What an    *)
(* analysis finds is not modelled here (see DeployAnalysis): this module   *)
(* is about which events get analysed, how often and until when.           *)
(***************************************************************************)
EXTENDS DeployStore

CONSTANTS
  Deploy,          \* webhook payloads that senders may deliver, see IsDeploy
  Window,          \* Engine.AnalysisWindow()
  Retention,       \* --retention-minutes: how far back a restart backfills
  StateRetention,  \* --state-retention of the durable table, 0 disables pruning
  MaxTime,         \* bound: the clock stops here
  MaxDeliveries    \* bound: webhook requests in a behaviour, retries included

SourceTypes == {"argocd", "argo-rollouts", "flux", "generic"}

(***************************************************************************)
(* A payload: its source type; the deploy it announces (application and    *)
(* revision); whether a generic payload names its own ID; the timestamp it *)
(* carries (0: none); whether the handler takes it (POST, right token,     *)
(* decodable, of the configured app).                                      *)
(***************************************************************************)
IsDeploy(d) ==
  /\ d.source \in SourceTypes
  /\ d.named \in BOOLEAN
  /\ d.time \in Nat
  /\ d.accepted \in BOOLEAN

ASSUME DeployAssumption == \A d \in Deploy : IsDeploy(d)

ASSUME TimeAssumption ==
  /\ Window \in Nat
  /\ Retention \in Nat
  /\ StateRetention \in Nat
  /\ MaxTime \in Nat
  /\ MaxDeliveries \in Nat

VARIABLES
  now,       \* the wall clock
  nano,      \* requests served so far; stands for UnixNano, never the same twice
  phase,     \* "starting" | "running" | "down"
  loading,   \* events Store.Backfill still has to add
  cursor,    \* the poll loop's DrainSince cursor
  step,      \* where the poll loop is: "wait" | "persist" | "register"
             \* | "tickstart" | "tick"
  batch,     \* drained events not yet registered, head first
  pending,   \* PendingSet.pending
  live,      \* Tick's rebuilt slice
  tickNow,   \* Tick's captured clock
  durable,   \* the deploy_events table, one row per ID
  base,      \* history: the cursor this process started with
  registered,\* history: events this process passed to PendingSet.Add, in order
  unsaved,   \* history: events whose durable write failed
  handled,   \* history: events whose analysis window some process saw out
  reloaded   \* history: events some process started with its cursor past

loopVars == <<cursor, step, batch, pending, live, tickNow>>
history == <<base, registered, unsaved, handled, reloaded>>
vars == <<now, nano, phase, loading, storeVars, loopVars, durable, history>>

Key == {d.key : d \in Deploy}

EventID == SourceTypes \X Key \X Nat

Event == [id : EventID, key : Key, at : Nat]

Pending == [ev : Event, deadline : Nat]

Init ==
  /\ now = 1
  /\ nano = 0
  /\ phase = "running"
  /\ loading = <<>>
  /\ StoreInit
  /\ cursor = 0
  /\ step = "wait"
  /\ batch = <<>>
  /\ pending = <<>>
  /\ live = <<>>
  /\ tickNow = 0
  /\ durable = {}
  /\ base = 0
  /\ registered = <<>>
  /\ unsaved = {}
  /\ handled = {}
  /\ reloaded = {}
-----------------------------------------------------------------------------
(***************************************************************************)
(* The four payload parsers.  ArgoCD and Argo Rollouts build the ID from   *)
(* application and revision and stamp the event with the receiver's clock; *)
(* Flux builds a new ID from the clock for every request and trusts the    *)
(* payload's timestamp; a generic payload may bring both.                  *)
(***************************************************************************)
ClockID(d) == d.source = "flux" \/ (d.source = "generic" /\ ~d.named)

PayloadTime(d) == d.source \in {"flux", "generic"} /\ d.time # 0

ParsePayload(d) ==
  [id  |-> <<d.source, d.key, IF ClockID(d) THEN nano + 1 ELSE 0>>,
   key |-> d.key,
   at  |-> IF PayloadTime(d) THEN d.time ELSE now]

\* Handler.ServeHTTP: a request it rejects, or of another app, changes
\* nothing.  The third conjunct only bounds the model: every deadline must be
\* reachable before the clock stops.
Webhook(d) ==
  /\ phase = "running"
  /\ nano < MaxDeliveries
  /\ ParsePayload(d).at + Window <= MaxTime
  /\ nano' = nano + 1
  /\ IF d.accepted THEN StoreAdd(ParsePayload(d)) ELSE UNCHANGED storeVars
  /\ UNCHANGED <<now, phase, loading, loopVars, durable, history>>
-----------------------------------------------------------------------------
\* One 5 s tick of the poll loop begins: store.DrainSince(cursor).
Drain ==
  /\ phase = "running" /\ step = "wait"
  /\ batch' = DrainedSince(cursor)
  /\ cursor' = CursorAfter(cursor)
  /\ step' = IF batch' = <<>> THEN "tickstart" ELSE "persist"
  /\ UNCHANGED <<now, nano, phase, loading, storeVars, pending, live, tickNow,
                 durable, history>>

\* Mutant: ON CONFLICT (id) DO NOTHING.
InsertIfAbsent(table, ev) ==
  IF \E e \in table : e.id = ev.id THEN table ELSE table \cup {ev}

Upsert(table, ev) == {e \in table : e.id # ev.id} \cup {ev}

\* eventStore.Add(ev): an upsert by ID.  An error is only logged.
PersistEvent ==
  /\ phase = "running" /\ step = "persist"
  /\ \/ /\ durable' = Upsert(durable, Head(batch))
        /\ UNCHANGED unsaved
     \/ /\ unsaved' = unsaved \cup {Head(batch)}
        /\ UNCHANGED durable
  /\ step' = "register"
  /\ UNCHANGED <<now, nano, phase, loading, storeVars, cursor, batch, pending,
                 live, tickNow, base, registered, handled, reloaded>>

Deadline(ev) == ev.at + Window

\* pending.Add(ev), and on to the next event of the batch or to Tick.
RegisterEvent ==
  /\ phase = "running" /\ step = "register"
  /\ pending' = Append(pending, [ev |-> Head(batch), deadline |-> Deadline(Head(batch))])
  /\ registered' = Append(registered, Head(batch))
  /\ batch' = Tail(batch)
  /\ step' = IF batch' = <<>> THEN "tickstart" ELSE "persist"
  /\ UNCHANGED <<now, nano, phase, loading, storeVars, cursor, live, tickNow,
                 durable, base, unsaved, handled, reloaded>>

\* PendingSet.Tick begins by reading the clock.
TickStart ==
  /\ phase = "running" /\ step = "tickstart"
  /\ tickNow' = now
  /\ step' = "tick"
  /\ UNCHANGED <<now, nano, phase, loading, storeVars, cursor, batch, pending,
                 live, durable, history>>

\* Mutant: the event is retired one unit before its deadline.
OpenTooShort(p) == tickNow + 1 < p.deadline

\* now.Before(pe.deadline)
StillOpen(p) == tickNow < p.deadline

\* One iteration of Tick: Analyse the event, then keep it or retire it by the
\* clock read before the first iteration.
TickEvent ==
  /\ phase = "running" /\ step = "tick" /\ pending # <<>>
  /\ pending' = Tail(pending)
  /\ IF StillOpen(Head(pending))
     THEN live' = Append(live, Head(pending)) /\ UNCHANGED handled
     ELSE handled' = handled \cup {Head(pending).ev} /\ UNCHANGED live
  /\ UNCHANGED <<now, nano, phase, loading, storeVars, cursor, step, batch,
                 tickNow, durable, base, registered, unsaved, reloaded>>

\* p.pending = live, and back to the ticker.
TickEnd ==
  /\ phase = "running" /\ step = "tick" /\ pending = <<>>
  /\ pending' = live
  /\ live' = <<>>
  /\ step' = "wait"
  /\ UNCHANGED <<now, nano, phase, loading, storeVars, cursor, batch, tickNow,
                 durable, history>>
-----------------------------------------------------------------------------
\* One sweep of RunPruneLoop over the durable events; a failed sweep is
\* logged and changes nothing, retention 0 disables the loop.
Prune ==
  /\ phase = "running" /\ StateRetention > 0
  /\ durable' = {e \in durable : e.at >= now - StateRetention}
  /\ UNCHANGED <<now, nano, phase, loading, storeVars, loopVars, history>>

\* The process dies; only the durable table survives.
Crash ==
  /\ phase # "down"
  /\ phase' = "down"
  /\ loading' = <<>>
  /\ StoreReset
  /\ cursor' = 0 /\ step' = "wait" /\ tickNow' = 0
  /\ batch' = <<>> /\ pending' = <<>> /\ live' = <<>>
  /\ base' = 0 /\ registered' = <<>>
  /\ UNCHANGED <<now, nano, durable, unsaved, handled, reloaded>>

\* EventsInRange(now - retention, now) of the durable store, ORDER BY
\* event_timestamp (rows with equal timestamps in any order).
Recent == {e \in durable : now - Retention <= e.at /\ e.at <= now}

LoadOrders == {s \in Injection(1 .. Cardinality(Recent), Recent) : Chronological(s)}

\* A new process loads the recent events; if that fails it starts cold.
Restart ==
  /\ phase = "down"
  /\ phase' = "starting"
  /\ loading' \in LoadOrders \cup {<<>>}
  /\ UNCHANGED <<now, nano, storeVars, loopVars, durable, history>>

\* Store.Backfill adds the loaded events in turn.  Nothing else runs yet, so
\* splitting its critical section is harmless.
BackfillEvent ==
  /\ phase = "starting" /\ loading # <<>>
  /\ StoreAdd(Head(loading))
  /\ loading' = Tail(loading)
  /\ UNCHANGED <<now, nano, phase, loopVars, durable, history>>

\* Mutant: the cursor of a backfilled store starts at zero.
StartedFromZero ==
  /\ phase = "starting" /\ loading = <<>>
  /\ phase' = "running"
  /\ cursor' = 0
  /\ base' = 0
  /\ reloaded' = reloaded \cup Range(events)
  /\ UNCHANGED <<now, nano, loading, storeVars, step, batch, pending, live,
                 tickNow, durable, registered, unsaved, handled>>

\* Backfill returns len(events), which becomes the initial cursor; then the
\* servers and the loops start.
Started ==
  /\ phase = "starting" /\ loading = <<>>
  /\ phase' = "running"
  /\ cursor' = Len(events)
  /\ base' = Len(events)
  /\ reloaded' = reloaded \cup Range(events)
  /\ UNCHANGED <<now, nano, loading, storeVars, step, batch, pending, live,
                 tickNow, durable, registered, unsaved, handled>>

Elapse ==
  /\ now < MaxTime
  /\ now' = now + 1
  /\ UNCHANGED <<nano, phase, loading, storeVars, loopVars, durable, history>>

PollLoop ==
  Drain \/ PersistEvent \/ RegisterEvent \/ TickStart \/ TickEvent \/ TickEnd

Startup == Restart \/ BackfillEvent \/ Started

Next ==
  \/ \E d \in Deploy : Webhook(d)
  \/ PollLoop
  \/ Prune
  \/ Crash
  \/ Startup
  \/ Elapse

Spec == Init /\ [][Next]_vars

\* The poll loop is a goroutine of its own on a ticker, and time passes.
FairSpec == Spec /\ WF_vars(PollLoop) /\ WF_vars(Elapse)
-----------------------------------------------------------------------------
TypeOK ==
  /\ now \in Nat /\ nano \in Nat /\ tickNow \in Nat
  /\ phase \in {"starting", "running", "down"}
  /\ step \in {"wait", "persist", "register", "tickstart", "tick"}
  /\ loading \in Seq(Event) /\ batch \in Seq(Event) /\ registered \in Seq(Event)
  /\ events \in Seq(Event) /\ byTime \in Seq(Event)
  /\ ids \subseteq EventID
  /\ cursor \in 0 .. Len(events) /\ base \in 0 .. Len(events)
  /\ pending \in Seq(Pending) /\ live \in Seq(Pending)
  /\ durable \subseteq Event /\ unsaved \subseteq Event
  /\ handled \subseteq Event /\ reloaded \subseteq Event

\* Every event a process accepted after its start is passed to PendingSet.Add
\* exactly once, in arrival order, however webhooks interleave with the drain:
\* what is registered, followed by what is drained and still to register, is
\* the log between the initial and the current cursor.
HandedOverInOrder == registered \o batch = SubSeq(events, base + 1, cursor)

\* A restart does not analyse again what an earlier process already stored:
\* no event registered by this process has the ID of a backfilled one, not
\* even after the sender repeats its webhook (operator.go:361-369).
NoReplay ==
  \A i \in 1 .. Len(registered), j \in 1 .. base : registered[i].id # events[j].id

Tracked == Range(pending) \cup Range(live)

\* PendingSet never drops an event early: a registered event is still under
\* retry with its own deadline, or was retired after that deadline.
RegisteredIsTracked ==
  \A e \in Range(registered) :
    \/ [ev |-> e, deadline |-> Deadline(e)] \in Tracked
    \/ e \in handled /\ Deadline(e) <= now

\* An event under analysis is in the durable table unless its write failed or
\* the prune loop aged it out: a crash cannot make the system forget an event
\* it was still analysing (it is written before it is registered).
PendingIsDurable ==
  \A p \in Tracked :
    (StateRetention = 0 \/ p.ev.at >= now - StateRetention)
      => p.ev \in durable \cup unsaved

\* EventsInRange agrees with a scan of the log, for every range of the model.
RangeQueryExact == RangeIsExact(0 .. MaxTime)

\* Every event a running process accepted is registered, analysed and seen
\* out to the end of its window, unless the process dies first: PendingSet
\* does not grow without bound (operator.go:519-526).
AcceptedIsSeenOut ==
  \A k \in 1 .. MaxDeliveries :
    (phase = "running" /\ base < k /\ k <= Len(events))
      ~> (phase # "running" \/ (k <= Len(events) /\ events[k] \in handled))

(***************************************************************************)
(* The hand-over as a queue: what the store and the cursor are for.        *)
(***************************************************************************)
Queue == INSTANCE EventQueue WITH
  known <- ids,
  queue <- IF phase = "running" THEN batch \o DrainedSince(cursor) ELSE <<>>,
  handed <- registered

\* DeployLoop implements EventQueue: webhooks, drains, retries and restarts
\* together are a queue that hands each new event over once and in order, and
\* that only a crash can empty.
ImplementsQueue == Queue!Spec

\* What operator.go:364-365 says of the events it skips: a backfilled event is
\* "already-handled-in-a-previous-process-lifetime".
BackfilledIsHandled == reloaded \subseteq handled

\* What event_store.go:36-38 says: retried deliveries "don't create duplicate
\* rows", so the table holds one row per source and deploy.
OneRowPerDeploy ==
  \A e, f \in durable : e.key = f.key /\ e.id[1] = f.id[1] => e = f
=============================================================================
