----------------------------- MODULE DeployStore -----------------------------
(***************************************************************************)
(* internal/ingester.Store: the in-memory log of deploy events.            *)
(*                                                                         *)
(* Every method runs under the store's mutex, so each is one atomic step.  *)
(* `events` is in arrival order and only ever grows; `byTime` holds the    *)
(* same events sorted by Timestamp; `ids` is the set of IDs already taken. *)
(***************************************************************************)
EXTENDS TimeSeq

VARIABLES events, byTime, ids

storeVars == <<events, byTime, ids>>

\* NewStore, or the zero value &ingester.Store{} (nil ids are made lazily).
StoreInit ==
  /\ events = <<>>
  /\ byTime = <<>>
  /\ ids = {}

\* The same, as the state of a fresh process.
StoreReset ==
  /\ events' = <<>>
  /\ byTime' = <<>>
  /\ ids' = {}

\* Mutant: the index is appended to, as if events came in time order.
InsertAtEnd(s, ev) == Append(s, ev)

InsertByTime(s, ev) == InsertAfter(s, FirstAfter(s, ev.at), ev)

\* Mutant: Add without the check of s.ids.
StoreAddAgain(ev) ==
  /\ ids' = ids \cup {ev.id}
  /\ events' = Append(events, ev)
  /\ byTime' = InsertByTime(byTime, ev)

\* Add: the first event with an ID wins, a later one is dropped.
StoreAdd(ev) ==
  IF ev.id \in ids
  THEN UNCHANGED storeVars
  ELSE /\ ids' = ids \cup {ev.id}
       /\ events' = Append(events, ev)
       /\ byTime' = InsertByTime(byTime, ev)

\* Mutants: the slice starts one late; the cursor is one too high; it stays.
DrainedLate(c) == SubSeq(events, c + 2, Len(events))
CursorTooHigh(c) == Len(events) + 1
CursorKept(c) == c

\* DrainSince(c): the events after the cursor, copied, and the new cursor.
DrainedSince(c) == SubSeq(events, c + 1, Len(events))
CursorAfter(c) == IF c >= Len(events) THEN c ELSE Len(events)

\* Mutant: the search looks for the first event after `from`.
EventsAfter(from, to) ==
  LET lo == FirstAfter(byTime, from)
      tail == SubSeq(byTime, lo + 1, Len(byTime))
  IN  SubSeq(tail, 1, FirstAfter(tail, to))

\* EventsInRange: from the first event not before `from`, stop at the first
\* one after `to`.
EventsInRange(from, to) ==
  LET lo == FirstNotBefore(byTime, from)
      tail == SubSeq(byTime, lo + 1, Len(byTime))
  IN  SubSeq(tail, 1, FirstAfter(tail, to))
-----------------------------------------------------------------------------
\* The log, the time index and the ID set describe the same events: IDs are
\* unique, `ids` is exactly the IDs of the log, and byTime is the log sorted.
IdsMatchLog == ids = {events[i].id : i \in 1 .. Len(events)}

IdsUnique ==
  \A i, j \in 1 .. Len(events) : events[i].id = events[j].id => i = j

ByTimeIsLog ==
  /\ Len(byTime) = Len(events)
  /\ {byTime[i] : i \in 1 .. Len(byTime)} = {events[i] : i \in 1 .. Len(events)}

\* Safety of Store.Add/Backfill: whatever the order in which webhooks arrive,
\* the three structures agree and the time index stays sorted, which is what
\* EventsInRange's binary search relies on (ingester.go:59-66, 92-102).
StoreAgrees ==
  /\ IdsMatchLog
  /\ IdsUnique
  /\ ByTimeIsLog
  /\ Chronological(byTime)

\* EventsInRange returns exactly the logged events in [from, to], once each,
\* oldest first: the binary search plus early break against the plain scan
\* over the log that it replaces (ingester.go:104-122).
RangeIsExact(times) ==
  \A from, to \in times :
    LET r == EventsInRange(from, to)
        inRange == {i \in 1 .. Len(events) : from <= events[i].at /\ events[i].at <= to}
    IN  /\ Len(r) = Cardinality(inRange)
        /\ Range(r) = {events[i] : i \in inRange}
        /\ Chronological(r)
=============================================================================
