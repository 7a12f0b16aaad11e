------------------------------- MODULE TimeSeq -------------------------------
(***************************************************************************)
(* Sequences of time-stamped records, as the collector keeps per queryid   *)
(* and the ingester keeps in its byTime index.  A record's time is its     *)
(* field `at` (QuerySample.RecordedAt, DeployEvent.Timestamp).             *)
(*                                                                         *)
(* The two searches are Go's sort.Search as the code calls it: the number  *)
(* of leading elements the predicate rejects.  sort.Search is only defined *)
(* on a slice where the predicate is monotone, which is what Chronological *)
(* guarantees.                                                             *)
(***************************************************************************)
EXTENDS Integers, Sequences, FiniteSets, Functions

Chronological(s) ==
  \A i, j \in 1 .. Len(s) : i <= j => s[i].at <= s[j].at

\* sort.Search(len(s), func(i) { return !s[i].At.Before(t) })
FirstNotBefore(s, t) ==
  CHOOSE n \in 0 .. Len(s) :
    /\ \A i \in 1 .. n : s[i].at < t
    /\ n < Len(s) => s[n + 1].at >= t

\* sort.Search(len(s), func(i) { return s[i].At.After(t) })
FirstAfter(s, t) ==
  CHOOSE n \in 0 .. Len(s) :
    /\ \A i \in 1 .. n : s[i].at <= t
    /\ n < Len(s) => s[n + 1].at > t

\* The elements of s at the positions in I, in order.
Only(s, I) ==
  LET kept[n \in 0 .. Len(s)] ==
        IF n = 0 THEN <<>>
        ELSE IF n \in I THEN Append(kept[n - 1], s[n])
        ELSE kept[n - 1]
  IN  kept[Len(s)]

\* filterRange: the records of s with from <= at <= to, in order.
FilterRange(s, from, to) == Only(s, {i \in 1 .. Len(s) : s[i].at \in from .. to})

\* How often x occurs in s.
Occurrences(s, x) == Cardinality({i \in 1 .. Len(s) : s[i] = x})

\* s with x inserted after its first n elements.
InsertAfter(s, n, x) == SubSeq(s, 1, n) \o <<x>> \o SubSeq(s, n + 1, Len(s))

\* sort.Slice by RecordedAt, as an insertion sort.
SortByTime(s) ==
  LET sorted[n \in 0 .. Len(s)] ==
        IF n = 0 THEN <<>>
        ELSE InsertAfter(sorted[n - 1], FirstAfter(sorted[n - 1], s[n].at), s[n])
  IN  sorted[Len(s)]

\* A finite set of numbers in ascending order (sort.Slice over queryids).
Ascending(S) ==
  CHOOSE f \in [1 .. Cardinality(S) -> S] : \A i, j \in DOMAIN f : i < j => f[i] < f[j]
=============================================================================
