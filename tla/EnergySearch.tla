---------------------------- MODULE EnergySearch ----------------------------
(***************************************************************************)
(* internal/correlation/engine.go: E-divisive change-point detection       *)
(* (EDivisive, bestChangePoint).                                           *)
(*                                                                         *)
(* A series is a sequence of latencies.  A split k puts the first k values *)
(* before the change, as ChangePoint.Index does with a 0-based slice.      *)
(* Energies are exact fractions [num, den] with den > 0; the code's floats *)
(* round them.                                                             *)
(***************************************************************************)
EXTENDS Integers, Sequences, FiniteSets, FiniteSetsExt

Greater(e, f) == e.num * f.den > f.num * e.den

AbsDiff(x, y) == IF x >= y THEN x - y ELSE y - x

\* The sum of |series[i] - series[j]| over the pairs i < j of I \X J.
PairSum(series, I, J) ==
  MapThenSumSet(LAMBDA p : AbsDiff(series[p[1]], series[p[2]]),
                {p \in I \X J : p[1] < p[2]})

\* evalAndUpdate's e for the split k, from the cross and the two inner sums; an
\* inner mean over fewer than two values is 0.
Energy(sums, k, n) ==
  LET na == k
      nb == n - k
      da == IF na < 2 THEN 1 ELSE na - 1
      db == IF nb < 2 THEN 1 ELSE nb - 1
      aa == IF na < 2 THEN 0 ELSE sums.aa
      bb == IF nb < 2 THEN 0 ELSE sums.bb
  IN  [num |-> 2 * (sums.ab * da * db - nb * db * aa - na * da * bb), den |-> n * da * db]

\* The three sums at a split, from scratch.
DirectSums(series, k) ==
  LET before == 1 .. k
      after == k + 1 .. Len(series)
  IN  [ab |-> PairSum(series, before, after),
       aa |-> PairSum(series, before, before),
       bb |-> PairSum(series, after, after)]

\* Mutant: the pairs the moved value leaves behind stay in the cross sum.
SlideKeepsPairs(sums, series, k) ==
  [ab |-> sums.ab + PairSum(series, {k}, k + 1 .. Len(series)),
   aa |-> sums.aa + PairSum(series, 1 .. k - 1, {k}),
   bb |-> sums.bb - PairSum(series, {k}, k + 1 .. Len(series))]

Moved(sums, toBefore, toAfter) ==
  [ab |-> sums.ab - toBefore + toAfter, aa |-> sums.aa + toBefore, bb |-> sums.bb - toAfter]

\* The three sums at split k from those at k - 1: the k-th value moves.
Slide(sums, series, k) ==
  Moved(sums, PairSum(series, 1 .. k - 1, {k}), PairSum(series, {k}, k + 1 .. Len(series)))

\* Mutant: the slide stops one split early.
LastSplitEarly(n, minSegLen) == IF n > 2 * minSegLen THEN n - minSegLen - 1 ELSE minSegLen

LastSplit(n, minSegLen) == n - minSegLen

NoChange == [index |-> 0, e |-> [num |-> -1, den |-> 1]]

Kept(best, e, k) == IF Greater(e, best.e) THEN [index |-> k, e |-> e] ELSE best

\* evalAndUpdate at split k, with the sums slid there.
EvalAndUpdate(best, sums, k, n) ==
  [sums |-> sums, best |-> Kept(best, Energy(sums, k, n), k)]

Advance(prev, series, k) ==
  EvalAndUpdate(prev.best, Slide(prev.sums, series, k), k, Len(series))

\* bestChangePoint: the running sums slide over the splits, and the first
\* split of greatest energy is kept.
BestChangePoint(series, minSegLen) ==
  LET at[k \in minSegLen .. LastSplit(Len(series), minSegLen)] ==
        IF k = minSegLen
        THEN EvalAndUpdate(NoChange, DirectSums(series, k), k, Len(series))
        ELSE Advance(at[k - 1], series, k)
  IN  at[LastSplit(Len(series), minSegLen)].best

Splittable(seg, minSegLen) == seg[2] - seg[1] >= 2 * minSegLen

\* The change points of the segments that can be split.  A segment <<l, r>>
\* holds the values l + 1 .. r.
Candidates(series, segments, minSegLen) ==
  {[seg |-> seg, cp |-> BestChangePoint(SubSeq(series, seg[1] + 1, seg[2]), minSegLen)] :
     seg \in {s \in segments : Splittable(s, minSegLen)}}

\* Between equal candidates the leftmost wins.
Better(c, d) ==
  Greater(c.cp.e, d.cp.e) \/ (~Greater(d.cp.e, c.cp.e) /\ c.seg[1] < d.seg[1])

\* The best candidate, if it has a positive energy.
Best(candidates) ==
  {c \in candidates : c.cp.e.num > 0 /\ \A d \in candidates \ {c} : Better(c, d)}

Cut(segments, best) ==
  (segments \ {c.seg : c \in best})
    \cup UNION {{<<c.seg[1], c.seg[1] + c.cp.index>>, <<c.seg[1] + c.cp.index, c.seg[2]>>} :
                  c \in best}

\* EDivisive: cut the segment with the best change point until none has a
\* positive energy or maxPoints are found.
EDivisive(series, minSegLen, maxPoints) ==
  LET after[i \in 0 .. maxPoints] ==
        IF i = 0 THEN {<<0, Len(series)>>}
        ELSE Cut(after[i - 1], Best(Candidates(series, after[i - 1], minSegLen)))
  IN  {seg[1] : seg \in after[maxPoints]} \ {0}
-----------------------------------------------------------------------------
\* For a series and a segment length: the split kept while the sums slide is
\* the first one of greatest energy computed from scratch, and no split is
\* reported only if every energy is at most -1 (engine.go:862-949).
SlideIsExact(series, minSegLen) ==
  LET n == Len(series)
      energy == [k \in minSegLen .. n - minSegLen |-> Energy(DirectSums(series, k), k, n)]
      best == BestChangePoint(series, minSegLen)
  IN  n >= 2 * minSegLen =>
        IF best.index = 0 THEN \A k \in DOMAIN energy : ~Greater(energy[k], NoChange.e)
        ELSE /\ best.index \in DOMAIN energy
             /\ \A k \in DOMAIN energy :
                  IF k < best.index THEN Greater(energy[best.index], energy[k])
                  ELSE ~Greater(energy[k], energy[best.index])

\* For a series and a segment length: if the series is one step, with at least
\* minSegLen values on either side, EDivisive cuts it there (engine.go:800-949).
StepIsFound(series, minSegLen) ==
  \A k \in minSegLen .. Len(series) - minSegLen :
    /\ \A i \in 1 .. Len(series) : series[i] = series[IF i <= k THEN 1 ELSE k + 1]
    /\ series[1] # series[k + 1]
    => EDivisive(series, minSegLen, 1) = {k}

\* For a series: the change points cut it into segments none of which is
\* shorter than minSegLen (engine.go:800-860).
SegmentsAreLong(series, minSegLen, maxPoints) ==
  LET points == EDivisive(series, minSegLen, maxPoints)
      cuts == points \cup {0, Len(series)}
  IN  Len(series) >= 2 * minSegLen =>
        /\ Cardinality(points) <= maxPoints
        /\ \A x, y \in cuts : x < y => y - x >= minSegLen
=============================================================================
