---------------------------- MODULE ChangePoint ----------------------------
(***************************************************************************)
(* internal/correlation/engine.go: Welch's t-test and the verdict on a     *)
(* pair of sample windows (computeChangeStats), on the change points of    *)
(* EnergySearch.  Statistics are exact fractions, as there.                *)
(***************************************************************************)
EXTENDS EnergySearch, TimeSeq, TLC

SumSeq(s) == SumFunction(s)

\* n^2 (n - 1) times the sample variance of s over n.
Spread(s) == Len(s) * SumSeq([i \in DOMAIN s |-> s[i] * s[i]]) - SumSeq(s) * SumSeq(s)

\* welchTTest's t statistic, squared.
TSquared(a, b) ==
  LET n1 == Len(a)
      n2 == Len(b)
      diff == SumSeq(a) * n2 - SumSeq(b) * n1
  IN  [num |-> diff * diff * (n1 - 1) * (n2 - 1),
       den |-> Spread(a) * n2 * n2 * (n2 - 1) + Spread(b) * n1 * n1 * (n1 - 1)]

\* Ten times the square of the two-sided 5% critical value of Student's t for
\* 1, 2, ... degrees of freedom, rounded down.
CriticalT2 == <<1614, 185, 101, 77, 66, 59, 55, 53, 51, 49, 48, 47, 46, 46, 45, 44>>

\* Bounds on it for df degrees of freedom; it falls towards that of the normal
\* distribution, 38.4.
CriticalAtLeast(df) == IF df <= Len(CriticalT2) THEN CriticalT2[df] ELSE 38
CriticalAtMost(df) == 1 + CriticalT2[IF df <= Len(CriticalT2) THEN df ELSE Len(CriticalT2)]

\* The answers pValue <= 0.05 may have.  Exact when a side is too short or
\* nothing varies; else tDistPValue falls with the degrees of freedom, and
\* Welch's lie between those of the shorter side and those of both together,
\* so only a t between the two critical values is left open.
WelchSignificant(a, b) ==
  LET t2 == TSquared(a, b)
      shorter == IF Len(a) < Len(b) THEN Len(a) ELSE Len(b)
  IN  IF shorter < 2 THEN {FALSE}
      ELSE IF t2.den = 0 THEN {t2.num > 0}
      ELSE IF 10 * t2.num >= CriticalAtMost(shorter - 1) * t2.den THEN {TRUE}
      ELSE IF 10 * t2.num < CriticalAtLeast(Len(a) + Len(b) - 2) * t2.den THEN {FALSE}
      ELSE BOOLEAN

\* meanPost / meanPre - 1 < threshold, with the factor 0 when meanPre is 0.
BelowThreshold(pre, post, threshold) ==
  \/ SumSeq(pre) = 0
  \/ SumSeq(post) * Len(pre) * threshold.den
       < SumSeq(pre) * Len(post) * (threshold.den + threshold.num)

ChangePointMinSegLen(n) == IF n \div 10 < 3 THEN 3 ELSE n \div 10

Insufficient == [status |-> "insufficient", at |-> 0]
NoRegression == [status |-> "none", at |-> 0]
Detected(t) == [status |-> "detected", at |-> t]

\* computeChangeStats and evaluatePeriodic's reading of it: the verdicts that
\* are possible for the samples before and after the split, with the change
\* point that firstChange gives for their latencies.
Verdicts(pre, post, firstChange, minExecutions, threshold) ==
  LET latencies(s) == [i \in DOMAIN s |-> s[i].lat]
      all == SortByTime(pre \o post)
      series == latencies(all)
      found == firstChange[series]
      changed(k) ==
        {IF significant THEN Detected(all[k + 1].at) ELSE NoRegression :
           significant \in WelchSignificant(SubSeq(series, 1, k),
                                            SubSeq(series, k + 1, Len(series)))}
  IN  IF Len(pre) < minExecutions \/ Len(post) < minExecutions THEN {Insufficient}
      ELSE IF BelowThreshold(latencies(pre), latencies(post), threshold) THEN {NoRegression}
      ELSE IF found = {} THEN {NoRegression}
      ELSE UNION {changed(k) : k \in found}

\* evaluateQuery: a change too far from the deploy is not attributed to it.
Attributed(verdict, deployAt, tolerance) ==
  IF verdict.status = "detected" /\ AbsDiff(verdict.at, deployAt) > tolerance
  THEN NoRegression ELSE verdict
=============================================================================
