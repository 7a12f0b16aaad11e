-------------------------- MODULE MCDeployAnalysis --------------------------
(***************************************************************************)
(* Instances of DeployAnalysis for TLC.                                    *)
(***************************************************************************)
EXTENDS DeployAnalysis, SequencesExt

MCDeployEvent == {[id |-> "d1", at |-> StartTime], [id |-> "d2", at |-> StartTime + 1]}

\* Two queryids that may share a text: the state a rotation, or one statement
\* run in two databases, leaves in pg_stat_statements.
MCQueryText == {"t1"}
MCFingerprintQuery == [t \in MCQueryText |-> "f1"]

TotalLatency(s) == FoldLeft(LAMBDA acc, x : acc + x.lat, 0, s)

\* Stands for the statistics: samples on both sides, and a higher mean after.
MCRegressed(ev, pre, post) ==
  /\ pre # <<>> /\ post # <<>>
  /\ TotalLatency(post) * Len(pre) > TotalLatency(pre) * Len(post)
=============================================================================
