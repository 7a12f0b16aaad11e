----------------------------- MODULE MCCollector -----------------------------
(***************************************************************************)
(* Instances of Collector, with PlanCapture, for TLC.                      *)
(***************************************************************************)
EXTENDS PlanCapture

\* Two texts that differ, one of them also reached after a rewrite, and the
\* EXPLAIN statement plan capture leaves behind in pg_stat_statements.
MCQueryText == {"t1", "t2", "explain"}
MCExplainText == {"explain"}
MCFingerprintQuery == [t \in MCQueryText |-> IF t = "t1" THEN "f1" ELSE "f2"]

\* A server for each way detectStorePlans and CaptureGenericPlan can go.
Srv(major, installed, ext, setting, sameIDs) ==
  [major |-> major, installed |-> installed, ext |-> ext,
   computeQueryID |-> setting, sameIDs |-> sameIDs]
MCServer ==
  {Srv(15, TRUE, <<1, 10>>, "on", TRUE), Srv(16, TRUE, <<1, 5>>, "on", FALSE),
   Srv(16, TRUE, <<1, 6>>, "off", FALSE),
   Srv(13, TRUE, <<1, 6>>, "on", FALSE), Srv(16, FALSE, <<>>, "off", FALSE),
   Srv(16, TRUE, <<2, 0>>, "auto", TRUE)}
=============================================================================
