SPECIFICATION Spec
CONSTANTS
  QueryID = {1, 2}
  QueryText <- MCQueryText
  ExplainText = {}
  Fingerprint = {"f1"}
  FingerprintQuery <- MCFingerprintQuery
  Latency = {1, 2}
  Retention = 2
  FallbackMin = 2
  PlanHistorySize = 1
  CapturePlans = FALSE
  LegacyServer = FALSE
  MaxTime = 5
  MaxRows = 1
  MaxBackfill = 0
  DeployEvent <- MCDeployEvent
  Window = 1
  Regressed <- MCRegressed
INVARIANTS
  AnalysisTypeOK
  RetiredAfterFinalLook
  ReportedOnce
  NotifiedIsReported
  AlertedOnce
  EveryQueryJudged
CHECK_DEADLOCK FALSE
