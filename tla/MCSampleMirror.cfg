SPECIFICATION SampleMirrorSpec
CONSTANTS
  QueryID = {1, 2}
  QueryText = {"t1"}
  ExplainText = {}
  Fingerprint = {"f1"}
  FingerprintQuery <- MCFingerprintQuery
  Latency = {1}
  Retention = 1
  FallbackMin = 2
  PlanHistorySize = 1
  CapturePlans = FALSE
  LegacyServer = TRUE
  MaxTime = 5
  MaxRows = 2
  MaxBackfill = 1
  StateRetention = 1
  MaxRestarts = 1
INVARIANTS
  SampleMirrorTypeOK
  HistoryIsObserved
  CopiesAreBounded
  MirrorComplete
CHECK_DEADLOCK FALSE
