SPECIFICATION PlanCaptureSpec
CONSTANTS
  QueryID = {1, 2}
  QueryText <- MCQueryText
  ExplainText <- MCExplainText
  Fingerprint = {"f1", "f2"}
  FingerprintQuery <- MCFingerprintQuery
  Latency = {1}
  Retention = 1
  FallbackMin = 2
  PlanHistorySize = 2
  CapturePlans = TRUE
  LegacyServer = FALSE
  Server <- MCServer
  MaxTime = 3
  MaxRows = 2
  MaxBackfill = 1
INVARIANTS
  CollectorTypeOK
  IndexConsistent
  HistoriesOrdered
  FingerprintCurrent
  RetentionHolds
  MergeIsExact
  PlansBracket
  PlanIsOwn
  PassIsComplete
PROPERTIES
  OnlyAgedOutGoes
CHECK_DEADLOCK FALSE
