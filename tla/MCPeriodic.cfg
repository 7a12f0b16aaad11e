SPECIFICATION PeriodicSpec
CONSTANTS
  Window = 3
  Latency = {1, 3}
  MinExecutions = 3
  Threshold <- MCThreshold
  Tolerance = 1
  FallbackMin = 3
  Lookback = 2
INVARIANTS
  ChangePointsExact
  StepIsLocated
  OneReportPerStep
