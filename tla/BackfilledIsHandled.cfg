SPECIFICATION Spec
CONSTANTS
  Deploy <- MCDeploy
  Window = 1
  Retention = 2
  StateRetention = 3
  MaxTime = 4
  MaxDeliveries = 2
INVARIANT BackfilledIsHandled
