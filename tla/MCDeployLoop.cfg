SPECIFICATION FairSpec
CONSTANTS
  Deploy <- MCDeploy
  Window = 1
  Retention = 2
  StateRetention = 3
  MaxTime = 4
  MaxDeliveries = 3
INVARIANTS
  TypeOK
  StoreAgrees
  HandedOverInOrder
  NoReplay
  RegisteredIsTracked
  PendingIsDurable
  RangeQueryExact
PROPERTIES
  AcceptedIsSeenOut
  ImplementsQueue
