CONSTANTS
  None = None
  Stamp <- MCStamp
  ClientCard <- MCCard
  DeleteTime <- MCDeleteTime
  User = {alice}
  Id = {rec}
  Answer <- MCAnswer
  Knobs = {}
  Retention = 1
  MaxNow = 3
  MaxRev = 3
  MaxEpoch = 1
  Rotates = TRUE
SPECIFICATION Spec
CHECK_DEADLOCK FALSE
INVARIANTS
  TypeOK
  CardOrTombstone
  RevsBehindClock
  NothingFromTheFuture
  RetryChangesNothing
PROPERTIES
  DeleteTimeNeverMovesLater
  NoRollback
