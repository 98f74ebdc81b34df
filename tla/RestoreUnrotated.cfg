CONSTANTS
  None = None
  Stamp <- MCStamp
  ClientCard <- MCCard
  DeleteTime <- MCDeleteTime
  User = {alice, bob}
  Id = {rec}
  Reader = {d1}
  Answer <- MCAnswer
  Knobs = {}
  Retention = 1
  MaxNow = 3
  MaxRev = 4
  MaxEpoch = 1
  Rotates = FALSE
SPECIFICATION FeedSpec
CHECK_DEADLOCK FALSE
INVARIANTS
  ViewMissesOnlyNewerRows
