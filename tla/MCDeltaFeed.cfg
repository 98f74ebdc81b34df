CONSTANTS
  None = None
  Stamp <- MCStamp
  ClientCard <- MCCard
  DeleteTime <- MCDeleteTime
  User = {alice, bob}
  Id = {rec}
  Reader = {d1}
  Answer <- MCAnswer
  Knobs = {}
  Retention = 1
  MaxNow = 3
  MaxRev = 3
  MaxEpoch = 1
  Rotates = TRUE
SPECIFICATION FeedSpec
CHECK_DEADLOCK FALSE
INVARIANTS
  ViewMissesOnlyNewerRows
  TallyMissesOnlyNewerAnswers
PROPERTIES
  SnapshotReadsSpec
  TallyIsExact
