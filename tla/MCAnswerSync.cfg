CONSTANTS
  None = None
  rec = rec
  Stamp <- MCStamp
  ClientCard <- NoCard
  DeleteTime <- NoDelete
  User = {alice}
  Id = {rec}
  Answer <- MCAnswer
  Knobs = {}
  Retention = 9
  MaxNow = 4
  MaxRev = 4
  MaxEpoch = 0
  Rotates = TRUE
  Device = {d1, d2}
  Batch = 1
  MaxStray = 1
SYMMETRY Devices
SPECIFICATION AnswerSpec
CHECK_DEADLOCK FALSE
INVARIANTS
  AnswerTypeOK
  NoAnswerLost
  NoAnswerCountedTwice
  ShownCountsMatch
