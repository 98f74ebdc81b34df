CONSTANTS
  None = None
  d1 = d1
  d2 = d2
  Stamp <- MCStamp
  ClientCard <- MCCard
  DeleteTime <- MCDeleteTime
  Answer <- MCAnswer
  Knobs = {}
  Device = {d1, d2}
  Yielding = {d1}
  Sessions = {d2}
  Flaky <- Nobody
  Reverifies <- Nobody
  Skew <- InStep
  DeletesMidSync = FALSE
  MaxStray = 0
  User = {alice}
  Id = {rec}
  Retention = 9
  MaxNow = 4
  MaxRev = 3
  MaxEpoch = 0
  Rotates = TRUE
SPECIFICATION DeckSpec
CHECK_DEADLOCK FALSE
INVARIANTS
  DeletesStick
  CleanCopiesMatch
PROPERTIES
  LocalWritesSurvive
