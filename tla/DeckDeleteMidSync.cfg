CONSTANTS
  None = None
  d1 = d1
  d2 = d2
  Stamp <- MCStamp
  ClientCard <- MCCard
  DeleteTime <- MCDeleteTime
  Answer <- MCAnswer
  Knobs = {}
  Device = {d1}
  Yielding <- Nobody
  Sessions <- Nobody
  Flaky <- Nobody
  Reverifies <- Nobody
  Skew <- InStep
  DeletesMidSync = TRUE
  MaxStray = 0
  User = {alice}
  Id = {rec}
  Retention = 9
  MaxNow = 4
  MaxRev = 4
  MaxEpoch = 0
  Rotates = TRUE
SPECIFICATION DeckSpec
CHECK_DEADLOCK FALSE
INVARIANTS
  DeletesStick
