CONSTANTS
  None = None
  d1 = d1
  d2 = d2
  Stamp <- MCStamp
  ClientCard <- MCCard
  DeleteTime <- MCDeleteTime
  Answer <- MCAnswer
  Knobs = {}
  Device = {d1}
  Yielding <- Nobody
  Sessions <- Nobody
  Flaky = {d1}
  Reverifies = {d1}
  Skew <- FastClock
  DeletesMidSync = FALSE
  MaxStray = 1
  User = {alice, bob}
  Id = {rec}
  Retention = 9
  MaxNow = 3
  MaxRev = 3
  MaxEpoch = 1
  Rotates = TRUE
SPECIFICATION DeckSpec
CHECK_DEADLOCK FALSE
INVARIANTS
  CardsArrive
  CleanIsNotAhead
