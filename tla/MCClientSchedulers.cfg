CONSTANTS
  MaxWrites = 2
  MaxManual = 2
  MaxAgain = 1
  MaxFailedSyncs = 1
  MaxConnections = 1
  MaxRestarts = 1
  MaxChanges = 3
  MaxPresses = 1
  MaxBacklog = 1
  MaxTurns = 2
  MaxUnloads = 1
SPECIFICATION ClientSpec
CHECK_DEADLOCK FALSE
INVARIANTS
  ClientTypeOK
  NeverTwoSyncs
  NothingForgotten
PROPERTIES
  ChangesGoUp
