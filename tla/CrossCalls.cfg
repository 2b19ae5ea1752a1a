SPECIFICATION Spec
CONSTANTS
  Calls = {1, 2}
  Cap = 1
  Grace = 1
  Deadlines = {2}
  Depth = 1
  SyncLag = 1
  SnapEvery = 4
  MaxSource = 6
  LastEmit = 1
  MaxTarget = 3
  MaxReorgs = 1
INVARIANTS OneTrueOutcome
PROPERTIES ResultBeatsDeadline CappedPassesAdvance
CHECK_DEADLOCK FALSE
