CONSTANTS
  Seconds = 3
  Subseconds = 2
  YearSeconds = 2
  Idents = 1
  MaxStored = 1
  MaxLength = 1
SPECIFICATION BroadcastsSpec
INVARIANT ReplayLeavesNoneOut
CHECK_DEADLOCK FALSE
