CONSTANTS
  Seconds = 8
  Subseconds = 2
  YearSeconds = 7
  Idents = 1
  MaxStored = 1
  MaxLength = 1
SPECIFICATION BroadcastsSpec
INVARIANT RangeInEitherDirection
CHECK_DEADLOCK FALSE
