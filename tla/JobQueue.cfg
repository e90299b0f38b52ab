CONSTANTS
  Workers = {w1, w2}
  Schedulers = {s1, s2}
  ScheduledMax = 2
  MaxQueued = 1
  Main = Main
  Free = Free
  Junk = Junk
  None = None
SPECIFICATION FairSpec
INVARIANTS
  TypeOK
  InterruptStopsTurns
  ScheduledCountBounded
PROPERTIES
  InterruptQuiesces
CHECK_DEADLOCK FALSE
