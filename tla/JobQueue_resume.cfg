CONSTANTS
  Workers = {w1, w2}
  Schedulers = {}
  ScheduledMax = 2
  MaxQueued = 1
  Main = Main
  Free = Free
  Junk = Junk
  None = None
SPECIFICATION FairMutexSpec
PROPERTY WorkersResume
