CONSTANTS
  AppsMax = 2
  MaxThreads = 6
  MaxOpen = 3
SPECIFICATION FairSpec
INVARIANTS
  TypeOK
  LayersBetweenRounds

  
CHECK_DEADLOCK FALSE
