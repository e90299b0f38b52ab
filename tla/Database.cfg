CONSTANTS
  Seconds = 3
  Subseconds = 2
  YearSeconds = 2
  Idents = 1
  MaxStored = 2
  MaxLength = 1
  Hosts = {h1, h2}
  Addrs = {a1, a2}
  MaxHeat = 2
  MaxPrepared = 2
  MaxRows = 5
SPECIFICATION DatabaseSpec
INVARIANTS
  TypeOK
  AssociationsRefer
  ReplayNotOlder
  ReplayComplete
  RangeExact
PROPERTIES
  KnowledgeSurvives
CHECK_DEADLOCK FALSE
