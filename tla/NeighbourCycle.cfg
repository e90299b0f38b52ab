CONSTANTS
  NoFd = NoFd
  Unwritten = Unwritten
  Descriptors = {f1, f2, NoFd}
  Addresses = {p1, p2}
  Limit = 2
  MaxReuse = 1
SPECIFICATION FairSpec
INVARIANTS
  TypeOK
  SnapshotCurrent
  JobsAttributed
PROPERTIES
  DataServed
CHECK_DEADLOCK FALSE
