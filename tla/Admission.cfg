CONSTANTS
  Fds = {f1, f2}
  Peers = {p1, p2}
  PendingLimit = 2
  NeighbourLimit = 2
  ClientLimit = 1
  NoPeer = NoPeer
  BadFd = BadFd
  Unwritten = Unwritten
SPECIFICATION Spec
SYMMETRY MCSymmetry
INVARIANTS
  TypeOK
  PendingTableSound
  PoolsPrefixComplete
PROPERTIES
  LiveEntryStable
  PoolsAppendOnly
  PoolContracts
CHECK_DEADLOCK FALSE
