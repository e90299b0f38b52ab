CONSTANTS
  Tokens = {t1, t2}
  Addresses = {a1, a2, a3}
  Null = Null
  Junk = Junk
  Workers = {w1, w2}
  JunkTable = TRUE
  Sides = {A, B}
  Mats = 2
  Messages = {m}
  CmatStarts = {s1, s2}
  CleanSum = TRUE
  Primed = Primed
  Behind = Behind
  Garbage = Garbage
  Noise = Noise
  MaxPackets = 4
  MaxRekeys = 1
  MaxInFlight = 2
  Count = 3
  Norms = {1, 3, 5}
  Outside = {0, 2, 3, 4, 6}
  MaxAsked = 4
SPECIFICATION CallsSpec
INVARIANTS
  CallsTypeOK
  TokensAreSpent
  SessionsReachable
  CmatFollowsKey
  CursorsAgreeWhenQuiet
  Bounded
  CallsApart
  AnswerInOrder
PROPERTIES
  RekeyInjects
  RoutesReturn
CHECK_DEADLOCK FALSE
