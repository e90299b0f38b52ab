CONSTANTS
  Sides = {A, B}
  Mats = 1
  Messages = {m}
  CmatStarts = {s1}
  CleanSum = TRUE
  Primed = Primed
  Behind = Behind
  Garbage = Garbage
  Noise = Noise
  MaxPackets = 5
  MaxRekeys = 0
  MaxInFlight = 2
SPECIFICATION CipherSpec
INVARIANTS
  PacketsDecrypt
CHECK_DEADLOCK FALSE
