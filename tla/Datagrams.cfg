CONSTANTS
  p1 = p1
  p2 = p2
  Ports = {p1, p2}
  NoPort = NoPort
  Addrs = 2
  MaxSends <- SendsOf
  MaxLost = 1
  MaxCopies = 1
  MaxClock = 1
  MaxBoots = 1
SPECIFICATION FairSpec
INVARIANTS
  TypeOK
  OneAnswer
PROPERTIES
  NoneStuck
CHECK_DEADLOCK FALSE
