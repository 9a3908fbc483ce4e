CONSTANTS
  noConn = noConn
  c1 = c1
  c2 = c2
  NChildren = 2
  Conns <- TwoConns
  NoConn = noConn
  Flaky <- OneFlaky
  MaxErrors = 1
  MaxKills = 1
  Programs = {"echo", "unix", "calc", "reverse"}
  Lines <- TypedLines
  Size = 4
  MaxSends = 2
  MaxLine = 3
  Input = 5
  SockRoom = 2
  TtyRoom = 1
SPECIFICATION MCSpec
INVARIANTS
  TypeOK
  AcceptSerialised
  LockNotOrphaned
  PairTypeOK
  NoneMixedUp
  CliTypeOK
  Intact
PROPERTIES
  Served
  ShutsDown
  Replied
  Ends
CHECK_DEADLOCK FALSE
