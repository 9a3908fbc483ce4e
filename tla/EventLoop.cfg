CONSTANTS
  c1 = c1
  c2 = c2
  c3 = c3
  Conns = {c1, c2, c3}
  None = None
  MaxSlots = 2
  Loops = {"select", "poll"}
  MaxSend <- Sends
  InRoom = 2
  OutRoom = 1
  MaxErrors = 1
SPECIFICATION FairSpec
INVARIANTS
  TypeOK
  Bookkeeping
  EchoExact
PROPERTIES
  Served
CHECK_DEADLOCK FALSE
