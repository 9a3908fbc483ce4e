CONSTANTS
  Conns = {c1, c2, c3}
  Kids = {k1, k2}
  None = None
  Listen = Listen
  Main = Main
  ReapsChildren = FALSE
  ChecksAccept = FALSE
  EndsAtEof = FALSE
  KnowsExit = TRUE
  MaxErrors = 0
SPECIFICATION FairSpec
PROPERTIES
  ClientsClosed
CHECK_DEADLOCK FALSE
