CONSTANTS
  c1 = c1
  c2 = c2
  Conns = {c1, c2, c3}
  Kids = {k1, k2}
  None = None
  Listen = Listen
  Main = Main
  ReapsChildren = TRUE
  ChecksAccept = TRUE
  EndsAtEof = TRUE
  KnowsExit = TRUE
  MaxErrors = 1
  NoClient = NoClient
  Clients = {c1, c2}
  Modes <- FlowModes
  StreamCounts = {1, 2}
  Asked = 2
  Room = 4
  Chunk = 2
  MaxTyped <- Typing
SPECIFICATION MCSpec
INVARIANTS
  TypeOK
  ZombieNoticed
  OwnConnection
  FlowTypeOK
  InOrder
PROPERTIES
  OnlyRefusedDropped
  ClientsClosed
  FlowAnswered
CHECK_DEADLOCK FALSE
