CONSTANTS
  own = own
  lib = lib
  any6 = any6
  any4 = any4
  v6 = v6
  v4 = v4
  down = down
  None = None
  Clients = {own, lib}
  OwnLoop = {own}
  Locals <- LocalList
  Remotes <- RemoteLists
  Covers <- CoverSets
  Text = 2
  MaxErrors = 3
  x4 = x4
  s4 = s4
  s6 = s6
  Pubs = {x4}
  Subs = {s4, s6}
  Family <- Families
  Nobody = Nobody
  Others <- Trades
  SockRoom = 2
  Ahead = {0, 1}
  Word = 16
  MaxSeq = 1
  MaxRuns = 2
  MaxEffort = 1
  MaxNow = 1
  Ifaces <- Interfaces
  Routes <- RouteLists
  Keys = {0, 2}
  MaxRefused = 2
  MaxPosts = 1
SPECIFICATION MCSpec
INVARIANT
  DumpsAll
CHECK_DEADLOCK FALSE
