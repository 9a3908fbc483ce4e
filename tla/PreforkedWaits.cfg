CONSTANTS
  noConn = noConn
  c1 = c1
  c2 = c2
  NChildren = 2
  Conns <- TwoConns
  NoConn = noConn
  Flaky = {}
  MaxErrors = 0
  MaxKills = 0
SYMMETRY Symmetry
SPECIFICATION Spec
INVARIANTS
  WaitsForChildren
CHECK_DEADLOCK FALSE
