CONSTANTS
  main = main
  nobody = nobody
  noFd = noFd
  noConn = noConn
  w1 = w1
  w2 = w2
  w3 = w3
  c1 = c1
  c2 = c2
  c3 = c3
  c4 = c4
  f1 = f1
  f2 = f2
  f3 = f3
  Workers <- ThreeWorkers
  Main = main
  Conns <- FourConns
  Fds <- ThreeFds
  MaxQueue = 2
  NoFd = noFd
  NoConn = noConn
  Nobody = nobody
  Flaky <- OneFlaky
  MaxSpurious = 1
  MaxSigInt = 0
SYMMETRY Symmetry
SPECIFICATION Spec
INVARIANTS
  TypeOK
  FdExclusive
  WorkConserving
PROPERTIES
  RefinesJobQueue
CHECK_DEADLOCK FALSE
