CONSTANTS
  main = main
  nobody = nobody
  noFd = noFd
  noConn = noConn
  w1 = w1
  w2 = w2
  w3 = w3
  c1 = c1
  c2 = c2
  c3 = c3
  c4 = c4
  f1 = f1
  f2 = f2
  f3 = f3
  Workers <- TwoWorkers
  Main = main
  Conns <- TwoConns
  Fds <- TwoFds
  MaxQueue = 1
  NoFd = noFd
  NoConn = noConn
  Nobody = nobody
  Flaky = {}
  MaxSpurious = 1
  MaxSigInt = 1
SPECIFICATION FairSpec
PROPERTIES
  Served
  Stops
CHECK_DEADLOCK FALSE
