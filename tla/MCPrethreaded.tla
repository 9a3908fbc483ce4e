---------------------------- MODULE MCPrethreaded ----------------------------
(* Small instances of PrethreadedServer for TLC.                           *)
EXTENDS PrethreadedServer, TLC

CONSTANTS main, nobody, noFd, noConn, w1, w2, w3, c1, c2, c3, c4, f1, f2, f3

TwoWorkers   == {w1, w2}
ThreeWorkers == {w1, w2, w3}
TwoConns   == {c1, c2}
FourConns  == {c1, c2, c3, c4}
TwoFds     == {f1, f2}
ThreeFds   == {f1, f2, f3}
OneFlaky   == {c1}

\* Workers and descriptors are interchangeable, and so are the connections
\* that are not flaky. Used by the safety runs only.
Symmetry ==
  Permutations(Workers) \cup Permutations(Fds) \cup Permutations(Conns \ Flaky)
=============================================================================
