----------------------------- MODULE MCPreforked -----------------------------
(* Small instances of PreforkedServer for TLC.                             *)
EXTENDS PreforkedServer, TLC

CONSTANTS noConn, c1, c2

TwoConns == {c1, c2}
OneFlaky == {c1}

\* Connections with the same client behaviour are interchangeable; the
\* children are not, the parent's loops run through them in order.
Symmetry == Permutations(Flaky) \cup Permutations(Conns \ Flaky)
=============================================================================
