---------------------------- MODULE MCDatagrams -----------------------------
(* Datagrams for TLC: a port that is used again, and one that is not.       *)
EXTENDS Datagrams

CONSTANTS p1, p2

SendsOf == [c \in {p1, p2} |-> IF c = p1 THEN 2 ELSE 1]
=============================================================================
