---------------------------- MODULE MCEventLoop -----------------------------
(* EventLoop for TLC: a client that talks, one that says little and one     *)
(* that says nothing.                                                       *)
EXTENDS EventLoop

CONSTANTS c1, c2, c3

Sends == [c \in Conns |-> IF c = c1 THEN 2 ELSE IF c = c2 THEN 1 ELSE 0]
=============================================================================
