----------------------------- MODULE MCLockStep -----------------------------
(* LockStep for TLC: lines that are empty, are the word, begin with it, and *)
(* begin as it does and fill the buffer.                                    *)
EXTENDS LockStep

TypedLines == {<<>>, <<"a">>, Keyword, Keyword \o <<"a">>, <<"k", "a", "l", "a">>}
=============================================================================
