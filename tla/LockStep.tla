------------------------------ MODULE LockStep ------------------------------
(***************************************************************************)
(* The pairs of programs whose client writes one line, reads once, prints  *)
(* what came and asks for the next line, over a byte stream:               *)
(*   "echo"     ch5/client.c with a child of ch5/server.c                  *)
(*   "unix"     ch15/unixstrcli.c with a child of ch15/unixstrserv01.c     *)
(*   "calc"     assign/CalcClientTCP.c with assign/CalcServerTCP.c         *)
(*   "reverse"  assign/tcp_reverse_client.c with tcp_reverse_server.c      *)
(* Each read() takes what has arrived: all that was written when small     *)
(* writes travel whole (split = FALSE), any part of it in general.         *)
(*                                                                         *)
(* "k" and "l" stand for the two halves of the word that ends a session,   *)
(* "exit" or "-1", "n" for a newline, "0" for NUL, "a" for anything else.  *)
(*                                                                         *)
(* LimitLate, Kept, ToNul and Shorter are wrong variants of the operator   *)
(* that follows each, to see that the properties notice them.              *)
(***************************************************************************)
EXTENDS Naturals, Sequences, SequencesExt

CONSTANTS
  Programs,  \* which of the four pairs
  Lines,     \* what a user may type, without the newline
  Size,      \* BUFSIZ, MAXLINE, BUF_SIZE
  MaxSends   \* bound: how many lines are sent

Keyword == <<"k", "l">>
NUL == "0"
Chars == {"k", "l", "a", "n"}

ASSUME LockStepAssumption ==
  /\ Programs \subseteq {"echo", "unix", "calc", "reverse"}
  /\ Lines \subseteq Seq(Chars \ {"n"}) /\ MaxSends \in Nat
  /\ Size \in Nat /\ Size > 3   \* a result has room

VARIABLES
  prog,   \* which pair it is
  split,  \* whether a read() may return part of what was written
  clnt,   \* "prompt", "reading", "ended" or "killed"
  eof,    \* stdin has ended
  cbuf,   \* the client's buffer
  line,   \* what it last sent
  shown,  \* what it last printed
  srv,    \* "reading" or "closed"
  sbuf,   \* the server's buffer
  up, down,     \* bytes under way
  owed,   \* what the echo client has written and not yet read back
  reset,  \* the client has written to a closed connection
  sends

client == <<clnt, eof, cbuf, line, shown, owed, reset, sends>>
kind   == <<prog, split>>
pair   == <<kind, client, srv, sbuf, up, down>>

Echoes == prog \in {"echo", "unix"}
Gone   == clnt \in {"ended", "killed"}

\* A buffer; what stands in it after s is copied to its start; and the string
\* it holds for strlen(), fputs() and printf().
Zero == [i \in 1 .. Size |-> NUL]
Store(buf, s) == [i \in 1 .. Size |-> IF i <= Len(s) THEN s[i] ELSE buf[i]]
CString(buf) ==
  LET ends == {i \in 1 .. Size : buf[i] = NUL}
  IN  SubSeq(buf, 1, IF ends = {} THEN Size ELSE Min(ends) - 1)

\* The assign programs clear the buffer before every read().
Kept(buf)    == buf
Cleared(buf) == IF Echoes THEN buf ELSE Zero

\* strncmp() with the word.
StartsWith(buf) == IsPrefix(Keyword, CString(buf))

\* How much of s one read() returns.
Amounts(s) ==
  LET most == Min({Len(s), Size}) IN IF split THEN 1 .. most ELSE {most}
Rest(s, n) == SubSeq(s, n + 1, Len(s))

\* The static buffers are zero; the client's array in assign is not set, and
\* matters only if stdin is empty.
PairInit ==
  /\ prog \in Programs /\ split \in BOOLEAN
  /\ clnt = "prompt" /\ eof = FALSE /\ sends = 0
  /\ cbuf \in IF Echoes THEN {Zero} ELSE {Store(Zero, SubSeq(l, 1, Min({Len(l), Size - 1}))) : l \in Lines}
  /\ sbuf = Zero /\ srv = "reading"
  /\ line = <<>> /\ shown = <<>>
  /\ up = <<>> /\ down = <<>> /\ owed = <<>> /\ reset = FALSE
-----------------------------------------------------------------------------
(* The client.                                                             *)

\* A write() of s. The first one to a closed connection draws a reset, a later
\* one may be ended by SIGPIPE.
SendLine(s) ==
  IF srv = "reading"
  THEN up' = up \o s /\ owed' = (IF Echoes THEN owed \o s ELSE <<>>) /\ UNCHANGED reset
  ELSE reset' = TRUE /\ UNCHANGED <<up, owed>>

Send(s) ==
  /\ sends < MaxSends /\ sends' = sends + 1
  /\ \/ /\ clnt' = "reading" /\ line' = s /\ SendLine(s)
     \/ /\ srv = "closed" /\ reset /\ clnt' = "killed"
        /\ UNCHANGED <<line, up, owed, reset>>

\* The assign programs quit on the exact word; calc sends it first.
Submit(s) ==
  IF ~Echoes /\ s = Keyword
  THEN /\ clnt' = "ended"
       /\ IF prog = "calc" THEN SendLine(s) ELSE UNCHANGED <<up, owed, reset>>
       /\ UNCHANGED <<line, sends>>
  ELSE Send(s)

\* fgets() takes at most Limit characters of a line; the rest is its next.
LimitLate == Size
Limit     == Size - 1
Fgets(l) == IF Len(l) < Limit THEN Append(l, "n") ELSE SubSeq(l, 1, Limit)

\* assign overwrites the newline with a NUL; fgets() has put one after it.
Typed(l) == LET s == Fgets(l) IN IF ~Echoes /\ Last(s) = "n" THEN Front(s) ELSE s
Nuls(l)  == IF Typed(l) = Fgets(l) THEN <<NUL>> ELSE <<NUL, NUL>>

Type(l) ==
  /\ clnt = "prompt" /\ ~eof
  /\ cbuf' = Store(cbuf, Typed(l) \o Nuls(l))
  /\ Submit(Typed(l))
  /\ UNCHANGED <<kind, eof, shown, srv, sbuf, down>>

\* assign does not look at fgets()'s NULL, and sends what is in the buffer: what
\* it has just printed.
EndOfInput ==
  /\ clnt = "prompt"
  /\ eof' = TRUE
  /\ IF Echoes THEN clnt' = "ended" /\ UNCHANGED <<line, up, owed, reset, sends>>
               ELSE Submit(CString(cbuf))
  /\ UNCHANGED <<kind, cbuf, shown, srv, sbuf, down>>

\* ch5 and ch15 do not look at read()'s result, nor end the string; the buffer
\* still holds the line that was sent, and the test for "exit" reads it.
Shows(buf) ==
  /\ cbuf' = buf /\ shown' = CString(buf)
  /\ clnt' = IF Echoes /\ StartsWith(buf) THEN "ended" ELSE "prompt"

Read ==
  /\ clnt = "reading" /\ down # <<>>
  /\ \E n \in Amounts(down) :
       /\ Shows(Store(Cleared(cbuf), SubSeq(down, 1, n)))
       /\ down' = Rest(down, n) /\ owed' = Rest(owed, n)
  /\ UNCHANGED <<kind, eof, line, reset, sends, srv, sbuf, up>>

\* read() returns 0 or -1.
ReadEof ==
  /\ clnt = "reading" /\ down = <<>> /\ srv = "closed"
  /\ Shows(Cleared(cbuf))
  /\ UNCHANGED <<kind, eof, line, owed, reset, sends, srv, sbuf, up, down>>
-----------------------------------------------------------------------------
(* The server, for one connection.                                         *)

\* evaluate() and "%.2f" give some number; -1 prints as "-1.00".
Results == {<<"a">>, Keyword \o <<"a">>}

\* What doit() and str_echo() write back.
ToNul(part, buf)   == CString(buf)
Shorter(part, buf) == SubSeq(part, 1, Len(part) - 1)
Echoed(part, buf)  == part

Reversed(s) == Reverse(s)

Answers(part, buf) ==
  CASE Echoes -> {Echoed(part, buf)}
    [] prog = "reverse" -> {Reversed(CString(buf))}
    [] prog = "calc" -> Results

QuitsOn(buf) == prog \in {"echo", "calc"} /\ StartsWith(buf)

\* An answer to a client that has gone draws a reset, and with it an error or,
\* for the next answer, SIGPIPE.
Serve ==
  /\ srv = "reading" /\ up # <<>>
  /\ \E n \in Amounts(up) :
       LET buf == Store(Cleared(sbuf), SubSeq(up, 1, n)) IN
       /\ sbuf' = buf /\ up' = Rest(up, n)
       /\ IF QuitsOn(buf) THEN srv' = "closed" /\ UNCHANGED down
          ELSE IF Gone THEN srv' \in {"reading", "closed"} /\ UNCHANGED down
          ELSE /\ \E s \in Answers(SubSeq(up, 1, n), buf) : down' = down \o s
               /\ UNCHANGED srv
  /\ UNCHANGED <<kind, client>>

\* read() returns 0.
ServeEof ==
  /\ srv = "reading" /\ up = <<>> /\ Gone
  /\ srv' = "closed"
  /\ UNCHANGED <<kind, client, sbuf, up, down>>
-----------------------------------------------------------------------------
PairClient == Read \/ ReadEof
Server == Serve \/ ServeEof
PairNext == PairClient \/ Server \/ EndOfInput \/ \E l \in Lines : Type(l)
PairSpec == PairInit /\ [][PairNext]_pair

\* Both programs run; the user types or not.
PairFairSpec == PairSpec /\ WF_pair(PairClient) /\ WF_pair(Server)
-----------------------------------------------------------------------------
\* Every variable has its type; only text travels, never a NUL. While writes travel
\* whole, every buffer that is used as a string ends inside itself, though read()
\* may fill it: a line leaves room, and an answer is no longer.
PairTypeOK ==
  /\ prog \in Programs /\ split \in BOOLEAN /\ eof \in BOOLEAN /\ reset \in BOOLEAN
  /\ clnt \in {"prompt", "reading", "ended", "killed"} /\ srv \in {"reading", "closed"}
  /\ {cbuf, sbuf} \subseteq [1 .. Size -> Chars \cup {NUL}]
  /\ {line, shown, up, down, owed} \subseteq Seq(Chars)
  /\ sends \in 0 .. MaxSends
  /\ ~split => Len(CString(cbuf)) < Size /\ (~Echoes => Len(CString(sbuf)) < Size)

\* Whatever the splits, the echo under way and the bytes that wait for it are
\* what the client has sent and not yet read, in order, up to the word.
EchoStream ==
  Echoes /\ ~Gone => IF srv = "reading" THEN down \o up = owed ELSE IsPrefix(down, owed)

\* While writes travel whole, each answer shown is the answer to the line just
\* sent: no old text shows through a buffer that is never cleared. And the echo
\* clients end with their server: at the end of the stream ch5's finds the word
\* in its own buffer, where it has typed it.
OwnAnswer ==
  ~split /\ clnt = "prompt" /\ sends > 0 =>
    /\ Echoes => srv = "reading"
    /\ srv = "reading" =>
         /\ up = <<>> /\ down = <<>>
         /\ shown \in CASE Echoes -> {line}
                        [] prog = "reverse" -> {Reversed(line)}
                        [] prog = "calc" -> Results

\* No byte and no answer is taken for another's.
NoneMixedUp == EchoStream /\ OwnAnswer

\* A client that has sent anything gets its prompt back, in any split: the two
\* never wait for each other. An empty line of the assign programs is no byte
\* at all, and has no answer.
Replied == clnt = "reading" /\ line # <<>> ~> clnt # "reading"

\* CalcClientTCP.c:37 "Enter expression (operand1 operator operand2), -1 to
\* quit": an expression that was sent has a result shown.
Calculated == prog = "calc" /\ clnt = "prompt" /\ line # <<>> => shown # <<>>
=============================================================================
