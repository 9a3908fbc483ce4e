------------------------------- MODULE StrCli -------------------------------
(***************************************************************************)
(* lib/str_cli_nonBlocking.c: the nonblocking echo client. It copies stdin *)
(* to the socket through to[] and the socket to stdout through fr[], each  *)
(* with an input and an output pointer; one select() round is at most two  *)
(* reads and two writes, all partial. stdin's end is passed on with        *)
(* shutdown(), once to[] is empty; the server's end is the loop's end.     *)
(*                                                                         *)
(* Byte k of the input is the number k. Pointers are indices.              *)
(*                                                                         *)
(* SpaceWhole, FinNow, FrStart, WroteAll and NoFin are wrong variants of   *)
(* the operator that follows each, kept to see the properties notice them. *)
(***************************************************************************)
EXTENDS Integers, Sequences

CONSTANTS
  MaxLine,   \* MAXLINE, the size of each buffer
  Input,     \* how many bytes stdin has before its end
  SockRoom,  \* what the kernel buffers in each direction of the connection
  TtyRoom    \* what the terminal buffers

ASSUME CliAssumption ==
  /\ MaxLine \in Nat \ {0} /\ SockRoom \in Nat \ {0} /\ TtyRoom \in Nat \ {0}
  /\ Input \in Nat

VARIABLES
  block,        \* the block of the loop, or "returned" or "failed" (exit or SIGPIPE)
  rset, wset,   \* the descriptor sets
  to, toi, too, \* to[], toiptr, tooptr
  fr, fri, fro, \* fr[], friptr, froptr
  stdineof,
  typed, fed,   \* bytes typed by the user, and read by the client
  wire, fin,    \* bytes written to the socket, and whether FIN follows them
  echoed,       \* how many bytes of wire the server has echoed
  open, quit,   \* the server has not closed; it closed before the session's end
  got,          \* echoed bytes the client has read
  out, displayed \* bytes written to stdout, and how many the terminal took

locals == <<block, rset, wset, to, toi, too, fr, fri, fro, stdineof>>
strcli == <<locals, typed, fed, wire, fin, echoed, open, quit, got, out, displayed>>

Cells == 0 .. MaxLine - 1
Least(a, b) == IF a <= b THEN a ELSE b

\* The room from a pointer to the end of its buffer.
SpaceWhole(ptr) == MaxLine
Space(ptr)      == MaxLine - ptr

CliInit ==
  /\ block = "select" /\ rset = {} /\ wset = {}
  /\ to = [k \in Cells |-> 0] /\ toi = 0 /\ too = 0
  /\ fr = [k \in Cells |-> 0] /\ fri = 0 /\ fro = 0
  /\ stdineof = FALSE
  /\ typed = 0 /\ fed = 0 /\ wire = <<>> /\ fin = FALSE
  /\ echoed = 0 /\ open = TRUE /\ quit = FALSE /\ got = 0 /\ out = <<>> /\ displayed = 0
-----------------------------------------------------------------------------
(* The user, the terminal and the echo server.                             *)

TypeByte ==
  /\ typed < Input
  /\ typed' = typed + 1
  /\ UNCHANGED <<locals, fed, wire, fin, echoed, open, quit, got, out, displayed>>

Display ==
  /\ displayed < Len(out)
  /\ displayed' = displayed + 1
  /\ UNCHANGED <<locals, typed, fed, wire, fin, echoed, open, quit, got, out>>

Echo ==
  /\ open /\ echoed < Len(wire) /\ echoed - got < SockRoom
  /\ echoed' = echoed + 1
  /\ UNCHANGED <<locals, typed, fed, wire, fin, open, quit, got, out, displayed>>

\* The server closes when it has read the client's FIN.
Hangup ==
  /\ open /\ fin /\ echoed = Len(wire)
  /\ open' = FALSE
  /\ UNCHANGED <<locals, typed, fed, wire, fin, echoed, quit, got, out, displayed>>

\* It may also close earlier, or die.
Quit ==
  /\ open /\ ~(fin /\ echoed = Len(wire))
  /\ open' = FALSE /\ quit' = TRUE
  /\ UNCHANGED <<locals, typed, fed, wire, fin, echoed, got, out, displayed>>

\* Unread bytes at the server's close reset the connection.
WasReset == ~open /\ echoed < Len(wire)
-----------------------------------------------------------------------------
(* str_cli(): select(), then the four blocks.                              *)

SockReadable == got < echoed \/ ~open
SockWritable == Len(wire) - echoed < SockRoom \/ ~open
TtyWritable  == Len(out) - displayed < TtyRoom
StdinReadable == fed < typed \/ fed = Input

Select ==
  /\ block = "select"
  /\ rset' = {d \in {"stdin", "sock"} :
       \/ d = "stdin" /\ ~stdineof /\ toi < MaxLine /\ StdinReadable
       \/ d = "sock" /\ fri < MaxLine /\ SockReadable}
  /\ wset' = {d \in {"stdout", "sock"} :
       \/ d = "sock" /\ too # toi /\ SockWritable
       \/ d = "stdout" /\ fro # fri /\ TtyWritable}
  /\ rset' # {} \/ wset' # {}
  /\ block' = "stdin"
  /\ UNCHANGED <<to, toi, too, fr, fri, fro, stdineof,
                 typed, fed, wire, fin, echoed, open, quit, got, out, displayed>>

\* The block of a descriptor that is not in its set does nothing.
Pass(from, d, set, next) ==
  /\ block = from /\ d \notin set /\ block' = next
  /\ UNCHANGED <<rset, wset, to, toi, too, fr, fri, fro, stdineof,
                 typed, fed, wire, fin, echoed, open, quit, got, out, displayed>>

ReadStdin ==
  /\ block = "stdin" /\ "stdin" \in rset /\ fed < typed
  /\ \E n \in 1 .. Least(Space(toi), typed - fed) :
       /\ to' = [k \in Cells |-> IF toi <= k /\ k < toi + n THEN fed + 1 + (k - toi) ELSE to[k]]
       /\ toi' = toi + n
       /\ fed' = fed + n
  /\ wset' = wset \cup {"sock"}
  /\ block' = "sock"
  /\ UNCHANGED <<rset, too, fr, fri, fro, stdineof, typed, wire, fin, echoed, open, quit, got, out, displayed>>

FinNow == TRUE
FinAtEof == too = toi

StdinEof ==
  /\ block = "stdin" /\ "stdin" \in rset /\ fed = typed
  /\ stdineof' = TRUE
  /\ fin' = (fin \/ FinAtEof)
  /\ block' = "sock"
  /\ UNCHANGED <<rset, wset, to, toi, too, fr, fri, fro, typed, fed, wire, echoed, open, quit, got, out, displayed>>

\* Where read() puts what comes from the socket.
FrStart == 0
FrNext  == fri

ReadSock ==
  /\ block = "sock" /\ "sock" \in rset /\ got < echoed
  /\ \E n \in 1 .. Least(Space(fri), echoed - got) :
       /\ fr' = [k \in Cells |-> IF FrNext <= k /\ k < FrNext + n THEN wire[got + 1 + (k - FrNext)]
                                                              ELSE fr[k]]
       /\ fri' = fri + n
       /\ got' = got + n
  /\ wset' = wset \cup {"stdout"}
  /\ block' = "stdout"
  /\ UNCHANGED <<rset, to, toi, too, fro, stdineof, typed, fed, wire, fin, echoed, open, quit, out, displayed>>

SockEof ==
  /\ block = "sock" /\ "sock" \in rset /\ got = echoed /\ ~open
  /\ block' = IF stdineof THEN "returned" ELSE "failed"
  /\ UNCHANGED <<rset, wset, to, toi, too, fr, fri, fro, stdineof,
                 typed, fed, wire, fin, echoed, open, quit, got, out, displayed>>

SockError ==
  /\ block = "sock" /\ "sock" \in rset /\ WasReset
  /\ block' = "failed"
  /\ UNCHANGED <<rset, wset, to, toi, too, fr, fri, fro, stdineof,
                 typed, fed, wire, fin, echoed, open, quit, got, out, displayed>>

\* Both pointers go back to the start of a buffer that has been emptied.
Rewind(in, p, ptr) == IF p = in THEN 0 ELSE ptr

\* How far the output pointer moves when n bytes were written.
WroteAll(in, ptr, n) == in
Wrote(in, ptr, n)    == ptr + n

WriteStdout ==
  /\ block = "stdout" /\ "stdout" \in wset
  /\ \/ /\ ~TtyWritable                      \* EWOULDBLOCK
        /\ UNCHANGED <<out, fri, fro>>
     \/ \E n \in 1 .. Least(fri - fro, TtyRoom - (Len(out) - displayed)) :
          /\ out' = out \o [j \in 1 .. n |-> fr[fro + j - 1]]
          /\ fri' = Rewind(fri, Wrote(fri, fro, n), fri)
          /\ fro' = Rewind(fri, Wrote(fri, fro, n), Wrote(fri, fro, n))
  /\ block' = "sockout"
  /\ UNCHANGED <<rset, wset, to, toi, too, fr, stdineof, typed, fed, wire, fin, echoed, open, quit, got, displayed>>

NoFin == FALSE
FinAtDrain == stdineof

WriteSock ==
  /\ block = "sockout" /\ "sock" \in wset
  /\ \/ /\ ~SockWritable                     \* EWOULDBLOCK
        /\ block' = "select"
        /\ UNCHANGED <<wire, toi, too, fin>>
     \/ /\ \E n \in 1 .. Least(toi - too, IF open THEN SockRoom - (Len(wire) - echoed) ELSE MaxLine) :
             /\ wire' = wire \o [j \in 1 .. n |-> to[too + j - 1]]
             /\ toi' = Rewind(toi, Wrote(toi, too, n), toi)
             /\ too' = Rewind(toi, Wrote(toi, too, n), Wrote(toi, too, n))
             /\ fin' = (fin \/ (toi = Wrote(toi, too, n) /\ FinAtDrain))
        /\ block' = "select"
     \/ /\ ~open                             \* EPIPE, and SIGPIPE
        /\ block' = "failed"
        /\ UNCHANGED <<wire, toi, too, fin>>
  /\ UNCHANGED <<rset, wset, to, fr, fri, fro, stdineof, typed, fed, echoed, open, quit, got, out, displayed>>
-----------------------------------------------------------------------------
Client ==
  \/ Select
  \/ Pass("stdin", "stdin", rset, "sock") \/ ReadStdin \/ StdinEof
  \/ Pass("sock", "sock", rset, "stdout") \/ ReadSock \/ SockEof \/ SockError
  \/ Pass("stdout", "stdout", wset, "sockout") \/ WriteStdout
  \/ Pass("sockout", "sock", wset, "select") \/ WriteSock

EchoServer == Echo \/ Hangup \/ Quit

CliNext == Client \/ EchoServer \/ TypeByte \/ Display

CliSpec == CliInit /\ [][CliNext]_strcli

\* The client and the server run, the user types, the terminal scrolls; the
\* server need not quit.
CliFairSpec == CliSpec /\ WF_strcli(Client) /\ WF_strcli(Echo) /\ WF_strcli(Hangup)
                 /\ WF_strcli(TypeByte) /\ WF_strcli(Display)
-----------------------------------------------------------------------------
\* Every variable has its type; the pointers stay in order inside their buffer.
CliTypeOK ==
  /\ block \in {"select", "stdin", "sock", "stdout", "sockout", "returned", "failed"}
  /\ rset \subseteq {"stdin", "sock"} /\ wset \subseteq {"stdout", "sock"}
  /\ to \in [Cells -> Nat] /\ fr \in [Cells -> Nat]
  /\ toi \in 0 .. MaxLine /\ too \in 0 .. toi
  /\ fri \in 0 .. MaxLine /\ fro \in 0 .. fri
  /\ stdineof \in BOOLEAN /\ fin \in BOOLEAN /\ open \in BOOLEAN /\ quit \in BOOLEAN
  /\ typed \in 0 .. Input /\ fed \in 0 .. typed
  /\ wire \in Seq(Nat) /\ out \in Seq(Nat)
  /\ echoed \in 0 .. Len(wire) /\ got \in 0 .. echoed /\ displayed \in 0 .. Len(out)

\* Bytes go out in the order and number they were typed: what was written to
\* the socket, then what is between tooptr and toiptr, is what was read from
\* stdin.
Upstream ==
  /\ Len(wire) + (toi - too) = fed
  /\ \A k \in 1 .. Len(wire) : wire[k] = k
  /\ \A k \in too .. toi - 1 : to[k] = Len(wire) + 1 + (k - too)

\* And they come back so: stdout, then froptr to friptr, is what was read from
\* the socket.
Downstream ==
  /\ Len(out) + (fri - fro) = got
  /\ \A k \in 1 .. Len(out) : out[k] = k
  /\ \A k \in fro .. fri - 1 : fr[k] = Len(out) + 1 + (k - fro)

\* FIN is sent when all of stdin has been, however the last reads and writes
\* interleave with stdin's end: no byte is left to write after shutdown(), and
\* none is held back once the buffer is empty and stdin has ended.
FinLast == (fin <=> stdineof /\ too = toi) /\ (fin => Len(wire) = Input)

\* Returning with a server that has not quit means that every byte was sent,
\* echoed and read; not that it was written to stdout. str_cli() drops what
\* fr[] still holds from froptr to friptr, which is then the end of the input,
\* and nothing else.
ReturnedAfterAll ==
  block = "returned" /\ ~quit =>
    /\ Len(wire) = Input /\ got = Input
    /\ Len(out) + (fri - fro) = Input
    /\ \A k \in fro .. fri - 1 : fr[k] = Len(out) + 1 + (k - fro)

\* Together: through partial reads and writes in both directions, what the user
\* typed comes back into fr[] whole and in order, the end of it last, and
\* str_cli() does not return before; stdout has all of it but what fr[] holds,
\* even after the return.
Intact == Upstream /\ Downstream /\ FinLast /\ ReturnedAfterAll

\* Once the user has typed all, the loop ends: with stdin ended and the echo read
\* it returns, and never waits in select() for what will not come; it fails only
\* on a server that quit.
Ends == typed = Input ~> block = "returned" \/ (quit /\ block = "failed")
=============================================================================
