------------------------------ MODULE EchoFlow ------------------------------
(***************************************************************************)
(* Echo clients that may have more than one message under way:             *)
(*   "select"  ch6/client.c, which copies stdin to the socket and back,    *)
(*             with a loop of ch6 (EventLoop) as its server                *)
(*   "one"     doit() of ch10/sctp_client.c, which asks on a stream and    *)
(*             waits for one answer                                        *)
(*   "all"     doit_all() of the same, which asks on every stream before   *)
(*             it reads                                                    *)
(*   "none"    nobody                                                      *)
(* ch10/sctp_server.c answers on the next stream, or on the same. A TCP    *)
(* connection has the one stream 0. A message, or a piece of a byte stream *)
(* that no read() splits, is an item with its number on its stream; word   *)
(* says that it begins with "exit". What is written arrives at once, and a *)
(* read() returns all that has arrived and fits.                           *)
(*                                                                         *)
(* OneShort, SockShort and ReplyLate are wrong variants of the operator    *)
(* that follows each.                                                      *)
(***************************************************************************)
EXTENDS Naturals, Sequences, FiniteSets, FiniteSetsExt

CONSTANTS
  Clients, NoClient,
  Modes,         \* who runs which client
  StreamCounts,  \* how many streams an association may have; Linux gives 10
  Asked,         \* SERV_MAX_SCTP_STRM
  Room,          \* items the kernel buffers in each direction of a connection
  Chunk,         \* items in BUFSIZ
  MaxTyped       \* bound: how many lines are typed

Kinds == {"none", "select", "one", "all"}
IsTcp(m) == \E c \in Clients : m[c] = "select"

ASSUME FlowAssumption ==
  /\ NoClient \notin Clients /\ Modes \subseteq [Clients -> Kinds]
  /\ \A m \in Modes : IsTcp(m) => \A c \in Clients : m[c] \in {"none", "select"}
  /\ StreamCounts \subseteq Nat \ {0} /\ IsFiniteSet(StreamCounts)
  /\ Asked \in Nat \ {0} /\ Chunk \in Nat \ {0} /\ MaxTyped \in [Kinds -> Nat]
  /\ Room \in Nat /\ Room >= Asked /\ Room >= 2 * Chunk

VARIABLES
  mode, increment, streams,
  cpc,       \* "prompt", "send", "recv", "sock" or "done"
  todo,      \* the items still to be sent: <<stream, word>>
  await,     \* the answers still to be received
  flagged,   \* select() has reported the socket as well
  lines, refused,   \* refused: a message had no such stream, and was not sent
  up, down, sent, seen,   \* by client and stream
  spc,       \* "recv", "send" or "dead"
  held, from, dest         \* read_buf; whose it is; sri.sinfo_stream

program == <<mode, increment, streams>>
reader  == <<cpc, todo, await, flagged, lines, refused>>
counts  == <<sent, seen>>
server  == <<spc, held, from, dest>>
flow    == <<program, reader, up, down, counts, server>>

Strms == UNION {0 .. n : n \in StreamCounts \cup {Asked}}
ByStream(v) == [c \in Clients |-> [s \in Strms |-> v]]
Tcp == IsTcp(mode)
Gone(c) == cpc[c] = "done"
Buffered(q) == Cardinality(UNION {{s} \X (1 .. Len(q[s])) : s \in Strms})

FlowInit ==
  /\ mode \in Modes /\ increment \in (IF Tcp THEN {FALSE} ELSE BOOLEAN)
  /\ streams \in [Clients -> IF Tcp THEN {1} ELSE StreamCounts]
  /\ cpc = [c \in Clients |-> IF mode[c] = "none" THEN "done" ELSE "prompt"]
  /\ todo = [c \in Clients |-> <<>>] /\ await = [c \in Clients |-> 0]
  /\ flagged = [c \in Clients |-> FALSE] /\ lines = [c \in Clients |-> 0]
  /\ refused = [c \in Clients |-> FALSE]
  /\ up = ByStream(<<>>) /\ down = ByStream(<<>>) /\ sent = ByStream(0) /\ seen = ByStream(0)
  /\ spc = "recv" /\ held = <<>> /\ from = NoClient /\ dest = 0
-----------------------------------------------------------------------------
(* The clients.                                                            *)

\* A line of stdin, whose first character is '[' or who is told so. strtol()'s
\* number is cut to 16 bits, and may be no stream of the association.
\* sendline is sent whole, whatever its string.
Lines(kind) ==
  IF kind = "one" THEN {<<<<s, FALSE>>>> : s \in Strms}
  ELSE {[i \in 1 .. Asked |-> <<i - 1, FALSE>>]}

OneShort(kind) == IF kind = "one" THEN 1 ELSE Asked - 1
Answers(kind)  == IF kind = "one" THEN 1 ELSE Asked

Ask(c) ==
  /\ mode[c] \in {"one", "all"} /\ cpc[c] = "prompt" /\ lines[c] < MaxTyped[mode[c]]
  /\ todo' \in {[todo EXCEPT ![c] = l] : l \in Lines(mode[c])}
  /\ await' = [await EXCEPT ![c] = Answers(mode[c])]
  /\ lines' = [lines EXCEPT ![c] = @ + 1]
  /\ cpc' = [cpc EXCEPT ![c] = "send"]
  /\ UNCHANGED <<program, flagged, refused, up, down, counts, server>>

\* What select() says of the socket.
Readable(c) == down[c][0] # <<>> \/ spc = "dead"

\* select() reports stdin, and perhaps the socket; read() takes some pieces.
SelectInput(c) ==
  /\ mode[c] = "select" /\ cpc[c] = "prompt"
  /\ \E n \in 1 .. Min({Chunk, MaxTyped["select"] - lines[c]}) :
       /\ lines' = [lines EXCEPT ![c] = @ + n]
       /\ todo' \in {[todo EXCEPT ![c] = [i \in 1 .. n |-> <<0, w[i]>>]] : w \in [1 .. n -> BOOLEAN]}
  /\ flagged' = [flagged EXCEPT ![c] = Readable(c)]
  /\ cpc' = [cpc EXCEPT ![c] = "send"]
  /\ UNCHANGED <<program, await, refused, up, down, counts, server>>

SelectSocket(c) ==
  /\ mode[c] = "select" /\ cpc[c] = "prompt" /\ Readable(c)
  /\ cpc' = [cpc EXCEPT ![c] = "sock"]
  /\ UNCHANGED <<program, todo, await, flagged, lines, refused, up, down, counts, server>>

\* After the last item of a round.
AfterSend(c) == IF mode[c] # "select" THEN "recv" ELSE IF flagged[c] THEN "sock" ELSE "prompt"

\* write() or sctp_sendmsg() of the next item; it blocks while there is no room.
\* sctp_sendmsg() refuses a stream the association lacks, and nobody looks.
Send(c) ==
  /\ cpc[c] = "send"
  /\ LET s == Head(todo[c])[1] IN
     \/ /\ s >= streams[c]
        /\ refused' = [refused EXCEPT ![c] = TRUE]
        /\ UNCHANGED <<up, sent>>
     \/ /\ s < streams[c] /\ Buffered(up[c]) < Room
        /\ sent' = [sent EXCEPT ![c][s] = @ + 1]
        /\ up' = [up EXCEPT ![c][s] = Append(@, [str |-> s, num |-> sent[c][s] + 1, word |-> Head(todo[c])[2]])]
        /\ UNCHANGED refused
  /\ todo' = [todo EXCEPT ![c] = Tail(@)]
  /\ cpc' = [cpc EXCEPT ![c] = IF Len(todo[c]) = 1 THEN AfterSend(c) ELSE "send"]
  /\ UNCHANGED <<program, await, flagged, lines, down, seen, server>>

\* sctp_recvmsg() takes the next message of any stream.
Receive(c) ==
  /\ cpc[c] = "recv" /\ await[c] > 0
  /\ \E s \in Strms :
       /\ down[c][s] # <<>>
       /\ seen' = [seen EXCEPT ![c][Head(down[c][s]).str] = @ + 1]
       /\ down' = [down EXCEPT ![c][s] = Tail(@)]
  /\ await' = [await EXCEPT ![c] = @ - 1]
  /\ cpc' = [cpc EXCEPT ![c] = IF await[c] = 1 THEN "prompt" ELSE "recv"]
  /\ UNCHANGED <<program, todo, flagged, lines, refused, up, sent, server>>

\* A client that leaves drops what it has not read, and what is on its way to it.
Left(c) ==
  /\ cpc' = [cpc EXCEPT ![c] = "done"]
  /\ down' = [down EXCEPT ![c] = [s \in Strms |-> <<>>]]
  /\ UNCHANGED <<program, todo, await, flagged, lines, refused, up, counts, server>>

\* read() of the socket in ch6. A read that begins with "exit", or has nothing to
\* return, ends the client; the word further on is shown like any text.
SockShort(c) == 1
Taken(c)     == Min({Chunk, Len(down[c][0])})

Sock(c) ==
  /\ cpc[c] = "sock" /\ down[c][0] # <<>> /\ ~Head(down[c][0]).word
  /\ seen' = [seen EXCEPT ![c][0] = @ + Taken(c)]
  /\ down' = [down EXCEPT ![c][0] = SubSeq(@, Taken(c) + 1, Len(@))]
  /\ cpc' = [cpc EXCEPT ![c] = "prompt"]
  /\ UNCHANGED <<program, todo, await, flagged, lines, refused, up, sent, server>>

SockEnds(c) ==
  /\ cpc[c] = "sock"
  /\ down[c][0] = <<>> \/ Head(down[c][0]).word
  /\ Left(c)

\* End of stdin, whatever is still to come; or the user stops the client.
EndOfInput(c) == cpc[c] = "prompt" /\ Left(c)
UserKills(c)  == cpc[c] \in {"send", "recv", "sock"} /\ Left(c)
-----------------------------------------------------------------------------
(* The servers.                                                            *)

\* sctp_get_no_strms(): no association, no streams.
NoStrms(c) == IF Gone(c) THEN 0 ELSE streams[c]

\* The stream of the answer.
ReplyLate(c, s) == IF ~increment THEN s ELSE IF s + 1 > NoStrms(c) THEN 0 ELSE s + 1
Reply(c, s)     == IF ~increment THEN s ELSE IF s + 1 >= NoStrms(c) THEN 0 ELSE s + 1

\* sctp_recvmsg() takes one message of any client and stream.
TakeMessage ==
  /\ ~Tcp /\ spc = "recv" /\ spc' = "send"
  /\ \E c \in Clients, s \in Strms :
       /\ up[c][s] # <<>>
       /\ held' = <<Head(up[c][s])>> /\ from' = c /\ dest' = Reply(c, s)
       /\ up' = [up EXCEPT ![c][s] = Tail(@)]
  /\ UNCHANGED <<program, reader, down, counts>>

\* read() takes what has arrived from a ready client.
TakePieces ==
  /\ Tcp /\ spc = "recv" /\ spc' = "send"
  /\ \E c \in Clients :
       LET n == Min({Chunk, Len(up[c][0])}) IN
       /\ n > 0
       /\ held' = SubSeq(up[c][0], 1, n) /\ from' = c /\ dest' = 0
       /\ up' = [up EXCEPT ![c][0] = SubSeq(@, n + 1, Len(@))]
  /\ UNCHANGED <<program, reader, down, counts>>

\* sctp_sendmsg(), or write(), which puts piece after piece.
Put ==
  /\ spc = "send" /\ ~Gone(from) /\ dest < streams[from]
  /\ Buffered(down[from]) < Room
  /\ down' = [down EXCEPT ![from][dest] = Append(@, Head(held))]
  /\ held' = Tail(held) /\ spc' = IF Len(held) = 1 THEN "recv" ELSE "send"
  /\ UNCHANGED <<program, reader, up, counts, from, dest>>

\* The client has gone, or there is no such stream. SIGPIPE may end ch6's server.
PutFails ==
  /\ spc = "send" /\ (Gone(from) \/ dest >= streams[from])
  /\ held' = <<>> /\ spc' \in (IF Tcp THEN {"recv", "dead"} ELSE {"recv"})
  /\ UNCHANGED <<program, reader, up, down, counts, from, dest>>
-----------------------------------------------------------------------------
FlowServer == TakeMessage \/ TakePieces \/ Put \/ PutFails
FlowClient(c) == Send(c) \/ Receive(c) \/ SelectSocket(c) \/ Sock(c) \/ SockEnds(c)
FlowUser(c) == Ask(c) \/ SelectInput(c) \/ EndOfInput(c) \/ UserKills(c)

FlowNext == FlowServer \/ \E c \in Clients : FlowClient(c) \/ FlowUser(c)
FlowSpec == FlowInit /\ [][FlowNext]_flow

\* Programs run; nobody has to type.
FlowFairness == WF_flow(FlowServer) /\ \A c \in Clients : WF_flow(FlowClient(c))
FlowFairSpec == FlowSpec /\ FlowFairness
-----------------------------------------------------------------------------
\* Every variable has its type, nothing is in a stream the association lacks, and
\* no answer is for one.
FlowTypeOK ==
  /\ mode \in Modes /\ increment \in BOOLEAN
  /\ cpc \in [Clients -> {"prompt", "send", "recv", "sock", "done"}]
  /\ \A c \in Clients :
       /\ todo[c] \in Seq(Strms \X BOOLEAN) /\ await[c] \in 0 .. Asked
       /\ cpc[c] = "send" => todo[c] # <<>>
       /\ \A s \in Strms : s >= streams[c] => up[c][s] = <<>> /\ down[c][s] = <<>>
       /\ Buffered(up[c]) <= Room /\ Buffered(down[c]) <= Room
  /\ spc \in {"recv", "send", "dead"} /\ from \in Clients \cup {NoClient}
  /\ spc = "send" <=> held # <<>>
  /\ dest \in Strms /\ (spc = "send" /\ ~Gone(from) => dest < streams[from])

\* Whatever is under way, every message of a stream that is not seen yet is in
\* one place, and they come back in the order they were sent: first those that
\* wait for the client, all on one stream r that no other stream's answers are
\* on, then those in the server's hands, then those that wait for the server. And
\* when a client of ch10 asks for a line, it has had the answers to the one before.
Follow(q, s, n) == \A i \in 1 .. Len(q) : q[i].str = s /\ q[i].num = n + i
Mine(c, s)      == IF spc = "send" /\ from = c /\ held[1].str = s THEN held ELSE <<>>
OnlyOn(c, s, r) == \A q \in Strms : \A i \in 1 .. Len(down[c][q]) : down[c][q][i].str = s <=> q = r
UnderWay(c, s, r) ==
  LET back  == seen[c][s] + Len(down[c][r])
      taken == back + Len(Mine(c, s))
  IN  /\ OnlyOn(c, s, r) /\ Follow(down[c][r], s, seen[c][s])
      /\ Follow(Mine(c, s), s, back) /\ Follow(up[c][s], s, taken)
      /\ sent[c][s] = taken + Len(up[c][s])

InOrder ==
  spc # "dead" => \A c \in Clients : ~Gone(c) => \A s \in Strms :
    /\ \E r \in Strms : UnderWay(c, s, r)
    /\ mode[c] # "select" /\ cpc[c] = "prompt" => sent[c][s] = seen[c][s]

\* A client that has sent anything sees it again and comes back to its user,
\* though it may send a good deal before it reads: client and server never wait
\* for each other. Unless it was refused a stream: it then waits for ever.
Unanswered(c) == ~Gone(c) /\ (cpc[c] # "prompt" \/ sent[c] # seen[c])
FlowAnswered ==
  \A c \in Clients : Unanswered(c) ~> ~Unanswered(c) \/ refused[c] \/ spc = "dead"
=============================================================================
