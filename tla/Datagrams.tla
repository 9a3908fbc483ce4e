------------------------------ MODULE Datagrams ------------------------------
(***************************************************************************)
(* The request/response programs over UDP, told apart by prog: "ch8",      *)
(* ch8/udp_server.c with the poll() loop of ch8/udp_client.c; "echo",      *)
(* assign/EchoServer.c and EchoClient.c; "time", TimeOfDayServer.c and     *)
(* TimeOfDayClient.c; "daytime", ch11/daytime_udp_server.c and             *)
(* daytime_udp_client.c with lib/udp_server.c and lib/udp_client.c.        *)
(*                                                                         *)
(* The network loses, repeats and reorders. A client process has a port    *)
(* from its first sendto() to its end; the next process may get the same   *)
(* port, and with it what was sent to the one before. text is the number   *)
(* of a request on its port: it stands for the content of the datagram.    *)
(*                                                                         *)
(* sent, copies, lost and shown only record what has happened.             *)
(*                                                                         *)
(* NoSender, StaleSender, Silent, Twice and BothReady are wrong variants   *)
(* of the operator that follows each.                                      *)
(***************************************************************************)
EXTENDS Naturals, FiniteSets, Bags
INSTANCE BagsExt

CONSTANTS
  Ports,       \* of the clients
  NoPort,
  Addrs,       \* how many addresses getaddrinfo() gives udp_server()
  MaxSends,    \* bound: how many datagrams are sent from each port
  MaxLost, MaxCopies, MaxClock, MaxBoots   \* bounds

ASSUME DatagramAssumption ==
  /\ NoPort \notin Ports /\ Addrs \in Nat \ {0}
  /\ MaxSends \in [Ports -> Nat] /\ {MaxLost, MaxCopies, MaxClock, MaxBoots} \subseteq Nat

VARIABLES
  prog,
  spc, bound,      \* where the server is; whether its socket has its port
  res,             \* where udp_server() is in its list
  buffer, client_addr,
  boots,           \* how often the server was started
  requests, answers,   \* bags of datagrams on their way, or in a socket
  cpc,             \* where the process on a port is; "out": there is none
  open,            \* its socket has the port
  text,            \* the number of the last request of the port
  asked,           \* when it was sent
  revents,         \* what poll() has returned and is not yet looked at
  eof,             \* stdin has ended
  last,            \* the last answer a client that asks once has shown
  killed,          \* ports on which one was killed while it waited
  now,
  sent, copies, lost, shown

server == <<spc, bound, res, buffer, client_addr, boots>>
client == <<cpc, open, text, asked, revents, eof, last, killed>>
record == <<sent, copies, lost, shown>>
vars   == <<prog, server, client, requests, answers, now, record>>

Texts == UNION {0 .. MaxSends[c] : c \in Ports}
Item(c, k) == [from |-> c, text |-> k]
ItemOf(m)  == Item(m.from, m.text)

\* How often e is in a bag; a bag's datagrams one by one, told apart by a number.
Count(e, bag) == IF e \in DOMAIN bag THEN bag[e] ELSE 0
Each(bag)     == UNION {{m} \X (1 .. bag[m]) : m \in DOMAIN bag}
Sends(c)      == Cardinality({d \in Each(sent) : d[1].from = c})

Init ==
  /\ prog \in {"ch8", "echo", "time", "daytime"}
  /\ spc = "out" /\ bound = FALSE /\ res = 1 /\ boots = 0
  /\ buffer = Item(NoPort, 0) /\ client_addr = NoPort
  /\ requests = EmptyBag /\ answers = EmptyBag
  /\ cpc = [c \in Ports |-> "out"] /\ open = [c \in Ports |-> FALSE]
  /\ text = [c \in Ports |-> 0] /\ asked = [c \in Ports |-> 0]
  /\ revents = [c \in Ports |-> {}] /\ eof = [c \in Ports |-> FALSE]
  /\ last = [c \in Ports |-> [to |-> c, from |-> c, text |-> 0, time |-> 0]]
  /\ killed = {} /\ now = 0
  /\ sent = EmptyBag /\ copies = EmptyBag /\ lost = EmptyBag /\ shown = EmptyBag
-----------------------------------------------------------------------------
(* The servers.                                                            *)

Boot ==
  /\ spc = "out" /\ boots < MaxBoots
  /\ spc' = "setup" /\ boots' = boots + 1 /\ res' = 1
  /\ UNCHANGED <<prog, bound, buffer, client_addr, client, requests, answers, now, record>>

\* socket() and bind(), or one of them fails and the program ends.
SetUp(p) ==
  /\ prog = p /\ spc = "setup"
  /\ \/ spc' = "recv" /\ bound' = TRUE
     \/ spc' = "out" /\ UNCHANGED bound
  /\ UNCHANGED <<prog, res, buffer, client_addr, boots, client, requests, answers, now, record>>

Ch8SetUp  == SetUp("ch8")
EchoSetUp == SetUp("echo")
TimeSetUp == SetUp("time")

\* udp_server() leaves its loop as soon as socket() succeeds; bind() is called
\* only for the -1 of one that failed. The server then waits on a socket that
\* has no port: its recvfrom() never returns.
UdpServer ==
  /\ prog = "daytime" /\ spc = "setup"
  /\ \/ spc' = "recv" /\ UNCHANGED <<bound, res>>
     \/ res < Addrs /\ res' = res + 1 /\ UNCHANGED <<spc, bound>>
     \/ res = Addrs /\ spc' = "out" /\ UNCHANGED <<res, bound>>
  /\ UNCHANGED <<prog, buffer, client_addr, boots, client, requests, answers, now, record>>

\* recvfrom(). The ch8 client always sends BUFSIZ bytes, so udp_server.c's
\* buf[n] is the byte after its buffer; nothing reads it.
NoSender(m)    == NoPort
StaleSender(m) == IF client_addr = NoPort THEN m.from ELSE client_addr
Sender(m)      == m.from

Receive ==
  /\ spc = "recv" /\ bound
  /\ \E m \in BagToSet(requests) :
       /\ requests' = BagRemove(requests, m)
       /\ buffer' = m /\ client_addr' = Sender(m)
  /\ spc' = "send"
  /\ UNCHANGED <<prog, bound, res, boots, client, answers, now, record>>

\* sendto()
Silent(m)   == answers
Twice(m)    == BagAdd(BagAdd(answers, m), m)
Added(m)    == BagAdd(answers, m)

Reply(p, time) ==
  /\ prog = p /\ spc = "send" /\ spc' = "recv"
  /\ answers' = Added([to |-> client_addr, from |-> buffer.from,
                      text |-> buffer.text, time |-> time])
  /\ UNCHANGED <<prog, bound, res, buffer, client_addr, boots, client, requests, now, record>>

Ch8Reply  == Reply("ch8", 0)
EchoReply == Reply("echo", 0)
TimeReply == Reply("time", now)

\* Somebody ends the server, at any point.
Die ==
  /\ spc # "out" /\ spc' = "out" /\ bound' = FALSE
  /\ lost' = IF spc = "send" THEN BagAdd(lost, buffer) ELSE lost
  /\ UNCHANGED <<prog, res, buffer, client_addr, boots, client, requests, answers, now,
                 sent, copies, shown>>
-----------------------------------------------------------------------------
(* The network.                                                            *)

\* What no socket takes: the port is not open. The programs never hear of it.
Refuse ==
  /\ \/ ~bound /\ \E m \in BagToSet(requests) :
          requests' = BagRemove(requests, m) /\ lost' = BagAdd(lost, m) /\ UNCHANGED answers
     \/ \E m \in BagToSet(answers) :
          /\ ~open[m.to]
          /\ answers' = BagRemove(answers, m) /\ lost' = BagAdd(lost, ItemOf(m))
          /\ UNCHANGED requests
  /\ UNCHANGED <<prog, server, client, now, sent, copies, shown>>

\* What poll() has seen is in the socket and is lost no more.
Lose ==
  /\ BagCardinality(lost) < MaxLost
  /\ \/ \E m \in BagToSet(requests) :
          requests' = BagRemove(requests, m) /\ lost' = BagAdd(lost, m) /\ UNCHANGED answers
     \/ \E m \in BagToSet(answers) :
          /\ "sock" \notin revents[m.to]
          /\ answers' = BagRemove(answers, m) /\ lost' = BagAdd(lost, ItemOf(m))
          /\ UNCHANGED requests
  /\ UNCHANGED <<prog, server, client, now, sent, copies, shown>>

Copy ==
  /\ BagCardinality(copies) < MaxCopies
  /\ \/ \E m \in BagToSet(requests) :
          requests' = BagAdd(requests, m) /\ copies' = BagAdd(copies, m) /\ UNCHANGED answers
     \/ \E m \in BagToSet(answers) :
          answers' = BagAdd(answers, m) /\ copies' = BagAdd(copies, ItemOf(m)) /\ UNCHANGED requests
  /\ UNCHANGED <<prog, server, client, now, sent, lost, shown>>

Tick ==
  /\ prog = "time" /\ now < MaxClock /\ now' = now + 1
  /\ UNCHANGED <<prog, server, client, requests, answers, record>>
-----------------------------------------------------------------------------
(* The clients.                                                            *)

\* sendto() of request k.
Send(c, k) ==
  /\ text' = [text EXCEPT ![c] = k] /\ asked' = [asked EXCEPT ![c] = now]
  /\ open' = [open EXCEPT ![c] = TRUE]
  /\ requests' = BagAdd(requests, Item(c, k)) /\ sent' = BagAdd(sent, Item(c, k))

\* A client that asks once. Without a socket it ends before it has any state.
Ask(c, p) ==
  /\ prog = p /\ cpc[c] = "out" /\ text[c] < MaxSends[c]
  /\ Send(c, text[c] + 1) /\ cpc' = [cpc EXCEPT ![c] = "wait"]
  /\ UNCHANGED <<prog, server, revents, eof, last, killed, answers, now, copies, lost, shown>>

EchoClient(c)    == Ask(c, "echo")
TimeClient(c)    == Ask(c, "time")
DaytimeClient(c) == Ask(c, "daytime")

\* recvfrom() and printf() of datagram m.
Take(c, m) ==
  /\ m \in BagToSet(answers) /\ m.to = c
  /\ answers' = BagRemove(answers, m) /\ shown' = BagAdd(shown, ItemOf(m))

Show(c) ==
  /\ cpc[c] = "wait"
  /\ \E m \in BagToSet(answers) : Take(c, m) /\ last' = [last EXCEPT ![c] = m]
  /\ cpc' = [cpc EXCEPT ![c] = "out"] /\ open' = [open EXCEPT ![c] = FALSE]
  /\ UNCHANGED <<prog, server, text, asked, revents, eof, killed, requests, now,
                 sent, copies, lost>>

\* ch8/udp_client.c is started.
PollClient(c) ==
  /\ prog = "ch8" /\ cpc[c] = "out"
  /\ cpc' = [cpc EXCEPT ![c] = "poll"] /\ eof' = [eof EXCEPT ![c] = FALSE]
  /\ UNCHANGED <<prog, server, open, text, asked, revents, last, killed, requests, answers,
                 now, record>>

Readable(c) == open[c] /\ \E m \in BagToSet(answers) : m.to = c

\* stdin is ready when the user has typed a line, and for ever after its end.
\* Bound: at MaxSends[c] it is silent.
Ready(c) ==
  (IF Readable(c) THEN {"sock"} ELSE {}) \cup (IF Sends(c) < MaxSends[c] THEN {"stdin"} ELSE {})

Poll(c) ==
  /\ cpc[c] = "poll"
  /\ \E r \in SUBSET Ready(c) :
       /\ r # {} /\ (Readable(c) => "sock" \in r)
       /\ (eof[c] => r \cap {"stdin"} = Ready(c) \cap {"stdin"})
       /\ revents' = [revents EXCEPT ![c] = r]
       /\ cpc' = [cpc EXCEPT ![c] = IF "stdin" \in r THEN "stdin" ELSE "sock"]
  /\ UNCHANGED <<prog, server, open, text, asked, eof, last, killed, requests, answers, now,
                 record>>

\* Where the loop goes on after stdin: back to poll() if that was all.
BothReady(c) == "sock"
Further(c)   == IF revents[c] = {"stdin"} THEN "poll" ELSE "sock"

\* read() of a line, or of the end: then what is in send_buf is sent once more,
\* 0 being the empty buffer of a client that has read nothing.
Stdin(c) ==
  /\ cpc[c] = "stdin"
  /\ \/ ~eof[c] /\ Send(c, text[c] + 1) /\ UNCHANGED eof
     \/ Send(c, IF open[c] THEN text[c] ELSE 0) /\ eof' = [eof EXCEPT ![c] = TRUE]
  /\ cpc' = [cpc EXCEPT ![c] = Further(c)]
  /\ revents' = [revents EXCEPT ![c] = IF Further(c) = "poll" THEN {} ELSE @ \ {"stdin"}]
  /\ UNCHANGED <<prog, server, last, killed, answers, now, copies, lost, shown>>

Sock(c) ==
  /\ cpc[c] = "sock" /\ \E m \in BagToSet(answers) : Take(c, m)
  /\ cpc' = [cpc EXCEPT ![c] = "poll"] /\ revents' = [revents EXCEPT ![c] = {}]
  /\ UNCHANGED <<prog, server, open, text, asked, eof, last, killed, requests, now, sent,
                 copies, lost>>

\* Its user ends a client.
Kill(c) ==
  /\ cpc[c] # "out"
  /\ cpc' = [cpc EXCEPT ![c] = "out"] /\ open' = [open EXCEPT ![c] = FALSE]
  /\ revents' = [revents EXCEPT ![c] = {}]
  /\ killed' = IF cpc[c] = "wait" THEN killed \cup {c} ELSE killed
  /\ UNCHANGED <<prog, server, text, asked, eof, last, requests, answers, now, record>>
-----------------------------------------------------------------------------
SettingUp == Ch8SetUp \/ EchoSetUp \/ TimeSetUp \/ UdpServer
Answering == Ch8Reply \/ EchoReply \/ TimeReply
Asking(c) == EchoClient(c) \/ TimeClient(c) \/ DaytimeClient(c)

Next ==
  \/ Boot \/ SettingUp \/ Receive \/ Answering \/ Die
  \/ Refuse \/ Lose \/ Copy \/ Tick
  \/ \E c \in Ports :
       Asking(c) \/ Show(c) \/ PollClient(c) \/ Poll(c) \/ Stdin(c) \/ Sock(c) \/ Kill(c)

Spec == Init /\ [][Next]_vars

\* A server that runs goes on, what is on its way arrives somewhere, and so do
\* the clients, of which the user obliges none to ask.
FairSpec ==
  /\ Spec /\ WF_vars(SettingUp) /\ WF_vars(Receive) /\ WF_vars(Answering) /\ WF_vars(Refuse)
  /\ \A c \in Ports :
       WF_vars(Show(c)) /\ WF_vars(Readable(c) /\ Poll(c)) /\ WF_vars(Stdin(c)) /\ WF_vars(Sock(c))
-----------------------------------------------------------------------------
Items == [from : Ports, text : Texts]

\* Every variable has its type; in the daytime pair nothing is ever answered.
TypeOK ==
  /\ prog \in {"ch8", "echo", "time", "daytime"}
  /\ spc \in {"out", "setup", "recv", "send"} /\ bound \in BOOLEAN /\ res \in 1 .. Addrs
  /\ buffer \in Items \cup {Item(NoPort, 0)} /\ client_addr \in Ports \cup {NoPort}
  /\ boots \in 0 .. MaxBoots
  /\ DOMAIN requests \subseteq Items
  /\ prog = "daytime" => ~bound /\ answers = EmptyBag
  /\ DOMAIN answers \subseteq [to : Ports, from : Ports, text : Texts, time : 0 .. MaxClock]
  /\ cpc \in [Ports -> {"out", "wait", "poll", "stdin", "sock"}] /\ open \in [Ports -> BOOLEAN]
  /\ text \in [Ports -> Texts] /\ asked \in [Ports -> 0 .. MaxClock]
  /\ revents \in [Ports -> SUBSET {"stdin", "sock"}] /\ eof \in [Ports -> BOOLEAN]
  /\ killed \subseteq Ports /\ now \in 0 .. MaxClock
  /\ \A b \in {sent, copies, lost, shown} : DOMAIN b \subseteq Items

\* One request is one answer: whatever was sent, or repeated by the network, is
\* shown, lost, on its way there or back, or in the server, and nothing else is.
Held(e)     == IF spc = "send" /\ buffer = e THEN 1 ELSE 0
UnderWay(e) == Cardinality({d \in Each(answers) : ItemOf(d[1]) = e})
Conserved ==
  \A e \in Items :
    Count(e, sent) + Count(e, copies) =
      Count(e, lost) + Count(e, requests) + Held(e) + UnderWay(e) + Count(e, shown)

\* An answer goes to the client whose request it answers, although one buffer and
\* one address serve all of them; and a client that asks once shows the answer to
\* the very request it sent, with a time not before it asked. Unless a process that
\* was killed, or the network, has left an older answer for its port: nothing in
\* the datagram would tell.
OwnAnswer ==
  /\ \A m \in BagToSet(answers) : m.to = m.from
  /\ \A c \in Ports :
       last[c].from = c /\
       ((prog # "ch8" /\ cpc[c] = "out" /\ c \notin killed
           /\ \A k \in Texts : Item(c, k) \notin DOMAIN copies)
          => last[c].text = text[c] /\ last[c].time >= asked[c])

\* Every request has its one answer, and every answer its own client.
OneAnswer == Conserved /\ OwnAnswer

\* A client that has asked ends, or its request or the answer was lost. There is
\* no timeout: if so it waits until its user ends it.
Answered ==
  \A c \in Ports : cpc[c] = "wait" ~> cpc[c] # "wait" \/ Item(c, text[c]) \in DOMAIN lost

\* The poll() loop calls recvfrom() only when a datagram is there, so that it does
\* not block while the user types; and it shows what comes in, whatever is typed
\* and sent meanwhile, after the end of stdin too.
Responsive ==
  /\ [](\A c \in Ports : cpc[c] = "sock" => Readable(c))
  /\ \A c \in Ports : cpc[c] # "out" /\ Readable(c) ~> cpc[c] = "out" \/ ~Readable(c)

\* No client is stuck, or deaf, but for what the network has lost.
NoneStuck == Answered /\ Responsive
=============================================================================
