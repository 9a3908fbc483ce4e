------------------------------- MODULE Queries -------------------------------
(***************************************************************************)
(* Programs that ask the kernel and print what it says: the defaults of    *)
(* socket options (ch7), an interface and the ARP table (ch17), a route    *)
(* (ch18), and the key database of IPsec (ch19).                           *)
(*                                                                         *)
(* Each asks one question after the other, most of them into one buffer.   *)
(* What the kernel says is left out: an answer is the number of the        *)
(* question it answers, 0 stands for none, and the negative of the number  *)
(* for what is printed as the answer although it is not. The kernel may    *)
(* refuse any question, and other processes change the key database        *)
(* meanwhile, of which every PF_KEY socket is told.                        *)
(*                                                                         *)
(* Leaked and IpLast are wrong variants of Hung and IpAfter.               *)
(***************************************************************************)
EXTENDS Integers, Sequences, FiniteSets

CONSTANTS
  Ifaces,   \* the families of the interfaces that getifaddrs() returns
  Routes,   \* the lists of attributes a route may have
  Keys,     \* how many keys the database may hold
  MaxRefused, MaxPosts   \* bounds: refusals, messages of others

ASSUME QueriesAssumption ==
  /\ Ifaces \in Seq({"v4", "v6", "none"})
  /\ \A r \in Routes : r \in Seq({"DST", "GATEWAY", "OIF"})
  /\ Keys \subseteq Nat /\ MaxRefused \in Nat /\ MaxPosts \in Nat

Programs == {"checkopts", "buffers", "interface", "arp", "route", "listen", "dump"}
Kinds    == {"tcp", "udp", "sctp", "kernel"}
Parts    == {"head", "addr"}

\* The level of each option: 16 of SOL_SOCKET, 2 of IP, 3 of IPv6, 2 of TCP, and
\* 4 of SCTP, which no header that is included defines.
SockOpts ==
  [k \in 1 .. 27 |-> CASE k <= 16 -> "SOCKET" [] k \in 17 .. 18 -> "IP"
                       [] k \in 19 .. 21 -> "IPV6" [] k \in 22 .. 23 -> "TCP"
                       [] OTHER -> "undefined"]

\* Two sizes of each of three sockets.
BufSockets == <<"tcp", "tcp", "udp", "udp", "sctp", "sctp">>

\* The ioctl() calls on one struct ifreq, in their order. Four fill the whole
\* union, the others its first bytes, before the address.
Ioctls == [ADDR |-> 1, INDEX |-> 2, NETMASK |-> 3, BRDADDR |-> 4, HWADDR |-> 5, FLAGS |-> 6,
           MTU |-> 7, METRIC |-> 8, TXQLEN |-> 9]
Addresses == {Ioctls.ADDR, Ioctls.NETMASK, Ioctls.BRDADDR, Ioctls.HWADDR}
Fills(q)  == IF q \in Addresses THEN Parts ELSE {"head"}
Field(q)  == IF q \in Addresses THEN "addr" ELSE "head"

VARIABLES
  asker,          \* which program it is
  step, next,     \* where it is: "socket", "ask", "close" or "done"; the question
  sockfd, opened, \* what the descriptor was made as; open sockets of each kind
  buf,            \* whose answer is in each part of the buffer
  inbox,          \* what waits in its socket
  printed,        \* its lines
  given,          \* the questions the kernel has answered
  gone,           \* the interface of the route is no longer there
  refused, posts

queries == <<asker, step, next, sockfd, opened, buf, inbox, printed, given, gone, refused, posts>>

Last(p) == CASE p = "checkopts" -> 27 [] p = "buffers" -> 6 [] p = "interface" -> 9
             [] p = "arp" -> Len(Ifaces) [] OTHER -> 1

QueriesInit ==
  /\ asker \in Programs /\ step = "socket" /\ next = 1
  /\ sockfd = "none" /\ opened = [k \in Kinds |-> 0]
  /\ buf = [p \in Parts |-> 0] /\ inbox = <<>> /\ printed = <<>> /\ given = {}
  /\ gone = FALSE /\ refused = 0 /\ posts = 0

MayRefuse == refused < MaxRefused /\ refused' = refused + 1
Line(q, v) == <<[name |-> q, value |-> v]>>
Filled(q, ps) == [p \in Parts |-> IF p \in ps THEN q ELSE buf[p]]
Forward(to) ==
  /\ next' = next + 1 /\ step' = IF next = Last(asker) THEN "done" ELSE to
-----------------------------------------------------------------------------
(* ch7.                                                                    *)

\* One turn of main()'s loop. No case of its switch is for IPv6, since nobody
\* defines IPV6: fd keeps the number of a socket that is closed.
OptSocket ==
  /\ asker = "checkopts" /\ step = "socket"
  /\ \/ /\ SockOpts[next] = "undefined"
        /\ printed' = printed \o Line(next, 0) /\ Forward("socket")
        /\ UNCHANGED <<sockfd, opened, refused>>
     \/ /\ SockOpts[next] \in {"SOCKET", "IP", "TCP"} /\ step' = "ask"
        /\ \/ sockfd' = "tcp" /\ opened' = [opened EXCEPT !.tcp = @ + 1] /\ UNCHANGED refused
           \/ MayRefuse /\ sockfd' = "none" /\ UNCHANGED opened
        /\ UNCHANGED <<next, printed>>
     \/ /\ SockOpts[next] = "IPV6" /\ step' = "ask"
        /\ UNCHANGED <<next, printed, sockfd, opened, refused>>
  /\ UNCHANGED <<asker, buf, inbox, given, gone, posts>>

\* getsockopt(), and the value or the error. A socket knows the options of its
\* own protocols.
OptAsk ==
  /\ asker = "checkopts" /\ step = "ask" /\ step' = "close"
  /\ LET fits == sockfd = "tcp" /\ opened.tcp > 0 /\ SockOpts[next] # "IPV6" IN
       \/ /\ fits /\ given' = given \cup {next} /\ buf' = Filled(next, Parts)
          /\ printed' = printed \o Line(next, buf'["head"]) /\ UNCHANGED refused
       \/ /\ IF fits THEN MayRefuse ELSE UNCHANGED refused
          /\ printed' = printed \o Line(next, 0) /\ UNCHANGED <<given, buf>>
  /\ UNCHANGED <<asker, next, sockfd, opened, inbox, gone, posts>>

Leaked == opened
Hung   == [opened EXCEPT !.tcp = IF sockfd = "tcp" /\ @ > 0 THEN @ - 1 ELSE @]

OptClose ==
  /\ asker = "checkopts" /\ step = "close" /\ opened' = Hung /\ Forward("socket")
  /\ UNCHANGED <<asker, sockfd, buf, inbox, printed, given, gone, refused, posts>>

\* TL_buffer_size.c: three sockets first, any of which may be missing.
BufOpen ==
  /\ asker = "buffers" /\ step = "socket" /\ step' = "ask"
  /\ \E S \in SUBSET {"tcp", "udp", "sctp"} :
       /\ opened' = [k \in Kinds |-> IF k \in S THEN 1 ELSE 0]
       /\ refused' = refused + 3 - Cardinality(S) /\ refused' <= MaxRefused
  /\ UNCHANGED <<asker, next, sockfd, buf, inbox, printed, given, gone, posts>>

\* get_send_buf_size(), get_recv_buf_size(): -1 if refused. The last closes all.
BufAsk ==
  /\ asker = "buffers" /\ step = "ask" /\ Forward("ask")
  /\ \/ /\ opened[BufSockets[next]] = 1 /\ given' = given \cup {next}
        /\ printed' = printed \o Line(next, next) /\ UNCHANGED refused
     \/ /\ IF opened[BufSockets[next]] = 1 THEN MayRefuse ELSE UNCHANGED refused
        /\ printed' = printed \o Line(next, 0) /\ UNCHANGED given
  /\ opened' = IF next = Last(asker) THEN [k \in Kinds |-> 0] ELSE opened
  /\ UNCHANGED <<asker, sockfd, buf, inbox, gone, posts>>
-----------------------------------------------------------------------------
(* socket() of the programs below, which end without it.                   *)

Opens ==
  /\ asker \in {"interface", "arp", "route", "listen", "dump"} /\ step = "socket"
  /\ \/ /\ step' = "ask" /\ sockfd' = "kernel" /\ opened' = [opened EXCEPT !.kernel = 1]
        /\ UNCHANGED refused
     \/ MayRefuse /\ step' = "done" /\ UNCHANGED <<sockfd, opened>>
  /\ UNCHANGED <<asker, next, buf, inbox, printed, given, gone, posts>>

Shut == opened' = IF step' = "done" THEN [opened EXCEPT !.kernel = 0] ELSE opened
-----------------------------------------------------------------------------
(* ch17.                                                                   *)

\* The address is the first answer and the second line: it is printed from the
\* union after the index, whether or not that has been given.
IpLast(q)  == q = Ioctls.NETMASK
IpAfter(q) == q = Ioctls.INDEX
IpLine(q)  == IF IpAfter(q) THEN Line(Ioctls.ADDR, buf'[Field(Ioctls.ADDR)]) ELSE <<>>
OwnLine(q) == IF q = Ioctls.ADDR THEN <<>> ELSE Line(q, buf'[Field(q)])

\* Without an address the program ends, any other refusal is passed over.
IfrAsk ==
  /\ asker = "interface" /\ step = "ask"
  /\ \/ /\ given' = given \cup {next} /\ buf' = Filled(next, Fills(next)) /\ Forward("ask")
        /\ printed' = printed \o OwnLine(next) \o IpLine(next) /\ UNCHANGED refused
     \/ /\ MayRefuse /\ UNCHANGED <<given, buf>>
        /\ IF next = Ioctls.ADDR THEN step' = "done" /\ UNCHANGED next ELSE Forward("ask")
        /\ printed' = printed \o IpLine(next)
  /\ Shut
  /\ UNCHANGED <<asker, sockfd, inbox, gone, posts>>

\* One turn of getARP.c's loop: an interface without an IPv4 address is skipped,
\* the query is cleared, and one that is refused prints an error.
ArpAsk ==
  /\ asker = "arp" /\ step = "ask" /\ Forward("ask")
  /\ \/ /\ Ifaces[next] # "v4" /\ UNCHANGED <<buf, given, printed, refused>>
     \/ /\ Ifaces[next] = "v4" /\ given' = given \cup {next} /\ buf' = Filled(next, Parts)
        /\ printed' = printed \o Line(next, buf'["addr"]) /\ UNCHANGED refused
     \/ /\ Ifaces[next] = "v4" /\ MayRefuse /\ buf' = Filled(0, Parts)
        /\ printed' = printed \o Line(next, 0) /\ UNCHANGED given
  /\ Shut
  /\ UNCHANGED <<asker, sockfd, inbox, gone, posts>>
-----------------------------------------------------------------------------
(* ch18: the kernel answers a request at once, with a route or an error    *)
(* message; send() or recv() fails.                                        *)

RouteAsk ==
  /\ asker = "route" /\ step = "ask"
  /\ \/ step' = "read" /\ \E r \in Routes : inbox' = r /\ UNCHANGED refused
     \/ MayRefuse /\ step' = "done" /\ UNCHANGED inbox
  /\ Shut
  /\ UNCHANGED <<asker, next, sockfd, buf, printed, given, gone, posts>>

RouteGone ==
  /\ asker = "route" /\ ~gone /\ gone' = TRUE
  /\ UNCHANGED <<asker, step, next, sockfd, opened, buf, inbox, printed, given, refused, posts>>

\* One attribute. if_indextoname() fails, unnoticed, if the interface is gone: what
\* is printed as its name was never written.
RouteWalk ==
  /\ asker = "route" /\ step = "read"
  /\ IF next > Len(inbox)
     THEN step' = "done" /\ UNCHANGED <<next, printed, given>>
     ELSE /\ next' = next + 1 /\ UNCHANGED step
          /\ CASE inbox[next] = "DST"         -> UNCHANGED <<printed, given>>
               [] inbox[next] = "OIF" /\ gone -> printed' = printed \o Line(next, -next) /\ UNCHANGED given
               [] OTHER -> printed' = printed \o Line(next, next) /\ given' = given \cup {next}
  /\ Shut
  /\ UNCHANGED <<asker, sockfd, buf, inbox, gone, refused, posts>>
-----------------------------------------------------------------------------
(* ch19. A message has a number, and is this program's own or of others.   *)

Told(own) ==
  LET n == Cardinality(given) IN
  /\ inbox' = inbox \o [i \in DOMAIN own |-> [n |-> n + i, own |-> own[i]]]
  /\ given' = given \cup (n + 1 .. n + Len(own))

\* Others add, change or delete keys.
KeyPost ==
  /\ asker \in {"listen", "dump"} /\ step \in {"ask", "read"}
  /\ posts < MaxPosts /\ posts' = posts + 1 /\ Told(<<FALSE>>)
  /\ UNCHANGED <<asker, step, next, sockfd, opened, buf, printed, gone, refused>>

\* register_socket(), twice, its result not looked at. The kernel confirms it.
KeyRegister ==
  /\ asker = "listen" /\ step = "ask"
  /\ next' = next + 1 /\ step' = IF next = 2 THEN "read" ELSE "ask"
  /\ \/ Told(<<TRUE>>) /\ UNCHANGED refused
     \/ MayRefuse /\ UNCHANGED <<inbox, given>>
  /\ UNCHANGED <<asker, sockfd, opened, buf, printed, gone, posts>>

\* One message for each key, or an error message if there is none.
KeyDump ==
  /\ asker = "dump" /\ step = "ask"
  /\ \/ /\ step' = "read" /\ UNCHANGED refused
        /\ \E k \in Keys : Told([i \in 1 .. IF k = 0 THEN 1 ELSE k |-> TRUE])
     \/ MayRefuse /\ step' = "done" /\ UNCHANGED <<inbox, given>>
  /\ Shut
  /\ UNCHANGED <<asker, next, sockfd, buf, printed, gone, posts>>

\* dump_pfkey.c prints one message after the other, until read() fails.
KeyRead ==
  /\ asker = "listen" /\ step = "read" /\ inbox # <<>>
  /\ \/ /\ printed' = printed \o Line(Head(inbox).n, Head(inbox).n)
        /\ inbox' = Tail(inbox) /\ UNCHANGED <<step, opened, refused>>
     \/ MayRefuse /\ step' = "done" /\ Shut /\ UNCHANGED <<inbox, printed>>
  /\ UNCHANGED <<asker, next, sockfd, buf, given, gone, posts>>

\* key.c prints the first message, and does not look whether it is its own.
KeyReadFirst ==
  /\ asker = "dump" /\ step = "read" /\ inbox # <<>> /\ step' = "done"
  /\ \/ /\ LET m == Head(inbox) IN printed' = printed \o Line(m.n, IF m.own THEN m.n ELSE -m.n)
        /\ inbox' = Tail(inbox) /\ UNCHANGED refused
     \/ MayRefuse /\ UNCHANGED <<inbox, printed>>
  /\ Shut
  /\ UNCHANGED <<asker, next, sockfd, buf, given, gone, posts>>
-----------------------------------------------------------------------------
QueriesNext ==
  \/ OptSocket \/ OptAsk \/ OptClose \/ BufOpen \/ BufAsk
  \/ Opens \/ IfrAsk \/ ArpAsk \/ RouteAsk \/ RouteGone \/ RouteWalk
  \/ KeyPost \/ KeyRegister \/ KeyDump \/ KeyRead \/ KeyReadFirst

QueriesSpec == QueriesInit /\ [][QueriesNext]_queries
-----------------------------------------------------------------------------
\* Every variable has its type; no program that asks in a loop collects sockets,
\* and none is left when it ends.
QueriesTypeOK ==
  /\ asker \in Programs /\ step \in {"socket", "ask", "close", "read", "done"}
  /\ next \in Nat /\ sockfd \in Kinds \cup {"none"} /\ given \subseteq Nat
  /\ buf \in [Parts -> Nat] /\ printed \in Seq([name : Nat, value : Int])
  /\ gone \in BOOLEAN /\ refused \in 0 .. MaxRefused /\ posts \in 0 .. MaxPosts
  /\ opened \in [Kinds -> IF step = "done" THEN {0} ELSE {0, 1}]

\* The value printed under a name is the kernel's answer to that very question,
\* never one an earlier question has left in the buffer; each is printed once, and
\* none that was given is left out, but for the address of an interface until it
\* is printed, and the messages that are not read yet, or, by key.c, ever. There
\* are two exceptions: getrt.c prints a name that was never written for an
\* interface that is gone, and key.c the message about another process's change
\* as the answer to its request.
Unprinted ==
  CASE asker = "interface" /\ next = 2      -> {Ioctls.ADDR}
    [] asker \in {"listen", "dump"}         -> {inbox[i].n : i \in DOMAIN inbox}
    [] OTHER                                -> {}
Unwritten(l) == asker = "route" /\ gone /\ l.value = -l.name
Foreign(l)   == asker = "dump" /\ posts > 0 /\ l.value = -l.name
Truthful ==
  /\ \A i \in DOMAIN printed :
       \/ printed[i].value \in {0, printed[i].name}
       \/ Unwritten(printed[i]) \/ Foreign(printed[i])
  /\ \A i, j \in DOMAIN printed : i # j => printed[i].name # printed[j].name
  /\ given = Unprinted \cup
       {printed[i].name : i \in {j \in DOMAIN printed :
                                  printed[j].value = printed[j].name \/ Foreign(printed[j])}}

\* What key.c says, which the code does not keep to: it asks for all the keys
\* ("Dump all protocol SAs"), so when it ends, and no call has failed, it has
\* taken every message of the dump.
DumpsAll ==
  asker = "dump" /\ step = "done" /\ refused = 0 =>
    \A i \in DOMAIN inbox : ~inbox[i].own
=============================================================================
