------------------------------- MODULE Daytime -------------------------------
(***************************************************************************)
(* The daytime service over TCP. Server: ch11/daytime_tcp_server.c, or     *)
(* ch13/daytime_tcp_server_v2.c that first runs lib/daemon_init.c; both    *)
(* walk a list of local addresses in lib/tcp_listen.c. Clients:            *)
(* ch11/daytime_tcp_client.c with a loop of its own over the server's      *)
(* addresses, daytime_tcp_client_v2.c with lib/tcp_connect.c.              *)
(*                                                                         *)
(* The server's descriptors have their numbers, since the kernel gives out *)
(* the lowest free one; an address of the list is its position. The time   *)
(* is a few bytes, which are counted.                                      *)
(*                                                                         *)
(* OneMore, Unclosed, StopEarly, KeepsRefused and StopsAtOne are wrong     *)
(* variants of the operator that follows each, to see that the properties  *)
(* notice them.                                                            *)
(***************************************************************************)
EXTENDS Naturals, Sequences, FiniteSetsExt

CONSTANTS
  Clients,
  OwnLoop,    \* the clients that are daytime_tcp_client.c
  Locals,     \* the server's list of local addresses
  Remotes,    \* Remotes[c]: the addresses client c has for the server
  Covers,     \* Covers[a]: the addresses a socket bound to local address a serves
  None,
  Text,       \* bytes of the time
  MaxErrors   \* bound: how many system calls fail

ASSUME DaytimeAssumption ==
  /\ OwnLoop \subseteq Clients /\ Clients \cap {None, "none", "tty", "null", "socket"} = {}
  /\ Locals \in Seq(DOMAIN Covers) /\ Locals # <<>>
  /\ \A c \in Clients : Len(Remotes[c]) \in Nat \ {0} /\ DOMAIN Remotes[c] = 1 .. Len(Remotes[c])
  /\ Text \in Nat \ {0} /\ MaxErrors \in Nat

VARIABLES
  daemon,     \* the server is daytime_tcp_server_v2.c
  missed,     \* how many open("/dev/null") of daemon_init() have failed
  spc,        \* where the server is
  fd,         \* its descriptors: "none", "tty", "null", "socket" or a client
  res,        \* where tcp_listen() is in Locals
  listenfd, connfd,
  bound, listening,   \* what the kernel knows of listenfd
  queue,      \* completed connections that wait for accept()
  cpc,        \* where each client is
  at,         \* where it is in Remotes[c]
  open,       \* how many sockets it has open
  conn,       \* its connection: "none", "open", "fin" or "reset"
  wire, shown,  \* bytes of the time it has yet to read, and has shown
  garbled,    \* the clients that have shown something that is not the time
  errors

listen == <<res, listenfd, bound, listening>>
server == <<daemon, missed, spc, fd, listen, connfd>>
client == <<cpc, at, open, shown, garbled>>
vars   == <<server, queue, client, conn, wire, errors>>

Fds == 0 .. 5
NoFd == 6                                  \* -1
Lowest(f) == Min({n \in Fds : f[n] = "none"})

Fail == errors < MaxErrors /\ errors' = errors + 1

Init ==
  /\ daemon \in BOOLEAN /\ missed = 0
  /\ spc = IF daemon THEN "fork" ELSE "resolve"
  /\ fd = [n \in Fds |-> IF n < 3 THEN "tty" ELSE "none"]
  /\ res = 1 /\ listenfd = NoFd /\ connfd = NoFd
  /\ bound = None /\ listening = FALSE /\ queue = <<>>
  /\ cpc = [c \in Clients |-> "out"] /\ at = [c \in Clients |-> 1]
  /\ open = [c \in Clients |-> 0]
  /\ conn = [c \in Clients |-> "none"]
  /\ wire = [c \in Clients |-> 0] /\ shown = [c \in Clients |-> 0]
  /\ garbled = {}
  /\ errors = 0
-----------------------------------------------------------------------------
(* daemon_init(). The process that goes on after a fork() is the child; if *)
(* fork() fails daemon_init returns -1, at which main does not look.       *)

Fork(from, to) ==
  /\ spc = from
  /\ \/ spc' = to /\ UNCHANGED errors
     \/ spc' = "resolve" /\ Fail
  /\ UNCHANGED <<daemon, missed, fd, listen, connfd, queue, client, conn, wire>>

CloseAll ==
  /\ spc = "closeall" /\ spc' = "null1"
  /\ fd' = [n \in Fds |-> "none"]
  /\ UNCHANGED <<daemon, missed, listen, connfd, queue, client, conn, wire, errors>>

\* The three open("/dev/null"), at whose results daemon_init() does not look.
OpenNext(from) ==
  CASE from = "null1" -> "null2" [] from = "null2" -> "null3" [] from = "null3" -> "resolve"

OpenNull ==
  /\ spc \in {"null1", "null2", "null3"} /\ spc' = OpenNext(spc)
  /\ \/ fd' = [fd EXCEPT ![Lowest(fd)] = "null"] /\ UNCHANGED <<missed, errors>>
     \/ Fail /\ missed' = missed + 1 /\ UNCHANGED fd
  /\ UNCHANGED <<daemon, listen, connfd, queue, client, conn, wire>>
-----------------------------------------------------------------------------
(* tcp_listen().                                                           *)

\* What a process that ends leaves to its clients: FIN, or a reset for those
\* it has not accepted.
Ended ==
  /\ spc' = "exited" /\ fd' = [n \in Fds |-> "none"]
  /\ bound' = None /\ listening' = FALSE /\ queue' = <<>>
  /\ conn' = [c \in Clients |->
       CASE \E k \in DOMAIN queue : queue[k] = c -> "reset"
         [] \E n \in Fds : fd[n] = c -> "fin"
         [] OTHER -> conn[c]]

\* getaddrinfo()
Resolve ==
  /\ spc = "resolve"
  /\ \/ spc' = "socket" /\ UNCHANGED <<fd, bound, listening, queue, conn, errors>>
     \/ Ended /\ Fail
  /\ UNCHANGED <<daemon, missed, res, listenfd, connfd, client, wire>>

\* Without another address: err_sys(). A descriptor set f is left to the next.
OneMore    == res <= Len(Locals)
MoreLocals == res < Len(Locals)

NextLocal(f) ==
  \/ /\ MoreLocals
     /\ spc' = "socket" /\ res' = res + 1 /\ fd' = f
     /\ UNCHANGED <<bound, listening, queue, conn>>
  \/ ~MoreLocals /\ Ended /\ UNCHANGED res

ClosedFd(n) == [k \in Fds |-> IF k = n THEN "none" ELSE fd[k]]

Socket ==
  /\ spc = "socket"
  /\ \/ /\ fd' = [fd EXCEPT ![Lowest(fd)] = "socket"]
        /\ listenfd' = Lowest(fd) /\ spc' = "bind"
        /\ UNCHANGED <<res, bound, listening, queue, conn, errors>>
     \/ Fail /\ listenfd' = NoFd /\ NextLocal(fd)
  /\ UNCHANGED <<daemon, missed, connfd, client, wire>>

Bind ==
  /\ spc = "bind"
  /\ \/ /\ bound' = Locals[res] /\ spc' = "listen"
        /\ UNCHANGED <<fd, res, listening, queue, conn, errors>>
     \/ Fail /\ NextLocal(ClosedFd(listenfd))
  /\ UNCHANGED <<daemon, missed, listenfd, connfd, client, wire>>

\* tcp_listen() does not look at the result, and two servers that have bound
\* the same address, SO_REUSEADDR set, cannot both listen.
Listen ==
  /\ spc = "listen" /\ spc' = "accept"
  /\ \/ listening' = TRUE /\ UNCHANGED errors
     \/ Fail /\ UNCHANGED listening
  /\ UNCHANGED <<daemon, missed, fd, res, listenfd, bound, connfd, queue, client, conn, wire>>
-----------------------------------------------------------------------------
(* The server's loop.                                                      *)

Accept ==
  /\ spc = "accept" /\ queue # <<>>
  /\ connfd' = Lowest(fd)
  /\ fd' = [fd EXCEPT ![Lowest(fd)] = Head(queue)] /\ queue' = Tail(queue)
  /\ spc' = "write"
  /\ UNCHANGED <<daemon, missed, listen, client, conn, wire, errors>>

\* Nobody listens: accept() fails at once, and the loop spins.
AcceptInvalid ==
  /\ spc = "accept" /\ ~listening
  /\ connfd' = NoFd /\ spc' = "write"
  /\ UNCHANGED <<daemon, missed, fd, listen, queue, client, conn, wire, errors>>

\* Not checked: write() and close() of -1 fail.
AcceptFails ==
  /\ spc = "accept" /\ Fail
  /\ connfd' = NoFd /\ spc' = "write"
  /\ UNCHANGED <<daemon, missed, fd, listen, queue, client, conn, wire>>

\* The one write() of a connection; to a client that has gone it has no effect.
\* If the connection is the server's stdout, what printf() has buffered may go
\* before the time.
Taker == {c \in Clients : connfd # NoFd /\ fd[connfd] = c /\ cpc[c] = "read"}
Write ==
  /\ spc = "write" /\ spc' = "close"
  /\ wire' = [c \in Clients |-> IF c \in Taker THEN wire[c] + Text ELSE wire[c]]
  /\ garbled' \in {garbled, IF connfd = 1 THEN garbled \cup Taker ELSE garbled}
  /\ UNCHANGED <<daemon, missed, fd, listen, connfd, queue, cpc, at, open, shown, conn, errors>>

Unclosed == fd
Closed   == ClosedFd(connfd)

Close ==
  /\ spc = "close" /\ spc' = "accept"
  /\ fd' = Closed
  /\ conn' = [c \in Clients |->
       IF (\E n \in Fds : fd[n] = c) /\ (\A n \in Fds : Closed[n] # c) THEN "fin" ELSE conn[c]]
  /\ UNCHANGED <<daemon, missed, listen, connfd, queue, client, wire, errors>>

\* Somebody kills the server.
Die ==
  /\ spc # "exited" /\ Ended
  /\ UNCHANGED <<daemon, missed, res, listenfd, connfd, client, wire, errors>>
-----------------------------------------------------------------------------
(* The clients.                                                            *)

Serves(a) == listening /\ bound # None /\ a \in Covers[bound]

\* getaddrinfo(), gethostbyname() and getservbyname()
Start(c) ==
  /\ cpc[c] = "out"
  /\ \/ cpc' = [cpc EXCEPT ![c] = "try"] /\ UNCHANGED errors
     \/ cpc' = [cpc EXCEPT ![c] = "failed"] /\ Fail
  /\ UNCHANGED <<server, queue, at, open, shown, garbled, conn, wire>>

Connected(c) ==
  /\ Serves(Remotes[c][at[c]])
  /\ open' = [open EXCEPT ![c] = @ + 1]
  /\ conn' = [conn EXCEPT ![c] = "open"] /\ queue' = Append(queue, c)
  /\ cpc' = [cpc EXCEPT ![c] = "read"]
  /\ UNCHANGED <<errors, at>>

\* The loop goes on to the next address, or the client exits after the last.
StopEarly(c) == at[c] + 1 >= Len(Remotes[c])
NoMore(c)    == at[c] = Len(Remotes[c])

NextRemote(c) ==
  /\ at' = [at EXCEPT ![c] = @ + 1]
  /\ cpc' = [cpc EXCEPT ![c] = IF NoMore(c) THEN "failed" ELSE "try"]
  /\ UNCHANGED <<conn, queue>>

\* What is open after close() of a socket that connect() has refused.
KeepsRefused(c)  == open[c] + 1
ClosesRefused(c) == open[c]

Refused(c) ==
  /\ ~Serves(Remotes[c][at[c]])
  /\ open' = [open EXCEPT ![c] = IF NoMore(c) THEN 0 ELSE ClosesRefused(c)]
  /\ NextRemote(c) /\ UNCHANGED errors

NoSocket(c) == Fail /\ NextRemote(c) /\ UNCHANGED open

\* daytime_tcp_client.c goes on with the -1 of socket(): connect() and close()
\* of it fail. tcp_connect() skips them.
TryOwn(c) ==
  /\ c \in OwnLoop /\ cpc[c] = "try"
  /\ Connected(c) \/ Refused(c) \/ NoSocket(c)
  /\ UNCHANGED <<server, shown, garbled, wire>>

TryLib(c) ==
  /\ c \notin OwnLoop /\ cpc[c] = "try"
  /\ Connected(c) \/ Refused(c) \/ NoSocket(c)
  /\ UNCHANGED <<server, shown, garbled, wire>>

\* Whether the loop of read() goes on after n bytes.
StopsAtOne(n) == "done"
GoesOn(n)     == "read"

Read(c) ==
  /\ cpc[c] = "read" /\ wire[c] > 0
  /\ \E n \in 1 .. wire[c] :
       /\ wire' = [wire EXCEPT ![c] = @ - n] /\ shown' = [shown EXCEPT ![c] = @ + n]
       /\ cpc' = [cpc EXCEPT ![c] = GoesOn(n)]
  /\ UNCHANGED <<server, queue, at, open, garbled, conn, errors>>

Left(c, how) ==
  /\ cpc' = [cpc EXCEPT ![c] = how] /\ open' = [open EXCEPT ![c] = 0]

ReadEof(c) ==
  /\ cpc[c] = "read" /\ wire[c] = 0 /\ conn[c] = "fin"
  /\ Left(c, "done")
  /\ UNCHANGED <<server, queue, at, shown, garbled, conn, wire, errors>>

\* daytime_tcp_client_v2.c keeps read()'s -1 in an unsigned n: "buf[n] = 0" is
\* undefined. If it does not end the program, fputs() shows what the buffer
\* happens to hold, and read() is called again.
ReadError(c) ==
  /\ cpc[c] = "read" /\ wire[c] = 0 /\ conn[c] = "reset"
  /\ \/ c \in OwnLoop /\ Left(c, "done") /\ UNCHANGED <<conn, garbled>>
     \/ c \notin OwnLoop /\ Left(c, "crashed") /\ UNCHANGED <<conn, garbled>>
     \/ /\ c \notin OwnLoop /\ conn' = [conn EXCEPT ![c] = "fin"]
        /\ garbled' = garbled \cup {c} /\ UNCHANGED <<cpc, open>>
  /\ UNCHANGED <<server, queue, at, shown, wire, errors>>

\* Its user ends a client.
Kill(c) ==
  /\ cpc[c] \in {"try", "read"} /\ Left(c, "killed")
  /\ UNCHANGED <<server, queue, at, shown, garbled, conn, wire, errors>>
-----------------------------------------------------------------------------
Setup ==
  \/ Fork("fork", "fork2") \/ Fork("fork2", "closeall") \/ CloseAll \/ OpenNull
  \/ Resolve \/ Socket \/ Bind \/ Listen
Loop == Accept \/ AcceptInvalid \/ Write \/ Close
Reading(c) == Read(c) \/ ReadEof(c) \/ ReadError(c)
Trying(c) == TryOwn(c) \/ TryLib(c)

Next ==
  \/ Setup \/ Loop \/ AcceptFails \/ Die
  \/ \E c \in Clients : Start(c) \/ Trying(c) \/ Reading(c) \/ Kill(c)

Spec == Init /\ [][Next]_vars

\* The server, once started, and the clients run.
FairSpec ==
  /\ Spec /\ WF_vars(Setup) /\ WF_vars(Loop)
  /\ \A c \in Clients : WF_vars(Trying(c)) /\ WF_vars(Reading(c))
-----------------------------------------------------------------------------
\* Every variable has its type; the loops stay inside their lists.
TypeOK ==
  /\ daemon \in BOOLEAN /\ missed \in 0 .. 3
  /\ spc \in {"fork", "fork2", "closeall", "null1", "null2", "null3", "resolve", "socket",
             "bind", "listen", "accept", "write", "close", "exited"}
  /\ fd \in [Fds -> {"none", "tty", "null", "socket"} \cup Clients]
  /\ res \in DOMAIN Locals /\ listenfd \in Fds \cup {NoFd} /\ connfd \in Fds \cup {NoFd}
  /\ bound \in DOMAIN Covers \cup {None} /\ listening \in BOOLEAN /\ queue \in Seq(Clients)
  /\ cpc \in [Clients -> {"out", "try", "read", "done", "failed", "crashed", "killed"}]
  /\ \A c \in Clients : at[c] \in 1 .. Len(Remotes[c]) + 1
  /\ open \in [Clients -> Nat] /\ conn \in [Clients -> {"none", "open", "fin", "reset"}]
  /\ wire \in [Clients -> 0 .. Text] /\ shown \in [Clients -> 0 .. Text]
  /\ garbled \subseteq Clients /\ errors \in 0 .. MaxErrors

\* No attempt that failed leaves a descriptor behind, in tcp_listen(), in
\* tcp_connect() or in the client's own loop, and no connection outlives its
\* turn in the server's: a server that runs for ever has at most one. The sockets
\* come after 0 to 2, but daemon_init() has closed these: each open("/dev/null")
\* that failed moves the sockets down by one, and only by one. So printf() in the
\* server's loop writes into a connection only if all three have failed, and to
\* the listening socket, which may end the server, only if two have.
FdsExact ==
  /\ {n \in Fds : fd[n] = "socket"} =
       IF spc \in {"bind", "listen", "accept", "write", "close"} THEN {listenfd} ELSE {}
  /\ {n \in Fds : fd[n] \in Clients} =
       IF spc \in {"write", "close"} /\ connfd # NoFd THEN {connfd} ELSE {}
  /\ \A c \in Clients : open[c] = IF cpc[c] = "read" THEN 1 ELSE 0
  /\ \A n \in Fds : n + missed < 3 => fd[n] \in {"none", "tty", "null"}

\* The time is shown whole, however read() splits it, or not at all; a client
\* that ends without it has lost the server. Nothing else is shown, unless the
\* server has ended, or has its connections where stdout should be.
TimeWhole(c) ==
  /\ shown[c] + wire[c] \in {0, Text}
  /\ cpc[c] = "done" => shown[c] = Text \/ spc = "exited"
  /\ c \in garbled => spc = "exited" \/ missed = 3

\* A client that starts when the server listens on one of its addresses does not
\* give up, unless the server ends or another system call fails: neither loop
\* passes over the address, or stops before it.
Reachable(c) == \E k \in DOMAIN Remotes[c] : Serves(Remotes[c][k])
NonePassedOver ==
  \A c \in Clients, e \in 0 .. MaxErrors :
    [](cpc[c] = "out" /\ Reachable(c) /\ errors = e =>
         [](cpc[c] = "failed" => spc = "exited" \/ errors > e))

\* Every client that has started ends: the server takes one after the other, and
\* a server that dies lets them go.
ClientEnds(c) == cpc[c] \in {"try", "read"} ~> cpc[c] \notin {"try", "read"}

\* A client that has started comes to its end, and then it has shown the time.
TimeShown == \A c \in Clients : []TimeWhole(c) /\ ClientEnds(c)
=============================================================================
