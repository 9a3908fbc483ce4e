---------------------------- MODULE DaytimeProofs ----------------------------
(* Proofs about Daytime, for any clients, lists of addresses and failures, and *)
(* about Queries, for any interfaces, routes and keys.                         *)
EXTENDS Daytime, Queries, SequenceTheorems, FiniteSetTheorems, WellFoundedInduction, TLAPS

(***************************************************************************)
(* The inductive invariant. Which descriptors are open is known wherever   *)
(* the server is, so that the lowest free one is known too (Descriptors):  *)
(* those below Floor are terminals or /dev/null, Floor is the listening    *)
(* socket and the next one the connection. A client is in the queue or     *)
(* holds the connection, once, and is written to after it has been in the  *)
(* queue (Waiting). Hence the one write() of a connection is the first     *)
(* (Timely).                                                               *)
(***************************************************************************)

SocketPcs  == {"bind", "listen", "accept", "write", "close"}
Connection == spc \in {"write", "close"} /\ connfd # NoFd

\* How many descriptors there are before the sockets.
Floor ==
  CASE spc = "null1" -> 0 [] spc = "null2" -> 1 - missed [] spc = "null3" -> 2 - missed
    [] OTHER -> 3 - missed

Holds(n) ==
  /\ n < Floor => fd[n] \in {"tty", "null"}
  /\ n = Floor => fd[n] = IF spc \in SocketPcs THEN "socket" ELSE "none"
  /\ n = Floor + 1 => IF Connection THEN fd[n] \in Clients ELSE fd[n] = "none"
  /\ n > Floor + 1 => fd[n] = "none"

Descriptors ==
  /\ Floor \in 0 .. 3 /\ (spc \in {"fork", "fork2", "closeall", "null1"} => missed = 0)
  /\ IF spc = "exited" THEN \A n \in Fds : fd[n] = "none" ELSE \A n \in Fds : Holds(n)
  /\ (spc \in SocketPcs => listenfd = Floor) /\ (Connection => connfd = Floor + 1)

\* The client that holds the connection.
Served == IF Connection THEN fd[connfd] ELSE "none"

\* A client is in its list while it tries, and has a socket while it reads.
Opened ==
  \A c \in Clients :
    /\ open[c] = IF cpc[c] = "read" THEN 1 ELSE 0
    /\ cpc[c] = "out" => at[c] = 1
    /\ cpc[c] = "try" => at[c] \in 1 .. Len(Remotes[c])

\* The client holds a connection that has not been written to.
Unserved(c) == (\E k \in 1 .. Len(queue) : queue[k] = c) \/ (spc = "write" /\ Served = c)
Before(c)   == cpc[c] \in {"out", "try", "failed"}

Waiting ==
  /\ \A j, k \in 1 .. Len(queue) : queue[j] = queue[k] => j = k
  /\ \A k \in 1 .. Len(queue) : Served # queue[k] /\ conn[queue[k]] = "open"
  /\ spc = "exited" => queue = <<>>
  /\ \A c \in Clients :
       Before(c) => conn[c] = "none" /\ Served # c /\ \A k \in 1 .. Len(queue) : queue[k] # c

Timely ==
  /\ \A c \in Clients :
       /\ Unserved(c) \/ Before(c) => shown[c] = 0 /\ wire[c] = 0
       /\ shown[c] + wire[c] \in {0, Text}
       /\ spc = "close" /\ Served = c /\ cpc[c] = "read" => shown[c] + wire[c] = Text
       /\ Served = c => conn[c] = "open"
       /\ conn[c] = "fin" /\ cpc[c] = "read" => shown[c] + wire[c] = Text \/ spc = "exited"
       /\ conn[c] = "reset" => spc = "exited"
       /\ cpc[c] = "done" => shown[c] = Text \/ spc = "exited"
       /\ c \in garbled => spc = "exited" \/ missed = 3

\* Where listen() has been called.
Heard == listening => spc \in {"accept", "write", "close"}

Types == TypeOK /\ at \in [Clients -> Nat]
IInv  == Types /\ Descriptors /\ Opened /\ Waiting /\ Timely /\ Heard

-----------------------------------------------------------------------------
(* The lowest free descriptor.                                             *)

\* Min is what its name says.
LEMMA Least ==
  ASSUME NEW S \in SUBSET Nat, S # {}
  PROVE  Min(S) \in S /\ \A x \in S : Min(S) <= x
<1>. DEFINE R == {ss \in Nat \X Nat : ss[1] < ss[2]}
<1>1. OpToRel(<, Nat) = R
  BY DEF OpToRel
<1>2. IsWellFoundedOn(R, Nat)
  BY NatLessThanWellFounded, <1>1
<1>3. PICK x \in S : \A y \in S : ~ (<<y, x>> \in R)
  BY <1>2, WFMin
<1>4. ASSUME NEW y \in S PROVE x <= y
  <2>1. x \in Nat /\ y \in Nat /\ <<y, x>> \notin R
    BY <1>3
  <2>. QED  BY <2>1
<1>. QED  BY <1>4 DEF Min

\* A free descriptor below which none is free is the lowest.
LEMMA LowestIs ==
  ASSUME NEW m \in Fds, fd[m] = "none", \A n \in Fds : n < m => fd[n] # "none"
  PROVE  Lowest(fd) = m
<1>. DEFINE S == {n \in Fds : fd[n] = "none"}
<1>1. S \in SUBSET Nat /\ m \in S
  BY DEF Fds
<1>2. Min(S) \in S /\ \A x \in S : Min(S) <= x
  BY <1>1, Least
<1>3. Min(S) \in Nat /\ Min(S) <= m /\ ~(Min(S) < m)
  BY <1>1, <1>2
<1>. QED  BY <1>1, <1>3 DEF Lowest

\* In the places where the server takes a descriptor.
LEMMA LowestFree ==
  ASSUME Types, Descriptors
  PROVE  /\ spc \notin SocketPcs \cup {"exited"} => Lowest(fd) = Floor /\ Floor \in Fds
         /\ spc = "accept" => Lowest(fd) = Floor + 1 /\ Floor + 1 \in Fds
<1>1. Floor \in 0 .. 3 /\ Floor \in Fds /\ Floor + 1 \in Fds
  BY DEF Descriptors, Fds
<1>2. ASSUME spc \notin SocketPcs \cup {"exited"} PROVE Lowest(fd) = Floor
  <2>1. \A n \in Fds : Holds(n)
    BY <1>2 DEF Descriptors
  <2>2. fd[Floor] = "none" /\ \A n \in Fds : n < Floor => fd[n] # "none"
    BY <1>1, <1>2, <2>1 DEF Holds
  <2>. QED  BY <1>1, <2>2, LowestIs
<1>3. ASSUME spc = "accept" PROVE Lowest(fd) = Floor + 1
  <2>1. (\A n \in Fds : Holds(n)) /\ spc \in SocketPcs /\ ~Connection
    BY <1>3 DEF Descriptors, SocketPcs, Connection
  <2>2. fd[Floor + 1] = "none"
    BY <1>1, <2>1 DEF Holds
  <2>3. ASSUME NEW n \in Fds, n < Floor + 1 PROVE fd[n] # "none"
    <3>1. n < Floor \/ n = Floor
      BY <1>1, <2>3 DEF Fds
    <3>. QED  BY <2>1, <3>1 DEF Holds
  <2>. QED  BY <1>1, <2>2, <2>3, LowestIs
<1>. QED  BY <1>1, <1>2, <1>3

\* Only the connection is a client's.
LEMMA OnlyServed ==
  ASSUME Types, Descriptors, NEW c \in Clients
  PROVE  /\ (\E n \in Fds : fd[n] = c) <=> Served = c
         /\ \A n \in Fds : fd[n] = c => Connection /\ n = connfd
         /\ Connection => connfd \in Fds
<1>. USE DaytimeAssumption
<1>1. Floor \in 0 .. 3 /\ c \notin {"none", "tty", "null", "socket"}
  BY DEF Descriptors
<1>2. Connection => connfd = Floor + 1 /\ connfd \in Fds
  BY <1>1 DEF Descriptors, Fds
<1>3. ASSUME NEW n \in Fds, fd[n] = c PROVE Connection /\ n = connfd
  <2>1. spc # "exited" /\ Holds(n)
    BY <1>1, <1>3 DEF Descriptors
  <2>2. n < Floor \/ n = Floor \/ n = Floor + 1 \/ n > Floor + 1
    BY <1>1 DEF Fds
  <2>3. n = Floor + 1 /\ Connection
    BY <1>1, <1>3, <2>1, <2>2 DEF Holds
  <2>. QED  BY <1>2, <2>3
<1>. QED  BY <1>1, <1>2, <1>3 DEF Served

-----------------------------------------------------------------------------
(* The server before it has a connection.                                  *)

\* A step that opens and closes nothing.
LEMMA DescriptorsKept ==
  ASSUME Descriptors, UNCHANGED <<missed, fd, listenfd>>, Floor' = Floor,
         spc = "exited" <=> spc' = "exited", spc \in SocketPcs <=> spc' \in SocketPcs,
         Connection <=> Connection', Connection => connfd' = connfd,
         spc' \in {"fork", "fork2", "closeall", "null1"} => missed = 0
  PROVE  Descriptors'
<1>1. ASSUME spc # "exited", NEW n \in Fds PROVE Holds(n)'
  BY <1>1 DEF Descriptors, Holds
<1>. QED  BY <1>1 DEF Descriptors

\* What the clients see does not change while the server is set up.
LEMMA ClientsUnmoved ==
  ASSUME Waiting, Timely, Opened, UNCHANGED <<queue, client, conn, wire>>, missed' = missed \/ missed # 3,
         spc \notin {"write", "close", "exited"}, spc' \notin {"write", "close", "exited"}
  PROVE  Waiting' /\ Timely' /\ Opened'
<1>1. Served = "none" /\ Served' = "none"
  BY DEF Served, Connection
<1>. QED  BY <1>1 DEF Waiting, Timely, Opened, Unserved, Before, client

\* A server that ends lets all its clients go.
LEMMA EndedStep ==
  ASSUME IInv, Ended, spc # "exited", UNCHANGED <<daemon, missed, connfd, client, wire>>,
         res' \in DOMAIN Locals, listenfd' \in Fds \cup {NoFd}, errors' \in 0 .. MaxErrors
  PROVE  IInv'
<1>. USE DaytimeAssumption
<1>1. /\ spc' = "exited" /\ fd' = [n \in Fds |-> "none"] /\ bound' = None /\ listening' = FALSE
      /\ queue' = <<>>
      /\ conn' = [c \in Clients |->
           CASE \E k \in DOMAIN queue : queue[k] = c -> "reset"
             [] \E n \in Fds : fd[n] = c -> "fin"
             [] OTHER -> conn[c]]
  BY DEF Ended
<1>2. Types'
  <2>1. conn' \in [Clients -> {"none", "open", "fin", "reset"}]
    BY <1>1 DEF IInv, Types, TypeOK
  <2>2. queue' \in Seq(Clients)
    BY <1>1, EmptySeq
  <2>. QED  BY <1>1, <2>1, <2>2 DEF IInv, Types, TypeOK, client
<1>3. Descriptors'
  <2>1. Floor' = 3 - missed /\ missed \in 0 .. 3
    BY <1>1 DEF Floor, IInv, Types, TypeOK
  <2>2. Floor' \in 0 .. 3
    BY <2>1
  <2>. QED  BY <1>1, <2>2 DEF Descriptors, SocketPcs, Connection
<1>4. Opened' /\ Heard'
  BY <1>1 DEF IInv, Opened, Heard, client
<1>5. Served' = "none" /\ Len(queue') = 0
  BY <1>1, EmptySeq DEF Served, Connection
<1>6. Waiting'
  <2>1. ASSUME NEW c \in Clients, Before(c)'
        PROVE  conn'[c] = "none"
    <3>1. Before(c)
      BY <2>1 DEF Before, client
    <3>2. DOMAIN queue = 1 .. Len(queue)
      BY LenProperties DEF IInv, Types, TypeOK
    <3>3. \A k \in DOMAIN queue : queue[k] # c
      BY <3>1, <3>2 DEF IInv, Waiting
    <3>4. \A n \in Fds : fd[n] # c
      BY <3>1, OnlyServed DEF IInv, Waiting
    <3>. QED  BY <1>1, <3>1, <3>3, <3>4 DEF IInv, Waiting
  <2>. QED  BY <1>1, <1>5, <2>1 DEF Waiting
<1>7. Timely'
  <2>1. \A c \in Clients : ~Unserved(c)' /\ Served' # c
    BY <1>1, <1>5 DEF Unserved
  <2>. QED  BY <1>1, <2>1 DEF IInv, Timely, Before, client
<1>. QED  BY <1>2, <1>3, <1>4, <1>6, <1>7 DEF IInv

\* tcp_listen() goes on to the next address, or ends the server.
LEMMA NextLocalStep ==
  ASSUME IInv, NEW f, spc \in {"socket", "bind"}, NextLocal(f), Fail,
         f \in [Fds -> {"none", "tty", "null", "socket"} \cup Clients],
         \A n \in Fds : f[n] = IF n = Floor THEN "none" ELSE fd[n],
         UNCHANGED <<daemon, missed, connfd, client, wire>>, listenfd' \in Fds \cup {NoFd}
  PROVE  IInv'
<1>. USE DaytimeAssumption
<1>1. errors' \in 0 .. MaxErrors /\ DOMAIN Locals = 1 .. Len(Locals) /\ Len(Locals) \in Nat
  BY LenProperties DEF Fail, IInv, Types, TypeOK
<1>2. CASE ~MoreLocals /\ Ended /\ UNCHANGED res
  <2>1. res' \in DOMAIN Locals
    BY <1>2 DEF IInv, Types, TypeOK
  <2>. QED  BY <1>1, <1>2, <2>1, EndedStep
<1>3. CASE /\ MoreLocals /\ spc' = "socket" /\ res' = res + 1 /\ fd' = f
           /\ UNCHANGED <<bound, listening, queue, conn>>
  <2>1. res' \in DOMAIN Locals
    BY <1>1, <1>3 DEF MoreLocals, IInv, Types, TypeOK
  <2>2. Types'
    BY <1>1, <1>3, <2>1 DEF IInv, Types, TypeOK, client
  <2>3. Descriptors'
    <3>1. /\ Floor \in 0 .. 3 /\ Floor' = Floor /\ ~Connection /\ ~Connection'
          /\ spc' \notin SocketPcs /\ spc' # "exited" /\ spc' \notin {"fork", "fork2", "closeall", "null1"}
      BY <1>3 DEF IInv, Descriptors, Floor, Connection, SocketPcs
    <3>2. ASSUME NEW n \in Fds PROVE Holds(n)'
      <4>1. Holds(n) /\ fd'[n] = IF n = Floor THEN "none" ELSE fd[n]
        BY <1>3 DEF IInv, Descriptors
      <4>2. n \in Nat /\ Floor \in Nat
        BY <3>1 DEF Fds
      <4>. QED  BY <3>1, <4>1, <4>2 DEF Holds
    <3>. QED  BY <3>1, <3>2 DEF Descriptors
  <2>5. Waiting' /\ Timely' /\ Opened'
    BY <1>3, ClientsUnmoved DEF IInv
  <2>6. Heard'
    BY <1>3 DEF IInv, Heard
  <2>. QED  BY <2>2, <2>3, <2>5, <2>6 DEF IInv
<1>. QED  BY <1>2, <1>3 DEF NextLocal

\* daemon_init() and tcp_listen().
LEMMA SetupStep ==
  ASSUME IInv, Setup
  PROVE  IInv'
<1>. USE DaytimeAssumption
<1>1. Types /\ Descriptors /\ Opened /\ Waiting /\ Timely /\ Heard
  BY DEF IInv
<1>2. ASSUME Fail PROVE errors' \in 0 .. MaxErrors
  BY <1>1, <1>2 DEF Fail, Types, TypeOK
<1>3. ASSUME NEW from \in {"fork", "fork2"}, NEW to \in {"fork2", "closeall"}, Fork(from, to)
      PROVE  IInv'
  <2>1. /\ spc \in {"fork", "fork2"} /\ spc' \in {"fork2", "closeall", "resolve"}
        /\ UNCHANGED <<daemon, missed, fd, listen, connfd, queue, client, conn, wire>>
        /\ errors' \in 0 .. MaxErrors
    BY <1>1, <1>2, <1>3 DEF Fork, Types, TypeOK
  <2>2. Types' /\ Heard'
    BY <1>1, <2>1 DEF Types, TypeOK, Heard, listen, client
  <2>3. Descriptors'
    <3>1. /\ Floor' = Floor /\ ~Connection /\ ~Connection' /\ missed' = 0 /\ spc # "exited"
          /\ spc \notin SocketPcs /\ spc' \notin SocketPcs
      BY <1>1, <2>1 DEF Descriptors, Floor, Connection, SocketPcs
    <3>. QED  BY <1>1, <2>1, <3>1, DescriptorsKept DEF listen
  <2>4. Waiting' /\ Timely' /\ Opened'
    BY <1>1, <2>1, ClientsUnmoved
  <2>. QED  BY <2>2, <2>3, <2>4 DEF IInv
<1>4. CASE CloseAll
  <2>1. /\ spc = "closeall" /\ spc' = "null1" /\ fd' = [n \in Fds |-> "none"]
        /\ UNCHANGED <<daemon, missed, listen, connfd, queue, client, conn, wire, errors>>
    BY <1>4 DEF CloseAll
  <2>2. Types' /\ Heard'
    BY <1>1, <2>1 DEF Types, TypeOK, Heard, listen, client
  <2>3. Descriptors'
    <3>1. Floor' = 0 /\ ~Connection' /\ missed' = 0 /\ spc' \notin SocketPcs
      BY <1>1, <2>1 DEF Descriptors, Floor, Connection, SocketPcs
    <3>2. ASSUME NEW n \in Fds PROVE Holds(n)'
      <4>1. fd'[n] = "none" /\ ~(n < 0)
        BY <2>1, <3>2 DEF Fds
      <4>. QED  BY <3>1, <4>1 DEF Holds
    <3>. QED  BY <1>1, <2>1, <3>1, <3>2 DEF Descriptors
  <2>4. Waiting' /\ Timely' /\ Opened'
    BY <1>1, <2>1, ClientsUnmoved
  <2>. QED  BY <2>2, <2>3, <2>4 DEF IInv
<1>5. CASE OpenNull
  <2>1. /\ spc \in {"null1", "null2", "null3"} /\ spc' = OpenNext(spc)
        /\ \/ fd' = [fd EXCEPT ![Lowest(fd)] = "null"] /\ UNCHANGED <<missed, errors>>
           \/ Fail /\ missed' = missed + 1 /\ UNCHANGED fd
        /\ UNCHANGED <<daemon, listen, connfd, queue, client, conn, wire>>
    BY <1>5 DEF OpenNull
  <2>2. /\ spc' \in {"null2", "null3", "resolve"} /\ Lowest(fd) = Floor /\ Floor \in Fds
        /\ spc \notin SocketPcs /\ spc' \notin SocketPcs /\ ~Connection /\ ~Connection'
    BY <1>1, <2>1, LowestFree DEF OpenNext, SocketPcs, Connection
  <2>3. /\ Floor \in 0 .. 2 /\ missed \in 0 .. 2
        /\ Floor' = IF missed' = missed THEN Floor + 1 ELSE Floor
        /\ missed' = missed \/ missed' = missed + 1
    <3>1. missed \in 0 .. 3 /\ Floor \in 0 .. 3 /\ (spc = "null1" => missed = 0)
      BY <1>1 DEF Types, TypeOK, Descriptors
    <3>2. CASE spc = "null1"
      <4>1. Floor = 0 /\ Floor' = 1 - missed'
        BY <2>1, <3>2 DEF Floor, OpenNext
      <4>. QED  BY <2>1, <3>1, <3>2, <4>1
    <3>3. CASE spc = "null2"
      <4>1. Floor = 1 - missed /\ Floor' = 2 - missed'
        BY <2>1, <3>3 DEF Floor, OpenNext
      <4>. QED  BY <2>1, <3>1, <4>1
    <3>4. CASE spc = "null3"
      <4>1. Floor = 2 - missed /\ Floor' = 3 - missed'
        BY <2>1, <3>4 DEF Floor, OpenNext
      <4>. QED  BY <2>1, <3>1, <4>1
    <3>. QED  BY <2>1, <3>2, <3>3, <3>4
  <2>4. \A n \in Fds : fd'[n] = IF n = Floor /\ missed' = missed THEN "null" ELSE fd[n]
    <3>1. CASE fd' = [fd EXCEPT ![Lowest(fd)] = "null"] /\ missed' = missed
      BY <1>1, <2>2, <3>1 DEF Types, TypeOK
    <3>2. CASE fd' = fd /\ missed' = missed + 1
      BY <2>3, <3>2
    <3>. QED  BY <2>1, <3>1, <3>2
  <2>5. Types' /\ Heard'
    <3>1. fd' \in [Fds -> {"none", "tty", "null", "socket"} \cup Clients] /\ errors' \in 0 .. MaxErrors
      BY <1>1, <1>2, <2>1, <2>2 DEF Types, TypeOK
    <3>2. missed' \in 0 .. 3
      BY <2>3
    <3>. QED  BY <1>1, <2>1, <2>2, <3>1, <3>2 DEF Types, TypeOK, Heard, listen, client
  <2>6. Descriptors'
    <3>1. ASSUME NEW n \in Fds PROVE Holds(n)'
      <4>1. (n < Floor => fd[n] \in {"tty", "null"}) /\ (n >= Floor => fd[n] = "none")
        <5>1. Holds(n)
          BY <1>1, <2>1 DEF Descriptors
        <5>2. n \in Nat /\ Floor \in Nat
          BY <2>3 DEF Fds
        <5>3. n >= Floor => n = Floor \/ n = Floor + 1 \/ n > Floor + 1
          BY <5>2
        <5>4. (n = Floor => fd[n] = "none") /\ (n = Floor + 1 => fd[n] = "none")
          BY <2>2, <5>1 DEF Holds
        <5>5. (n > Floor + 1 => fd[n] = "none") /\ (n < Floor => fd[n] \in {"tty", "null"})
          BY <5>1 DEF Holds
        <5>. QED  BY <5>3, <5>4, <5>5
      <4>. QED  BY <2>2, <2>3, <2>4, <4>1 DEF Holds
    <3>2. Floor' \in 0 .. 3
      BY <2>3
    <3>. QED  BY <2>2, <3>1, <3>2 DEF Descriptors
  <2>7. Waiting' /\ Timely' /\ Opened'
    <3>1. missed' = missed \/ missed # 3
      BY <2>3
    <3>. QED  BY <1>1, <2>1, <2>2, <3>1, ClientsUnmoved
  <2>. QED  BY <2>5, <2>6, <2>7 DEF IInv
<1>6. CASE Resolve
  <2>1. spc = "resolve" /\ UNCHANGED <<daemon, missed, res, listenfd, connfd, client, wire>>
    BY <1>6 DEF Resolve
  <2>2. CASE spc' = "socket" /\ UNCHANGED <<fd, bound, listening, queue, conn, errors>>
    <3>1. Types' /\ Heard'
      BY <1>1, <2>1, <2>2 DEF Types, TypeOK, Heard, client
    <3>2. Descriptors'
      <4>1. /\ Floor' = Floor /\ ~Connection /\ ~Connection'
            /\ spc \notin SocketPcs /\ spc' \notin SocketPcs
        BY <2>1, <2>2 DEF Floor, Connection, SocketPcs
      <4>. QED  BY <1>1, <2>1, <2>2, <4>1, DescriptorsKept
    <3>3. Waiting' /\ Timely' /\ Opened'
      BY <1>1, <2>1, <2>2, ClientsUnmoved
    <3>. QED  BY <3>1, <3>2, <3>3 DEF IInv
  <2>3. CASE Ended /\ Fail
    <3>1. res' \in DOMAIN Locals /\ listenfd' \in Fds \cup {NoFd}
      BY <1>1, <2>1 DEF Types, TypeOK
    <3>. QED  BY <1>2, <2>1, <2>3, <3>1, EndedStep
  <2>. QED  BY <1>6, <2>2, <2>3 DEF Resolve
<1>7. CASE Socket
  <2>1. spc = "socket" /\ UNCHANGED <<daemon, missed, connfd, client, wire>>
    BY <1>7 DEF Socket
  <2>2. CASE /\ fd' = [fd EXCEPT ![Lowest(fd)] = "socket"] /\ listenfd' = Lowest(fd)
             /\ spc' = "bind" /\ UNCHANGED <<res, bound, listening, queue, conn, errors>>
    <3>1. /\ Lowest(fd) = Floor /\ Floor \in Fds /\ Floor \in 0 .. 3 /\ Floor' = Floor
          /\ spc \notin SocketPcs /\ spc' \in SocketPcs /\ ~Connection /\ ~Connection'
      BY <1>1, <2>1, <2>2, LowestFree DEF Floor, SocketPcs, Connection, Descriptors
    <3>2. Types' /\ Heard'
      <4>1. fd' \in [Fds -> {"none", "tty", "null", "socket"} \cup Clients] /\ listenfd' \in Fds
        BY <1>1, <2>2, <3>1 DEF Types, TypeOK
      <4>. QED  BY <1>1, <2>1, <2>2, <4>1 DEF Types, TypeOK, Heard, client
    <3>3. \A n \in Fds : fd'[n] = IF n = Floor THEN "socket" ELSE fd[n]
      BY <1>1, <2>2, <3>1 DEF Types, TypeOK
    <3>4. Descriptors'
      <4>1. ASSUME NEW n \in Fds PROVE Holds(n)'
        <5>1. Holds(n) /\ n \in Nat
          BY <1>1, <2>1 DEF Descriptors, Fds
        <5>. QED  BY <3>1, <3>3, <5>1 DEF Holds
      <4>. QED  BY <2>2, <3>1, <4>1 DEF Descriptors
    <3>5. Waiting' /\ Timely' /\ Opened'
      BY <1>1, <2>1, <2>2, ClientsUnmoved
    <3>. QED  BY <3>2, <3>4, <3>5 DEF IInv
  <2>3. CASE Fail /\ listenfd' = NoFd /\ NextLocal(fd)
    <3>1. \A n \in Fds : fd[n] = IF n = Floor THEN "none" ELSE fd[n]
      BY <1>1, <2>1 DEF Descriptors, Holds, SocketPcs
    <3>2. fd \in [Fds -> {"none", "tty", "null", "socket"} \cup Clients]
      BY <1>1 DEF Types, TypeOK
    <3>. QED  BY <2>1, <2>3, <3>1, <3>2, NextLocalStep
  <2>. QED  BY <1>7, <2>2, <2>3 DEF Socket
<1>8. CASE Bind
  <2>1. spc = "bind" /\ UNCHANGED <<daemon, missed, listenfd, connfd, client, wire>>
    BY <1>8 DEF Bind
  <2>2. CASE /\ bound' = Locals[res] /\ spc' = "listen"
             /\ UNCHANGED <<fd, res, listening, queue, conn, errors>>
    <3>1. bound' \in DOMAIN Covers
      BY <1>1, <2>2 DEF Types, TypeOK
    <3>2. Types' /\ Heard'
      BY <1>1, <2>1, <2>2, <3>1 DEF Types, TypeOK, Heard, client
    <3>3. Descriptors'
      <4>1. /\ Floor' = Floor /\ ~Connection /\ ~Connection'
            /\ spc \in SocketPcs /\ spc' \in SocketPcs
        BY <2>1, <2>2 DEF Floor, Connection, SocketPcs
      <4>. QED  BY <1>1, <2>1, <2>2, <4>1, DescriptorsKept
    <3>4. Waiting' /\ Timely' /\ Opened'
      BY <1>1, <2>1, <2>2, ClientsUnmoved
    <3>. QED  BY <3>2, <3>3, <3>4 DEF IInv
  <2>3. CASE Fail /\ NextLocal(ClosedFd(listenfd))
    <3>. DEFINE f == ClosedFd(listenfd)
    <3>1. f \in [Fds -> {"none", "tty", "null", "socket"} \cup Clients]
      BY <1>1 DEF Types, TypeOK, ClosedFd
    <3>2. \A n \in Fds : f[n] = IF n = Floor THEN "none" ELSE fd[n]
      BY <1>1, <2>1 DEF Descriptors, SocketPcs, ClosedFd
    <3>5. listenfd' \in Fds \cup {NoFd}
      BY <1>1, <2>1 DEF Types, TypeOK
    <3>. HIDE DEF f
    <3>. QED  BY <2>1, <2>3, <3>1, <3>2, <3>5, NextLocalStep DEF f
  <2>. QED  BY <1>8, <2>2, <2>3 DEF Bind
<1>9. CASE Listen
  <2>1. /\ spc = "listen" /\ spc' = "accept" /\ listening' \in BOOLEAN /\ errors' \in 0 .. MaxErrors
        /\ UNCHANGED <<daemon, missed, fd, res, listenfd, bound, connfd, queue, client, conn, wire>>
    BY <1>1, <1>2, <1>9 DEF Listen, Types, TypeOK
  <2>2. Types' /\ Heard'
    BY <1>1, <2>1 DEF Types, TypeOK, Heard, client
  <2>3. Descriptors'
    <3>1. /\ Floor' = Floor /\ ~Connection /\ ~Connection'
          /\ spc \in SocketPcs /\ spc' \in SocketPcs
      BY <2>1 DEF Floor, Connection, SocketPcs
    <3>. QED  BY <1>1, <2>1, <3>1, DescriptorsKept DEF listen
  <2>4. Waiting' /\ Timely' /\ Opened'
    BY <1>1, <2>1, ClientsUnmoved
  <2>. QED  BY <2>2, <2>3, <2>4 DEF IInv
<1>. QED  BY <1>3, <1>4, <1>5, <1>6, <1>7, <1>8, <1>9 DEF Setup

-----------------------------------------------------------------------------
(* The server's loop.                                                      *)

\* accept() moves the head of the queue to the descriptor after the socket.
LEMMA AcceptStep ==
  ASSUME IInv, Accept
  PROVE  IInv'
<1>. USE DaytimeAssumption
<1>1. Types /\ Descriptors /\ Opened /\ Waiting /\ Timely /\ Heard
  BY DEF IInv
<1>2. /\ spc = "accept" /\ spc' = "write" /\ queue # <<>> /\ queue' = Tail(queue)
      /\ connfd' = Floor + 1 /\ Floor + 1 \in Fds /\ connfd' # NoFd
      /\ fd' = [fd EXCEPT ![Floor + 1] = Head(queue)]
      /\ UNCHANGED <<daemon, missed, listen, client, conn, wire, errors>>
  BY <1>1, LowestFree DEF Accept, Fds, NoFd
<1>3. /\ Head(queue) \in Clients /\ queue' \in Seq(Clients) /\ Len(queue) \in Nat \ {0}
      /\ Len(queue') = Len(queue) - 1 /\ queue[1] = Head(queue)
      /\ \A j \in 1 .. Len(queue') : queue'[j] = queue[j + 1] /\ j + 1 \in 1 .. Len(queue)
  <2>1. queue \in Seq(Clients)
    BY <1>1 DEF Types, TypeOK
  <2>2. queue[1] = Head(queue)
    OBVIOUS
  <2>. QED  BY <1>2, <2>1, <2>2, HeadTailProperties, EmptySeq, LenProperties
<1>4. /\ fd \in [Fds -> {"none", "tty", "null", "socket"} \cup Clients]
      /\ \A n \in Fds : fd'[n] = IF n = Floor + 1 THEN Head(queue) ELSE fd[n]
  BY <1>1, <1>2 DEF Types, TypeOK
<1>5. Types' /\ Heard' /\ Opened'
  BY <1>1, <1>2, <1>3, <1>4 DEF Types, TypeOK, Heard, Opened, listen, client
<1>6. Descriptors' /\ Served' = Head(queue)
  <2>1. /\ Floor' = Floor /\ Floor \in 0 .. 3 /\ ~Connection /\ Connection' /\ spc' \in SocketPcs
        /\ spc \in SocketPcs
    BY <1>1, <1>2 DEF Floor, Connection, SocketPcs, Descriptors
  <2>2. ASSUME NEW n \in Fds PROVE Holds(n)'
    <3>1. Holds(n) /\ n \in Nat
      BY <1>1, <1>2 DEF Descriptors, Fds
    <3>. QED  BY <1>3, <1>4, <2>1, <3>1 DEF Holds
  <2>. QED  BY <1>1, <1>2, <1>4, <2>1, <2>2 DEF Descriptors, Served, listen
<1>7. Served = "none" /\ missed' = missed
  BY <1>2 DEF Served, Connection
<1>8. ASSUME NEW j \in 1 .. Len(queue') PROVE queue'[j] # Head(queue)
  <2>1. j + 1 # 1 /\ 1 \in 1 .. Len(queue) /\ j + 1 \in 1 .. Len(queue)
    BY <1>3, <1>8
  <2>. QED  BY <1>1, <1>3, <2>1 DEF Waiting
<1>9. Waiting'
  <2>1. ASSUME NEW j \in 1 .. Len(queue'), NEW k \in 1 .. Len(queue'), queue'[j] = queue'[k]
        PROVE  j = k
    <3>1. queue[j + 1] = queue[k + 1] /\ j + 1 \in 1 .. Len(queue) /\ k + 1 \in 1 .. Len(queue)
      BY <1>3, <2>1
    <3>2. j + 1 = k + 1
      BY <1>1, <3>1 DEF Waiting
    <3>. QED  BY <3>2
  <2>2. ASSUME NEW k \in 1 .. Len(queue')
        PROVE  Served' # queue'[k] /\ conn'[queue'[k]] = "open"
    BY <1>1, <1>2, <1>3, <1>6, <1>8, <2>2 DEF Waiting
  <2>3. ASSUME NEW c \in Clients, Before(c)'
        PROVE  conn'[c] = "none" /\ Served' # c /\ \A k \in 1 .. Len(queue') : queue'[k] # c
    <3>1. Before(c)
      BY <1>2, <2>3 DEF Before, client
    <3>. QED  BY <1>1, <1>2, <1>3, <1>6, <3>1 DEF Waiting
  <2>. QED  BY <1>2, <2>1, <2>2, <2>3 DEF Waiting
<1>10. Timely'
  <2>1. ASSUME NEW c \in Clients, Unserved(c)' PROVE Unserved(c)
    <3>1. 1 \in 1 .. Len(queue) /\ (Served' = c => queue[1] = c)
      BY <1>3, <1>6
    <3>2. (\E k \in 1 .. Len(queue') : queue'[k] = c) => \E k \in 1 .. Len(queue) : queue[k] = c
      BY <1>3
    <3>. QED  BY <2>1, <3>1, <3>2 DEF Unserved
  <2>2. ASSUME NEW c \in Clients, Served' = c PROVE conn[c] = "open"
    BY <1>1, <1>3, <1>6, <2>2 DEF Waiting
  <2>. QED  BY <1>1, <1>2, <2>1, <2>2 DEF Timely, Before, client
<1>. QED  BY <1>5, <1>6, <1>9, <1>10 DEF IInv

\* Without a connection there is nobody to write to.
LEMMA AcceptFailsStep ==
  ASSUME IInv, AcceptFails \/ AcceptInvalid
  PROVE  IInv'
<1>. USE DaytimeAssumption
<1>1. Types /\ Descriptors /\ Opened /\ Waiting /\ Timely /\ Heard
  BY DEF IInv
<1>2. /\ spc = "accept" /\ spc' = "write" /\ connfd' = NoFd /\ errors' \in 0 .. MaxErrors
      /\ UNCHANGED <<daemon, missed, fd, listen, queue, client, conn, wire>>
  BY <1>1 DEF AcceptFails, AcceptInvalid, Fail, Types, TypeOK
<1>3. Served = "none" /\ Served' = "none"
  BY <1>2 DEF Served, Connection
<1>4. Types' /\ Heard' /\ Opened'
  BY <1>1, <1>2 DEF Types, TypeOK, Heard, Opened, listen, client
<1>5. Descriptors'
  <2>1. /\ Floor' = Floor /\ ~Connection /\ ~Connection'
        /\ spc \in SocketPcs /\ spc' \in SocketPcs
    BY <1>2 DEF Floor, Connection, SocketPcs
  <2>. QED  BY <1>1, <1>2, <2>1, DescriptorsKept DEF listen
<1>6. Waiting' /\ Timely'
  BY <1>1, <1>2, <1>3 DEF Waiting, Timely, Unserved, Before, client
<1>. QED  BY <1>4, <1>5, <1>6 DEF IInv

\* The client of the connection gets the whole time, and had none of it.
LEMMA WriteStep ==
  ASSUME IInv, Write
  PROVE  IInv'
<1>. USE DaytimeAssumption
<1>1. Types /\ Descriptors /\ Opened /\ Waiting /\ Timely /\ Heard
  BY DEF IInv
<1>2. /\ spc = "write" /\ spc' = "close"
      /\ wire' = [c \in Clients |-> IF c \in Taker THEN wire[c] + Text ELSE wire[c]]
      /\ garbled' \in {garbled, IF connfd = 1 THEN garbled \cup Taker ELSE garbled}
      /\ UNCHANGED <<daemon, missed, fd, listen, connfd, queue, cpc, at, open, shown, conn, errors>>
  BY DEF Write
<1>3. ASSUME NEW c \in Clients
      PROVE  wire'[c] = IF Served = c /\ cpc[c] = "read" THEN wire[c] + Text ELSE wire[c]
  <2>1. c \in Taker <=> Served = c /\ cpc[c] = "read"
    BY <1>2 DEF Taker, Served, Connection
  <2>. QED  BY <1>2, <2>1
<1>4. ASSUME NEW c \in Clients
      PROVE  /\ wire[c] \in 0 .. Text /\ shown[c] \in 0 .. Text
             /\ Served = c => wire[c] = 0 /\ shown[c] = 0
  BY <1>1, <1>2 DEF Types, TypeOK, Timely, Unserved
<1>5. Types'
  <2>1. wire' \in [Clients -> 0 .. Text]
    <3>1. \A c \in Clients : wire'[c] \in 0 .. Text
      BY <1>3, <1>4
    <3>. QED  BY <1>2, <3>1
  <2>2. garbled' \subseteq Clients
    BY <1>1, <1>2 DEF Taker, Types, TypeOK
  <2>. QED  BY <1>1, <1>2, <2>1, <2>2 DEF Types, TypeOK, listen
<1>6. Heard' /\ Opened' /\ Descriptors' /\ Served' = Served
  <2>1. /\ Floor' = Floor /\ (Connection <=> Connection')
        /\ spc \in SocketPcs /\ spc' \in SocketPcs
    BY <1>2 DEF Floor, Connection, SocketPcs
  <2>2. Descriptors'
    BY <1>1, <1>2, <2>1, DescriptorsKept DEF listen
  <2>. QED  BY <1>1, <1>2, <2>1, <2>2 DEF Heard, Opened, Served, listen
<1>7. Waiting'
  BY <1>1, <1>2, <1>6 DEF Waiting, Before
<1>8. Timely'
  <2>1. ASSUME NEW c \in Clients, Unserved(c)' \/ Before(c)' PROVE shown'[c] = 0 /\ wire'[c] = 0
    <3>1. Unserved(c) \/ Before(c)
      BY <1>2, <1>6, <2>1 DEF Unserved, Before
    <3>2. Served # c \/ cpc[c] # "read"
      <4>1. CASE \E k \in 1 .. Len(queue) : queue[k] = c
        BY <1>1, <4>1, LenProperties DEF Waiting, Types, TypeOK
      <4>2. CASE Before(c)
        BY <4>2 DEF Before
      <4>. QED  BY <1>2, <2>1, <4>1, <4>2 DEF Unserved, Before
    <3>. QED  BY <1>1, <1>2, <1>3, <3>1, <3>2 DEF Timely
  <2>2. ASSUME NEW c \in Clients
        PROVE  /\ shown'[c] + wire'[c] \in {0, Text}
               /\ Served' = c /\ cpc'[c] = "read" => shown'[c] + wire'[c] = Text
               /\ conn'[c] = "fin" /\ cpc'[c] = "read" => shown'[c] + wire'[c] = Text \/ spc' = "exited"
    <3>1. shown'[c] = shown[c] /\ cpc'[c] = cpc[c] /\ conn'[c] = conn[c] /\ Served' = Served
      BY <1>2, <1>6
    <3>2. CASE Served = c /\ cpc[c] = "read"
      BY <1>3, <1>4, <3>1, <3>2
    <3>3. CASE ~(Served = c /\ cpc[c] = "read")
      BY <1>1, <1>2, <1>3, <3>1, <3>3 DEF Timely
    <3>. QED  BY <3>2, <3>3
  <2>3. ASSUME NEW c \in Clients, c \in garbled' PROVE spc' = "exited" \/ missed' = 3
    <3>1. CASE c \in garbled
      BY <1>1, <1>2, <3>1 DEF Timely
    <3>2. CASE c \notin garbled
      <4>1. Connection /\ connfd = 1
        BY <1>2, <2>3, <3>2 DEF Taker, Connection
      <4>2. Floor + 1 = 1 /\ Floor = 3 - missed /\ missed \in 0 .. 3
        BY <1>1, <1>2, <4>1 DEF Descriptors, Floor, Types, TypeOK
      <4>. QED  BY <1>2, <4>2
    <3>. QED  BY <3>1, <3>2
  <2>. QED  BY <1>1, <1>2, <1>6, <2>1, <2>2, <2>3 DEF Timely
<1>. QED  BY <1>5, <1>6, <1>7, <1>8 DEF IInv

\* The connection's descriptor is free again, and its client has been written to.
LEMMA CloseStep ==
  ASSUME IInv, Close
  PROVE  IInv'
<1>. USE DaytimeAssumption
<1>1. Types /\ Descriptors /\ Opened /\ Waiting /\ Timely /\ Heard
  BY DEF IInv
<1>2. /\ spc = "close" /\ spc' = "accept" /\ fd' = Closed
      /\ conn' = [c \in Clients |->
           IF (\E n \in Fds : fd[n] = c) /\ (\A n \in Fds : Closed[n] # c) THEN "fin" ELSE conn[c]]
      /\ UNCHANGED <<daemon, missed, listen, connfd, queue, client, wire, errors>>
  BY DEF Close
<1>3. fd \in [Fds -> {"none", "tty", "null", "socket"} \cup Clients]
  BY <1>1 DEF Types, TypeOK
<1>4. /\ Closed \in [Fds -> {"none", "tty", "null", "socket"} \cup Clients]
      /\ \A n \in Fds : Closed[n] = IF n = connfd THEN "none" ELSE fd[n]
  BY <1>3 DEF Closed, ClosedFd
<1>5. Connection => connfd \in Fds
  BY <1>1, <1>2 DEF Descriptors, Connection, Types, TypeOK
<1>6. \A c \in Clients : conn'[c] = IF Served = c THEN "fin" ELSE conn[c]
  <2>1. ASSUME NEW c \in Clients
        PROVE  ((\E n \in Fds : fd[n] = c) <=> Served = c) /\ \A n \in Fds : Closed[n] # c
    <3>1. \A n \in Fds : fd[n] = c => n = connfd
      BY <1>1, OnlyServed
    <3>2. \A n \in Fds : Closed[n] # c
      BY <1>4, <3>1
    <3>. QED  BY <1>1, <3>2, OnlyServed
  <2>. QED  BY <1>2, <2>1
<1>7. Types'
  <2>1. conn' \in [Clients -> {"none", "open", "fin", "reset"}]
    <3>1. \A c \in Clients : conn'[c] \in {"none", "open", "fin", "reset"}
      BY <1>1, <1>6 DEF Types, TypeOK
    <3>. QED  BY <1>2, <3>1
  <2>. QED  BY <1>1, <1>2, <1>4, <2>1 DEF Types, TypeOK, listen, client
<1>8. Heard' /\ Opened'
  BY <1>1, <1>2 DEF Heard, Opened, listen, client
<1>9. Descriptors'
  <2>1. /\ Floor' = Floor /\ Floor \in 0 .. 3 /\ ~Connection' /\ spc' \in SocketPcs
        /\ spc \in SocketPcs
    BY <1>1, <1>2 DEF Floor, Connection, SocketPcs, Descriptors
  <2>2. ASSUME NEW n \in Fds PROVE Holds(n)'
    <3>1. Holds(n) /\ n \in Nat
      BY <1>1, <1>2 DEF Descriptors, Fds
    <3>2. Connection => connfd = Floor + 1
      BY <1>1 DEF Descriptors
    <3>3. ~Connection => connfd = NoFd /\ n # connfd
      BY <1>2 DEF Connection, NoFd, Fds
    <3>. QED  BY <1>2, <1>4, <2>1, <3>1, <3>2, <3>3 DEF Holds
  <2>. QED  BY <1>1, <1>2, <2>1, <2>2 DEF Descriptors, listen
<1>10. Served' = "none" /\ Served' \notin Clients
  BY <1>2 DEF Served, Connection
<1>11. \A k \in 1 .. Len(queue) : queue[k] \in Clients
  BY <1>1, LenProperties DEF Types, TypeOK
<1>12. Waiting'
  BY <1>1, <1>2, <1>6, <1>10, <1>11 DEF Waiting, Before, client
<1>13. Timely'
  <2>1. ASSUME NEW c \in Clients PROVE Unserved(c)' => Unserved(c)
    BY <1>2, <1>10, <2>1 DEF Unserved
  <2>2. ASSUME NEW c \in Clients, conn'[c] = "fin", cpc'[c] = "read"
        PROVE  shown'[c] + wire'[c] = Text \/ spc' = "exited"
    BY <1>1, <1>2, <1>6, <2>2 DEF Timely, client
  <2>. QED  BY <1>1, <1>2, <1>6, <1>10, <2>1, <2>2 DEF Timely, Before, client
<1>. QED  BY <1>7, <1>8, <1>9, <1>12, <1>13 DEF IInv

\* A server that is killed.
LEMMA DieStep ==
  ASSUME IInv, Die
  PROVE  IInv'
BY EndedStep DEF Die, IInv, Types, TypeOK

-----------------------------------------------------------------------------
(* The clients.                                                            *)

\* A step of one client that leaves the connections as they are.
LEMMA ClientMoves ==
  ASSUME IInv, NEW c \in Clients, UNCHANGED <<server, queue, conn>>, Types',
         \A x \in Clients \ {c} : /\ cpc'[x] = cpc[x] /\ at'[x] = at[x] /\ open'[x] = open[x]
                                  /\ wire'[x] = wire[x] /\ shown'[x] = shown[x],
         open'[c] = IF cpc'[c] = "read" THEN 1 ELSE 0,
         cpc'[c] = "out" => at'[c] = 1, cpc'[c] = "try" => at'[c] \in 1 .. Len(Remotes[c]),
         Before(c)' => Before(c), cpc'[c] = "read" => cpc[c] = "read",
         Unserved(c) \/ Before(c) => shown'[c] = 0 /\ wire'[c] = 0,
         shown'[c] + wire'[c] = shown[c] + wire[c], garbled' = garbled,
         cpc'[c] = "done" => shown'[c] = Text \/ spc = "exited"
  PROVE  IInv'
<1>1. Types /\ Descriptors /\ Opened /\ Waiting /\ Timely /\ Heard
  BY DEF IInv
<1>2. /\ UNCHANGED <<daemon, missed, spc, fd, connfd, queue, conn>>
      /\ res' = res /\ listenfd' = listenfd /\ bound' = bound /\ listening' = listening
  BY DEF server, listen
<1>3. Descriptors' /\ Heard' /\ Served' = Served
  <2>1. Floor' = Floor /\ (Connection <=> Connection')
    BY <1>2 DEF Floor, Connection
  <2>2. Descriptors'
    <3>1. spc' \in {"fork", "fork2", "closeall", "null1"} => missed = 0
      BY <1>1, <1>2 DEF Descriptors
    <3>. QED  BY <1>1, <1>2, <2>1, <3>1, DescriptorsKept
  <2>. QED  BY <1>1, <1>2, <2>1, <2>2 DEF Heard, Served
<1>4. Opened'
  BY <1>1 DEF Opened
<1>5. ASSUME NEW x \in Clients PROVE (Before(x)' => Before(x)) /\ (Unserved(x)' <=> Unserved(x))
  BY <1>2, <1>3, <1>5 DEF Before, Unserved
<1>6. Waiting'
  BY <1>1, <1>2, <1>3, <1>5 DEF Waiting
<1>7. Timely'
  <2>1. ASSUME NEW x \in Clients, x # c
        PROVE  /\ Unserved(x)' \/ Before(x)' => shown'[x] = 0 /\ wire'[x] = 0
               /\ shown'[x] + wire'[x] \in {0, Text}
               /\ spc' = "close" /\ Served' = x /\ cpc'[x] = "read" => shown'[x] + wire'[x] = Text
               /\ Served' = x => conn'[x] = "open"
               /\ conn'[x] = "fin" /\ cpc'[x] = "read" => shown'[x] + wire'[x] = Text \/ spc' = "exited"
               /\ conn'[x] = "reset" => spc' = "exited"
               /\ cpc'[x] = "done" => shown'[x] = Text \/ spc' = "exited"
               /\ x \in garbled' => spc' = "exited" \/ missed' = 3
    BY <1>1, <1>2, <1>3, <1>5, <2>1 DEF Timely
  <2>2. /\ Unserved(c)' \/ Before(c)' => shown'[c] = 0 /\ wire'[c] = 0
        /\ shown'[c] + wire'[c] \in {0, Text}
        /\ spc' = "close" /\ Served' = c /\ cpc'[c] = "read" => shown'[c] + wire'[c] = Text
        /\ Served' = c => conn'[c] = "open"
        /\ conn'[c] = "fin" /\ cpc'[c] = "read" => shown'[c] + wire'[c] = Text \/ spc' = "exited"
        /\ conn'[c] = "reset" => spc' = "exited"
        /\ cpc'[c] = "done" => shown'[c] = Text \/ spc' = "exited"
        /\ c \in garbled' => spc' = "exited" \/ missed' = 3
    BY <1>1, <1>2, <1>3, <1>5 DEF Timely
  <2>. QED  BY <2>1, <2>2 DEF Timely
<1>. QED  BY <1>3, <1>4, <1>6, <1>7 DEF IInv

\* A client before its first address.
LEMMA StartStep ==
  ASSUME IInv, NEW c \in Clients, Start(c)
  PROVE  IInv'
<1>. USE DaytimeAssumption
<1>1. Types /\ Opened /\ Timely
  BY DEF IInv
<1>2. /\ cpc[c] = "out" /\ UNCHANGED <<server, queue, at, open, shown, garbled, conn, wire>>
      /\ \E p \in {"try", "failed"} : cpc' = [cpc EXCEPT ![c] = p]
      /\ errors' \in 0 .. MaxErrors
  BY <1>1 DEF Start, Fail, Types, TypeOK
<1>3. cpc'[c] \in {"try", "failed"} /\ \A x \in Clients \ {c} : cpc'[x] = cpc[x]
  BY <1>1, <1>2 DEF Types, TypeOK
<1>4. Types'
  BY <1>1, <1>2 DEF Types, TypeOK, server, listen
<1>5. open[c] = 0 /\ at[c] = 1 /\ 1 \in 1 .. Len(Remotes[c]) /\ shown[c] = 0 /\ wire[c] = 0
  BY <1>1, <1>2 DEF Opened, Timely, Before
<1>. QED  BY <1>2, <1>3, <1>4, <1>5, ClientMoves DEF Before

\* An address passed over.
LEMMA PassStep ==
  ASSUME IInv, NEW c \in Clients, cpc[c] = "try", Refused(c) \/ NoSocket(c),
         UNCHANGED <<server, shown, garbled, wire>>
  PROVE  /\ IInv' /\ UNCHANGED <<queue, conn>> /\ errors' \in {errors, errors + 1}
         /\ cpc' = [cpc EXCEPT ![c] = IF NoMore(c) THEN "failed" ELSE "try"]
         /\ at' = [at EXCEPT ![c] = @ + 1]
<1>. USE DaytimeAssumption
<1>1. Types /\ Opened /\ Timely
  BY DEF IInv
<1>2. /\ at' = [at EXCEPT ![c] = @ + 1] /\ UNCHANGED <<conn, queue>>
      /\ cpc' = [cpc EXCEPT ![c] = IF NoMore(c) THEN "failed" ELSE "try"]
  BY DEF Refused, NoSocket, NextRemote
<1>3. open[c] = 0 /\ at[c] \in 1 .. Len(Remotes[c]) /\ shown[c] = 0 /\ wire[c] = 0
  BY <1>1 DEF Opened, Timely, Before
<1>4. open' = open /\ errors' \in 0 .. MaxErrors /\ errors' \in {errors, errors + 1}
  <2>1. open = [open EXCEPT ![c] = 0]
    BY <1>1, <1>3 DEF Types, TypeOK
  <2>. QED  BY <1>1, <1>3, <2>1 DEF Refused, NoSocket, Fail, ClosesRefused, Types, TypeOK
<1>5. /\ cpc'[c] = IF NoMore(c) THEN "failed" ELSE "try"
      /\ at'[c] = at[c] + 1 /\ at' \in [Clients -> Nat]
      /\ \A x \in Clients \ {c} : cpc'[x] = cpc[x] /\ at'[x] = at[x]
  BY <1>1, <1>2, <1>3 DEF Types, TypeOK
<1>6. Types'
  <2>1. /\ UNCHANGED <<daemon, missed, spc, fd, res, listenfd, connfd, bound, listening>>
        /\ UNCHANGED <<queue, conn, wire, shown, garbled>>
    BY <1>1, <1>2 DEF server, listen
  <2>2. cpc' \in [Clients -> {"out", "try", "read", "done", "failed", "crashed", "killed"}]
    BY <1>1, <1>2 DEF Types, TypeOK
  <2>3. at[c] + 1 \in 1 .. Len(Remotes[c]) + 1
    BY <1>3
  <2>4. \A x \in Clients : at'[x] \in 1 .. Len(Remotes[x]) + 1
    BY <1>1, <1>5, <2>3 DEF Types, TypeOK
  <2>. QED  BY <1>1, <1>4, <1>5, <2>1, <2>2, <2>4 DEF Types, TypeOK
<1>7. cpc'[c] = "try" => at'[c] \in 1 .. Len(Remotes[c])
  BY <1>3, <1>5 DEF NoMore
<1>. QED  BY <1>2, <1>3, <1>4, <1>5, <1>6, <1>7, ClientMoves DEF Before

\* A client that connects is the last of the queue, and new in it.
LEMMA ConnectStep ==
  ASSUME IInv, NEW c \in Clients, cpc[c] = "try", Connected(c), UNCHANGED <<server, shown, garbled, wire>>
  PROVE  IInv'
<1>. USE DaytimeAssumption
<1>1. Types /\ Descriptors /\ Opened /\ Waiting /\ Timely /\ Heard
  BY DEF IInv
<1>2. /\ open' = [open EXCEPT ![c] = @ + 1] /\ conn' = [conn EXCEPT ![c] = "open"]
      /\ queue' = Append(queue, c) /\ cpc' = [cpc EXCEPT ![c] = "read"]
      /\ UNCHANGED <<errors, at>>
      /\ UNCHANGED <<daemon, missed, spc, fd, res, listenfd, bound, listening, connfd, shown, garbled, wire>>
  BY DEF Connected, server, listen
<1>3. /\ spc \in {"accept", "write", "close"} /\ Before(c) /\ open[c] = 0
      /\ conn[c] = "none" /\ Served # c /\ \A k \in 1 .. Len(queue) : queue[k] # c
      /\ shown[c] = 0 /\ wire[c] = 0
  BY <1>1 DEF Connected, Serves, Heard, Before, Opened, Waiting, Timely
<1>4. /\ Len(queue) \in Nat /\ Len(queue') = Len(queue) + 1 /\ queue' \in Seq(Clients)
      /\ queue'[Len(queue) + 1] = c /\ \A k \in 1 .. Len(queue) : queue'[k] = queue[k] /\ queue[k] \in Clients
  BY <1>1, <1>2, AppendProperties, LenProperties DEF Types, TypeOK
<1>5. /\ cpc'[c] = "read" /\ conn'[c] = "open" /\ open'[c] = 1
      /\ \A x \in Clients \ {c} : cpc'[x] = cpc[x] /\ conn'[x] = conn[x] /\ open'[x] = open[x]
  BY <1>1, <1>2, <1>3 DEF Types, TypeOK
<1>6. Types'
  BY <1>1, <1>2, <1>3, <1>4 DEF Types, TypeOK
<1>7. Heard' /\ Descriptors' /\ Opened' /\ Served' = Served
  <2>1. Floor' = Floor /\ (Connection <=> Connection')
    BY <1>2 DEF Floor, Connection
  <2>2. Descriptors'
    BY <1>1, <1>2, <1>3, <2>1, DescriptorsKept
  <2>. QED  BY <1>1, <1>2, <1>5, <2>1, <2>2 DEF Heard, Opened, Served
<1>8. \A k \in 1 .. Len(queue') : k \in 1 .. Len(queue) \/ k = Len(queue) + 1
  BY <1>4
<1>9. Waiting'
  <2>1. ASSUME NEW j \in 1 .. Len(queue'), NEW k \in 1 .. Len(queue'), queue'[j] = queue'[k]
        PROVE  j = k
    <3>1. ASSUME NEW m \in 1 .. Len(queue) PROVE queue'[m] = queue[m] /\ queue[m] # c
      BY <1>3, <1>4, <3>1
    <3>2. queue'[Len(queue) + 1] = c
      BY <1>4
    <3>3. CASE j \in 1 .. Len(queue) /\ k \in 1 .. Len(queue)
      <4>1. queue[j] = queue[k]
        BY <2>1, <3>1, <3>3
      <4>. QED  BY <1>1, <3>3, <4>1 DEF Waiting
    <3>4. CASE j = Len(queue) + 1 \/ k = Len(queue) + 1
      <4>1. queue'[j] = c /\ queue'[k] = c
        BY <2>1, <3>2, <3>4
      <4>2. j \notin 1 .. Len(queue) /\ k \notin 1 .. Len(queue)
        BY <3>1, <4>1
      <4>. QED  BY <1>8, <4>2
    <3>. QED  BY <1>8, <3>3, <3>4
  <2>2. ASSUME NEW k \in 1 .. Len(queue')
        PROVE  Served' # queue'[k] /\ conn'[queue'[k]] = "open"
    BY <1>1, <1>2, <1>3, <1>4, <1>5, <1>7, <1>8, <2>2 DEF Waiting
  <2>3. ASSUME NEW x \in Clients, Before(x)'
        PROVE  conn'[x] = "none" /\ Served' # x /\ \A k \in 1 .. Len(queue') : queue'[k] # x
    <3>1. x # c /\ Before(x)
      BY <1>5, <2>3 DEF Before
    <3>. QED  BY <1>1, <1>2, <1>4, <1>5, <1>7, <1>8, <3>1 DEF Waiting
  <2>4. spc' # "exited"
    BY <1>2, <1>3
  <2>. QED  BY <2>1, <2>2, <2>3, <2>4 DEF Waiting
<1>10. Timely'
  <2>1. ASSUME NEW x \in Clients, x # c
        PROVE  (Unserved(x)' => Unserved(x)) /\ (Before(x)' => Before(x))
    <3>1. Unserved(x)' => Unserved(x)
      BY <1>2, <1>4, <1>7, <1>8, <2>1 DEF Unserved
    <3>. QED  BY <1>5, <2>1, <3>1 DEF Before
  <2>2. ASSUME NEW x \in Clients, x # c
        PROVE  /\ Unserved(x)' \/ Before(x)' => shown'[x] = 0 /\ wire'[x] = 0
               /\ shown'[x] + wire'[x] \in {0, Text}
               /\ spc' = "close" /\ Served' = x /\ cpc'[x] = "read" => shown'[x] + wire'[x] = Text
               /\ Served' = x => conn'[x] = "open"
               /\ conn'[x] = "fin" /\ cpc'[x] = "read" => shown'[x] + wire'[x] = Text \/ spc' = "exited"
               /\ conn'[x] = "reset" => spc' = "exited"
               /\ cpc'[x] = "done" => shown'[x] = Text \/ spc' = "exited"
               /\ x \in garbled' => spc' = "exited" \/ missed' = 3
    BY <1>1, <1>2, <1>5, <1>7, <2>1, <2>2 DEF Timely
  <2>3. /\ shown'[c] = 0 /\ wire'[c] = 0 /\ Served' # c
        /\ c \in garbled' => spc' = "exited" \/ missed' = 3
    BY <1>1, <1>2, <1>3, <1>7 DEF Timely
  <2>. QED  BY <1>5, <2>2, <2>3 DEF Timely
<1>. QED  BY <1>6, <1>7, <1>9, <1>10 DEF IInv

\* One turn of either loop over the server's addresses.
LEMMA TryingStep ==
  ASSUME IInv, NEW c \in Clients, Trying(c)
  PROVE  IInv'
<1>1. cpc[c] = "try" /\ UNCHANGED <<server, shown, garbled, wire>> /\ (Connected(c) \/ Refused(c) \/ NoSocket(c))
  BY DEF Trying, TryOwn, TryLib
<1>2. CASE Connected(c)
  BY <1>1, <1>2, ConnectStep
<1>3. CASE Refused(c) \/ NoSocket(c)
  BY <1>1, <1>3, PassStep
<1>. QED  BY <1>1, <1>2, <1>3

\* read() takes a part of what is there.
LEMMA ReadStep ==
  ASSUME IInv, NEW c \in Clients, Read(c)
  PROVE  IInv'
<1>. USE DaytimeAssumption
<1>1. Types /\ Opened /\ Timely
  BY DEF IInv
<1>2. PICK n \in 1 .. wire[c] :
        /\ wire' = [wire EXCEPT ![c] = @ - n] /\ shown' = [shown EXCEPT ![c] = @ + n]
        /\ cpc' = [cpc EXCEPT ![c] = "read"]
  BY DEF Read, GoesOn
<1>3. cpc[c] = "read" /\ wire[c] > 0 /\ UNCHANGED <<server, queue, at, open, garbled, conn, errors>>
  BY DEF Read
<1>4. /\ wire[c] \in 0 .. Text /\ shown[c] \in 0 .. Text /\ shown[c] + wire[c] = Text
      /\ ~Unserved(c) /\ ~Before(c)
  BY <1>1, <1>3 DEF Types, TypeOK, Timely
<1>5. cpc' = cpc
  BY <1>1, <1>2, <1>3 DEF Types, TypeOK
<1>6. /\ wire'[c] = wire[c] - n /\ shown'[c] = shown[c] + n
      /\ \A x \in Clients \ {c} : wire'[x] = wire[x] /\ shown'[x] = shown[x]
  BY <1>1, <1>2 DEF Types, TypeOK
<1>7. wire'[c] \in 0 .. Text /\ shown'[c] \in 0 .. Text /\ shown'[c] + wire'[c] = shown[c] + wire[c]
  <2>1. Text \in Nat /\ n \in Nat /\ n <= wire[c]
    BY <1>3, <1>4, DaytimeAssumption
  <2>2. shown[c] + n <= Text /\ wire[c] - n >= 0
    BY <1>4, <2>1
  <2>. QED  BY <1>4, <1>6, <2>1, <2>2
<1>8. wire' \in [Clients -> 0 .. Text] /\ shown' \in [Clients -> 0 .. Text]
  BY <1>1, <1>2, <1>6, <1>7 DEF Types, TypeOK
<1>9. Types'
  BY <1>1, <1>3, <1>5, <1>8 DEF Types, TypeOK, server, listen
<1>10. open[c] = 1
  BY <1>1, <1>3 DEF Opened
<1>11. Before(c)' => Before(c)
  BY <1>5 DEF Before
<1>12. \A x \in Clients \ {c} : cpc'[x] = cpc[x] /\ at'[x] = at[x] /\ open'[x] = open[x]
  BY <1>3, <1>5
<1>13. cpc'[c] = "read" /\ open'[c] = 1 /\ UNCHANGED <<server, queue, conn>>
  BY <1>3, <1>5, <1>10
<1>. QED  BY <1>3, <1>4, <1>6, <1>7, <1>9, <1>11, <1>12, <1>13, ClientMoves

\* A client that ends.
LEMMA LeftStep ==
  ASSUME IInv, NEW c \in Clients, NEW how \in {"done", "crashed", "killed"}, Left(c, how),
         how = "done" => shown[c] = Text \/ spc = "exited",
         UNCHANGED <<server, queue, at, shown, garbled, conn, wire, errors>>
  PROVE  IInv'
<1>1. Types /\ Opened /\ Timely
  BY DEF IInv
<1>2. cpc' = [cpc EXCEPT ![c] = how] /\ open' = [open EXCEPT ![c] = 0]
  BY DEF Left
<1>3. /\ cpc'[c] = how /\ open'[c] = 0
      /\ \A x \in Clients \ {c} : cpc'[x] = cpc[x] /\ open'[x] = open[x]
  BY <1>1, <1>2 DEF Types, TypeOK
<1>4. Types'
  BY <1>1, <1>2 DEF Types, TypeOK, server, listen
<1>5. (Unserved(c) \/ Before(c) => shown[c] = 0 /\ wire[c] = 0) /\ ~Before(c)'
  BY <1>1, <1>3 DEF Timely, Before
<1>. QED  BY <1>3, <1>4, <1>5, ClientMoves

\* The loop of read(), to its end.
LEMMA ReadingStep ==
  ASSUME IInv, NEW c \in Clients, Reading(c)
  PROVE  IInv'
<1>1. Types /\ Descriptors /\ Opened /\ Waiting /\ Timely /\ Heard
  BY DEF IInv
<1>2. shown[c] \in Nat /\ (wire[c] = 0 => shown[c] + wire[c] = shown[c])
  BY <1>1 DEF Types, TypeOK
<1>3. CASE Read(c)
  BY <1>3, ReadStep
<1>4. CASE ReadEof(c)
  <2>1. shown[c] = Text \/ spc = "exited"
    BY <1>1, <1>2, <1>4 DEF ReadEof, Timely
  <2>. QED  BY <1>4, <2>1, LeftStep DEF ReadEof
<1>5. CASE ReadError(c)
  <2>1. /\ cpc[c] = "read" /\ wire[c] = 0 /\ conn[c] = "reset" /\ spc = "exited"
        /\ UNCHANGED <<server, queue, at, shown, wire, errors>>
    BY <1>1, <1>5 DEF ReadError, Timely
  <2>2. CASE (Left(c, "done") \/ Left(c, "crashed")) /\ UNCHANGED <<conn, garbled>>
    BY <2>1, <2>2, LeftStep
  <2>3. CASE conn' = [conn EXCEPT ![c] = "fin"] /\ garbled' = garbled \cup {c} /\ UNCHANGED <<cpc, open>>
    <3>1. Types' /\ Descriptors' /\ Opened' /\ Heard'
      <4>1. garbled' \subseteq Clients /\ conn' \in [Clients -> {"none", "open", "fin", "reset"}]
        BY <1>1, <2>3 DEF Types, TypeOK
      <4>2. Types' /\ Opened' /\ Heard'
        BY <1>1, <2>1, <2>3, <4>1 DEF Types, TypeOK, Opened, Heard, server, listen
      <4>3. Floor' = Floor /\ (Connection <=> Connection')
        BY <2>1 DEF Floor, Connection, server
      <4>4. Descriptors'
        BY <1>1, <2>1, <4>3, DescriptorsKept DEF server, listen
      <4>. QED  BY <4>2, <4>4
    <3>2. conn'[c] = "fin" /\ \A x \in Clients \ {c} : conn'[x] = conn[x]
      BY <1>1, <2>3 DEF Types, TypeOK
    <3>3. /\ queue = <<>> /\ queue' = <<>> /\ Len(queue) = 0 /\ Served = "none" /\ Served \notin Clients
          /\ Served' = "none" /\ spc' = spc /\ spc = "exited"
      BY <1>1, <2>1, EmptySeq, DaytimeAssumption DEF Waiting, Served, Connection, server
    <3>4. Waiting'
      BY <1>1, <2>1, <2>3, <3>2, <3>3 DEF Waiting, Before
    <3>5. Timely'
      BY <1>1, <2>1, <2>3, <3>2, <3>3 DEF Timely, Before, Unserved
    <3>. QED  BY <3>1, <3>4, <3>5 DEF IInv
  <2>. QED  BY <1>5, <2>2, <2>3 DEF ReadError
<1>. QED  BY <1>3, <1>4, <1>5 DEF Reading

-----------------------------------------------------------------------------
(* The theorems.                                                           *)

\* The server and the clients start.
LEMMA Initially == Init => IInv
<1>. USE DaytimeAssumption
<1>. SUFFICES ASSUME Init PROVE IInv
  OBVIOUS
<1>1. /\ spc \in {"fork", "resolve"} /\ fd = [n \in Fds |-> IF n < 3 THEN "tty" ELSE "none"]
      /\ connfd = NoFd /\ queue = <<>> /\ Len(queue) = 0 /\ listening = FALSE
      /\ missed = 0 /\ garbled = {}
  BY EmptySeq DEF Init
<1>2. Types
  <2>1. queue \in Seq(Clients) /\ 1 \in DOMAIN Locals
    <3>1. Locals \in Seq(DOMAIN Covers) /\ Locals # <<>>
      OBVIOUS
    <3>2. DOMAIN Locals = 1 .. Len(Locals) /\ Len(Locals) \in Nat /\ Len(Locals) # 0
      BY <3>1, LenProperties, EmptySeq
    <3>. QED  BY <1>1, <3>2, EmptySeq
  <2>2. fd \in [Fds -> {"none", "tty", "null", "socket"} \cup Clients]
    BY <1>1
  <2>3. \A c \in Clients : 1 \in 1 .. Len(Remotes[c]) + 1
    OBVIOUS
  <2>4. wire \in [Clients -> 0 .. Text] /\ shown \in [Clients -> 0 .. Text] /\ errors \in 0 .. MaxErrors
    BY DEF Init
  <2>5. /\ cpc \in [Clients -> {"out", "try", "read", "done", "failed", "crashed", "killed"}]
        /\ at \in [Clients -> Nat] /\ open \in [Clients -> Nat]
        /\ conn \in [Clients -> {"none", "open", "fin", "reset"}] /\ \A c \in Clients : at[c] = 1
    BY DEF Init
  <2>6. /\ daemon \in BOOLEAN /\ res \in DOMAIN Locals /\ listenfd \in Fds \cup {NoFd}
        /\ connfd \in Fds \cup {NoFd} /\ bound \in DOMAIN Covers \cup {None} /\ listening \in BOOLEAN
    BY <2>1 DEF Init
  <2>. QED  BY <1>1, <2>1, <2>2, <2>3, <2>4, <2>5, <2>6 DEF Types, TypeOK
<1>3. Descriptors
  <2>1. Floor = 3 /\ spc \notin SocketPcs /\ ~Connection
    BY <1>1 DEF Floor, SocketPcs, Connection
  <2>2. ASSUME NEW n \in Fds PROVE Holds(n)
    BY <1>1, <2>1, <2>2 DEF Holds, Fds
  <2>. QED  BY <1>1, <2>1, <2>2 DEF Descriptors
<1>4. Served = "none" /\ Served \notin Clients
  BY <1>1 DEF Served, Connection
<1>5. \A c \in Clients : /\ cpc[c] = "out" /\ at[c] = 1 /\ open[c] = 0 /\ conn[c] = "none"
                          /\ wire[c] = 0 /\ shown[c] = 0
  BY DEF Init
<1>6. Opened /\ Waiting /\ Heard
  BY <1>1, <1>4, <1>5 DEF Opened, Waiting, Heard
<1>7. Timely
  BY <1>1, <1>4, <1>5 DEF Timely
<1>. QED  BY <1>2, <1>3, <1>6, <1>7 DEF IInv

\* Every step keeps the invariant.
LEMMA Inductive == IInv /\ [Next]_vars => IInv'
<1>. SUFFICES ASSUME IInv, [Next]_vars PROVE IInv'
  OBVIOUS
<1>1. CASE Setup
  BY <1>1, SetupStep
<1>2. CASE Loop
  BY <1>2, AcceptStep, AcceptFailsStep, WriteStep, CloseStep DEF Loop
<1>3. CASE AcceptFails
  BY <1>3, AcceptFailsStep
<1>4. CASE Die
  BY <1>4, DieStep
<1>5. ASSUME NEW c \in Clients, Start(c) \/ Trying(c) \/ Reading(c) PROVE IInv'
  BY <1>5, StartStep, TryingStep, ReadingStep
<1>6. ASSUME NEW c \in Clients, Kill(c) PROVE IInv'
  BY <1>6, LeftStep DEF Kill
<1>7. CASE UNCHANGED vars
  <2>1. UNCHANGED <<server, queue, client, conn, wire, errors>>
    BY <1>7 DEF vars
  <2>2. /\ UNCHANGED <<daemon, missed, spc, fd, res, listenfd, connfd, bound, listening, queue>>
        /\ UNCHANGED <<cpc, at, open, conn, wire, shown, garbled, errors>>
    BY <2>1 DEF server, listen, client
  <2>3. Types'
    BY <2>2 DEF IInv, Types, TypeOK
  <2>4. Descriptors'
    BY <2>2 DEF IInv, Descriptors, SocketPcs, Connection, Floor, Holds
  <2>. QED  BY <2>2, <2>3, <2>4 DEF IInv, Served, Connection, Opened, Waiting, Timely, Heard, Unserved, Before
<1>. QED  BY <1>1, <1>2, <1>3, <1>4, <1>5, <1>6, <1>7 DEF Next

\* So it always holds.
LEMMA Invariant == Spec => []IInv
BY Initially, Inductive, PTL DEF Spec

\* Every variable has its type; the loops stay inside their lists.
THEOREM TypeCorrect == Spec => []TypeOK
<1>1. IInv => TypeOK
  BY DEF IInv, Types
<1>. QED  BY <1>1, Invariant, PTL

\* However many of daemon_init()'s open("/dev/null"), socket(), bind() and
\* accept() fail, the server's sockets are the listening one and the connection
\* that is served, a client that reads has one, and the sockets are below
\* descriptor 3 by no more than the opens of /dev/null that failed.
THEOREM FdsKnown == Spec => []FdsExact
<1>1. ASSUME IInv PROVE FdsExact
  <2>. USE DaytimeAssumption
  <2>1. Types /\ Descriptors /\ Opened
    BY <1>1 DEF IInv
  <2>2. Floor \in 0 .. 3 /\ Floor \in Fds /\ missed \in 0 .. 3
    BY <2>1 DEF Descriptors, Fds, Types, TypeOK
  <2>3. ASSUME NEW n \in Fds
        PROVE  /\ fd[n] = "socket" <=> (spc \in SocketPcs /\ n = Floor)
               /\ n < Floor \/ n # Floor + 1 => fd[n] \notin Clients
               /\ n = Floor + 1 /\ Connection => fd[n] \in Clients
               /\ ~Connection => fd[n] \notin Clients
    <3>1. n < Floor \/ n = Floor \/ n = Floor + 1 \/ n > Floor + 1
      BY <2>2, <2>3 DEF Fds
    <3>2. CASE spc = "exited"
      BY <2>1, <3>2 DEF Descriptors, SocketPcs, Connection
    <3>3. CASE Holds(n) /\ spc # "exited"
      <4>1. CASE n < Floor
        BY <2>2, <3>3, <4>1 DEF Holds
      <4>2. CASE n = Floor
        BY <2>2, <3>3, <4>2 DEF Holds
      <4>3. CASE n = Floor + 1
        BY <2>2, <3>3, <4>3 DEF Holds
      <4>4. CASE n > Floor + 1
        BY <2>2, <3>3, <4>4 DEF Holds
      <4>. QED  BY <3>1, <4>1, <4>2, <4>3, <4>4
    <3>. QED  BY <2>1, <3>2, <3>3 DEF Descriptors
  <2>4. {n \in Fds : fd[n] = "socket"} = IF spc \in SocketPcs THEN {listenfd} ELSE {}
    <3>1. spc \in SocketPcs => listenfd = Floor
      BY <2>1 DEF Descriptors
    <3>. QED  BY <2>2, <2>3, <3>1
  <2>5. {n \in Fds : fd[n] \in Clients} = IF Connection THEN {connfd} ELSE {}
    <3>1. Connection => connfd = Floor + 1 /\ connfd \in Fds
      BY <2>1, <2>2 DEF Descriptors, Fds
    <3>. QED  BY <2>3, <3>1
  <2>6. ASSUME NEW n \in Fds, n + missed < 3 PROVE fd[n] \in {"none", "tty", "null"}
    <3>1. CASE spc \in {"exited"}
      BY <2>1, <3>1 DEF Descriptors
    <3>2. CASE spc \in {"null1", "null2", "null3"}
      <4>1. Holds(n) /\ spc \notin SocketPcs /\ ~Connection
        BY <2>1, <3>2 DEF Descriptors, SocketPcs, Connection
      <4>2. n < Floor \/ n = Floor \/ n = Floor + 1 \/ n > Floor + 1
        BY <2>2, <2>6 DEF Fds
      <4>. QED  BY <4>1, <4>2 DEF Holds
    <3>3. CASE spc \notin {"exited", "null1", "null2", "null3"}
      <4>1. Floor = 3 - missed /\ Holds(n)
        BY <2>1, <3>3 DEF Descriptors, Floor
      <4>2. n < Floor
        BY <2>2, <2>6, <4>1 DEF Fds
      <4>. QED  BY <4>1, <4>2 DEF Holds
    <3>. QED  BY <3>1, <3>2, <3>3
  <2>. QED  BY <2>1, <2>4, <2>5, <2>6 DEF FdsExact, Opened, SocketPcs, Connection
<1>. QED  BY <1>1, Invariant, PTL

\* However read() splits the time, a client shows all of it or has lost the
\* server: what TimeShown says besides that the client ends.
THEOREM ShownWhole == Spec => [](\A c \in Clients : TimeWhole(c))
<1>1. IInv => \A c \in Clients : TimeWhole(c)
  BY DEF IInv, Timely, TimeWhole
<1>. QED  BY <1>1, Invariant, PTL

-----------------------------------------------------------------------------
(* A client does not pass over an address on which the server listens.      *)

\* Failures are counted, and a server that listens does so until it ends.
LEMMA ListensOn ==
  ASSUME IInv, [Next]_vars
  PROVE  /\ errors' \in {errors, errors + 1} /\ (spc = "exited" => spc' = "exited")
         /\ listening => spc' = "exited" \/ (listening' = listening /\ bound' = bound)
<1>1. Types /\ Heard
  BY DEF IInv
<1>2. CASE Setup
  <2>1. ASSUME NEW from, NEW to, Fork(from, to), from # "exited"
        PROVE  /\ errors' \in {errors, errors + 1} /\ spc # "exited"
               /\ listening' = listening /\ bound' = bound
    BY <2>1 DEF Fork, Fail, listen
  <2>2. CASE CloseAll \/ OpenNull \/ Listen
    BY <1>1, <2>2 DEF CloseAll, OpenNull, Listen, Fail, listen, Heard
  <2>3. CASE Resolve \/ Socket \/ Bind
    BY <1>1, <2>3 DEF Resolve, Socket, Bind, NextLocal, Ended, Fail, Heard
  <2>. QED  BY <1>2, <2>1, <2>2, <2>3 DEF Setup
<1>3. CASE Loop \/ AcceptFails
  BY <1>3 DEF Loop, Accept, AcceptInvalid, Write, Close, AcceptFails, Fail, listen
<1>4. CASE Die
  BY <1>4 DEF Die, Ended
<1>5. ASSUME NEW c \in Clients, Start(c) \/ Trying(c) \/ Reading(c) \/ Kill(c)
      PROVE  errors' \in {errors, errors + 1} /\ UNCHANGED server
  BY <1>5 DEF Start, Trying, TryOwn, TryLib, Connected, Refused, NoSocket, Reading, Read,
              ReadEof, ReadError, Kill, Fail
<1>6. CASE UNCHANGED vars
  BY <1>6 DEF vars, server, listen
<1>. QED  BY <1>2, <1>3, <1>4, <1>5, <1>6 DEF Next, server, listen

\* A client stays where it is while others take a step.
LEMMA Others ==
  ASSUME IInv, [Next]_vars, NEW c \in Clients
  PROVE  \/ cpc'[c] = cpc[c] /\ at'[c] = at[c]
         \/ Start(c) \/ Trying(c) \/ Reading(c) \/ Kill(c)
<1>1. cpc \in [Clients -> {"out", "try", "read", "done", "failed", "crashed", "killed"}]
      /\ at \in [Clients -> Nat]
  BY DEF IInv, Types, TypeOK
<1>2. CASE Setup
  BY <1>2 DEF Setup, Fork, CloseAll, OpenNull, Resolve, Socket, Bind, Listen, client
<1>3. CASE Loop \/ AcceptFails \/ Die
  BY <1>3 DEF Loop, Accept, AcceptInvalid, Write, Close, AcceptFails, Die, client
<1>4. ASSUME NEW x \in Clients, x # c, Start(x) \/ Trying(x) \/ Reading(x) \/ Kill(x)
      PROVE  cpc'[c] = cpc[c] /\ at'[c] = at[c]
  BY <1>1, <1>4 DEF Start, Trying, TryOwn, TryLib, Connected, Refused, NoSocket, NextRemote, Reading,
                    Read, ReadEof, ReadError, Kill, Left
<1>5. CASE UNCHANGED vars
  BY <1>5 DEF vars, client
<1>. QED  BY <1>2, <1>3, <1>4, <1>5 DEF Next

\* The server listens on the k-th of its addresses, and client c, once e calls
\* had failed, has not come past it.
InReach(c, e, k) ==
  /\ errors = e /\ Serves(Remotes[c][k])
  /\ \/ cpc[c] = "out"
     \/ cpc[c] = "try" /\ at[c] <= k
     \/ cpc[c] \in {"read", "done", "crashed", "killed"}
Safe(c, e) == spc = "exited" \/ errors > e \/ \E k \in DOMAIN Remotes[c] : InReach(c, e, k)

\* As long as nothing fails, no step takes the client past that address.
LEMMA SafeStep ==
  ASSUME IInv, [Next]_vars, NEW c \in Clients, NEW e \in 0 .. MaxErrors, Safe(c, e)
  PROVE  Safe(c, e)'
<1>. USE DaytimeAssumption
<1>1. Types /\ Opened
  BY DEF IInv
<1>2. errors \in Nat /\ errors' \in {errors, errors + 1} /\ (spc = "exited" => spc' = "exited")
  BY <1>1, ListensOn DEF Types, TypeOK
<1>3. CASE spc = "exited" \/ errors > e
  BY <1>2, <1>3 DEF Safe
<1>4. ASSUME spc # "exited", ~(errors > e), spc' # "exited", ~(errors' > e)
      PROVE  Safe(c, e)'
  <2>1. PICK k \in DOMAIN Remotes[c] : InReach(c, e, k)
    BY <1>4 DEF Safe
  <2>2. errors = e /\ errors' = e /\ errors' = errors
    BY <1>2, <1>4, <2>1 DEF InReach
  <2>3. listening /\ listening' = listening /\ bound' = bound
    BY <1>4, <2>1, ListensOn DEF InReach, Serves
  <2>4. Serves(Remotes[c][k]) /\ Serves(Remotes[c][k])'
    BY <2>1, <2>3 DEF InReach, Serves
  <2>5. cpc'[c] = "out" \/ (cpc'[c] = "try" /\ at'[c] <= k)
        \/ cpc'[c] \in {"read", "done", "crashed", "killed"}
    <3>1. CASE cpc'[c] = cpc[c] /\ at'[c] = at[c]
      BY <2>1, <3>1 DEF InReach
    <3>2. CASE Start(c)
      <4>1. cpc[c] = "out" /\ cpc' = [cpc EXCEPT ![c] = "try"] /\ at' = at
        BY <1>1, <2>2, <3>2 DEF Start, Fail, Types, TypeOK
      <4>2. cpc'[c] = "try" /\ at'[c] = 1
        BY <1>1, <4>1 DEF Types, TypeOK, Opened
      <4>3. 1 <= k
        BY <2>1
      <4>. QED  BY <4>2, <4>3
    <3>3. CASE Trying(c)
      <4>1. cpc[c] = "try" /\ at[c] <= k
        BY <2>1, <3>3 DEF InReach, Trying, TryOwn, TryLib
      <4>2. CASE Connected(c)
        BY <1>1, <4>2 DEF Connected, Types, TypeOK
      <4>3. CASE Refused(c)
        <5>1. /\ at'[c] = at[c] + 1 /\ cpc'[c] = IF NoMore(c) THEN "failed" ELSE "try"
              /\ at[c] # k
          BY <1>1, <2>4, <4>3 DEF Refused, NextRemote, Types, TypeOK
        <5>2. k <= Len(Remotes[c]) /\ at[c] \in Nat /\ k \in Nat /\ Len(Remotes[c]) \in Nat
          BY <1>1, <2>1 DEF Types
        <5>3. at'[c] <= k /\ ~NoMore(c)
          BY <4>1, <5>1, <5>2 DEF NoMore
        <5>. QED  BY <5>1, <5>3
      <4>4. CASE NoSocket(c)
        BY <1>1, <2>2, <4>4 DEF NoSocket, Fail, Types, TypeOK
      <4>. QED  BY <3>3, <4>2, <4>3, <4>4 DEF Trying, TryOwn, TryLib
    <3>4. CASE Reading(c) \/ Kill(c)
      BY <1>1, <3>4, <2>1 DEF Reading, Read, GoesOn, ReadEof, ReadError, Kill, Left, Types, TypeOK, InReach
    <3>. QED  BY <3>1, <3>2, <3>3, <3>4, Others
  <2>. QED  BY <2>2, <2>4, <2>5 DEF Safe, InReach
<1>. QED  BY <1>2, <1>3, <1>4 DEF Safe

\* A client that starts when the server listens on one of its addresses fails
\* only after the server has ended or another call has failed.
THEOREM Connects == Spec => NonePassedOver
<1>. SUFFICES ASSUME NEW c \in Clients, NEW e \in 0 .. MaxErrors
              PROVE  Spec => [](cpc[c] = "out" /\ Reachable(c) /\ errors = e =>
                                  [](cpc[c] = "failed" => spc = "exited" \/ errors > e))
  BY DEF NonePassedOver
<1>1. cpc[c] = "out" /\ Reachable(c) /\ errors = e => Safe(c, e)
  BY DEF Reachable, Safe, InReach
<1>2. IInv /\ Safe(c, e) /\ [Next]_vars => Safe(c, e)'
  BY SafeStep
<1>3. Safe(c, e) => (cpc[c] = "failed" => spc = "exited" \/ errors > e)
  BY DEF Safe, InReach
<1>. QED  BY <1>1, <1>2, <1>3, Invariant, PTL DEF Spec

-----------------------------------------------------------------------------
(***************************************************************************)
(* Queries. Five of the programs ask in a loop: what they have printed     *)
(* matches what they were given, and is about the questions before next    *)
(* (Asked); the address of the interface waits in the union until the      *)
(* second question has been asked. The others are sent messages: those     *)
(* printed, and then those that wait, are numbered without a gap (Posted). *)
(***************************************************************************)
Loops == {"checkopts", "buffers", "interface", "arp", "route"}

Names(P)  == {P[i].name : i \in 1 .. Len(P)}
Valued(P) == {i \in 1 .. Len(P) : P[i].value = P[i].name}

\* What a line about the question q may say: nothing, the answer, or, if q is
\* among the lost, what is not the answer.
May(q, lost) == {v \in Int : v \in {0, q} \/ (q \in lost /\ v = -q)}
Gain(G, q, v) == IF v = q THEN G \cup {q} ELSE G

\* The lines P about the answers G.
Matches(G, P, lost) ==
  /\ \A i, j \in 1 .. Len(P) : i # j => P[i].name # P[j].name
  /\ \A i \in 1 .. Len(P) : P[i].value \in May(P[i].name, lost)
  /\ G = {P[i].name : i \in Valued(P)}

Lost == IF asker = "route" /\ gone THEN Nat ELSE {}
Asked ==
  asker \in Loops =>
    IF asker = "interface" /\ next = 2
    THEN printed = <<>> /\ given = {1} /\ buf["addr"] = 1 /\ step # "close"
    ELSE /\ Matches(given, printed, Lost)
         /\ Names(printed) \subseteq 1 .. (IF step = "close" THEN next ELSE next - 1)
         /\ step = "close" => asker = "checkopts"
         /\ asker = "interface" /\ next = 1 => printed = <<>> /\ given = {}

Posted ==
  asker \in {"listen", "dump"} =>
    /\ given = 1 .. Len(printed) + Len(inbox) /\ inbox \in Seq([n : Nat, own : BOOLEAN])
    /\ \A i \in 1 .. Len(printed) : printed[i].name = i /\ printed[i].value \in {i, -i}
    /\ \A i \in 1 .. Len(printed) : printed[i].value = i \/ (asker = "dump" /\ posts > 0)
    /\ \A i \in 1 .. Len(inbox) : inbox[i].n = Len(printed) + i
    /\ asker = "dump" => \A i \in 1 .. Len(inbox) : inbox[i].own \/ posts > 0

Sockets ==
  /\ step \in {"socket", "done"} => \A k \in Kinds : opened[k] = 0
  /\ asker = "checkopts" => /\ \A k \in Kinds \ {"tcp"} : opened[k] = 0
                            /\ opened["tcp"] = 1 => sockfd = "tcp"
  /\ asker \notin {"checkopts", "buffers"} => \A k \in Kinds \ {"kernel"} : opened[k] = 0

QTypes == QueriesTypeOK /\ next >= 1
QInv   == QTypes /\ Asked /\ Posted /\ Sockets

Lines == Seq([name : Nat, value : Int])

-----------------------------------------------------------------------------
(* A line more.                                                            *)

LineMore(P, q, v, R) ==
  /\ Len(P) \in Nat /\ Len(R) = Len(P) + 1
  /\ R[Len(P) + 1].name = q /\ R[Len(P) + 1].value = v
  /\ \A i \in 1 .. Len(P) : R[i] = P[i]
  /\ \A i \in 1 .. Len(R) : i \in 1 .. Len(P) \/ i = Len(P) + 1

\* What a program prints is added after what it has printed.
LEMMA Printed ==
  ASSUME NEW P \in Lines, NEW q \in Nat, NEW v \in Int, NEW R, R = P \o Line(q, v)
  PROVE  R \in Lines /\ LineMore(P, q, v, R)
<1>. DEFINE x == [name |-> q, value |-> v]
<1>1. x \in [name : Nat, value : Int] /\ Line(q, v) = <<x>>
  BY DEF Line
<1>2. R = Append(P, x)
  BY <1>1, AppendIsConcat DEF Lines
<1>3. /\ R \in Lines /\ Len(R) = Len(P) + 1 /\ R[Len(P) + 1] = x
      /\ \A i \in 1 .. Len(P) : R[i] = P[i]
  BY <1>1, <1>2, AppendProperties DEF Lines
<1>4. Len(P) \in Nat
  BY LenProperties DEF Lines
<1>. HIDE DEF x
<1>5. \A i \in 1 .. Len(R) : i \in 1 .. Len(P) \/ i = Len(P) + 1
  BY <1>3, <1>4
<1>. QED  BY <1>3, <1>4, <1>5 DEF x, LineMore

\* A line about a question that no earlier line is about.
Fits(P, G, lost, q, v, R) ==
  /\ P \in Lines /\ Matches(G, P, lost)
  /\ q \in Nat \ {0} /\ q \notin Names(P) /\ v \in May(q, lost) /\ R = P \o Line(q, v)
LEMMA Adds ==
  ASSUME NEW P, NEW G, NEW lost, NEW q, NEW v, NEW R, Fits(P, G, lost, q, v, R)
  PROVE  /\ R \in Lines /\ Names(R) = Names(P) \cup {q}
         /\ Matches(Gain(G, q, v), R, lost)
<1>. P \in Lines /\ Matches(G, P, lost) /\ q \in Nat \ {0} /\ q \notin Names(P)
  BY DEF Fits
<1>. v \in May(q, lost) /\ R = P \o Line(q, v)
  BY DEF Fits
<1>1. /\ R \in Lines /\ Len(P) \in Nat /\ Len(R) = Len(P) + 1
      /\ R[Len(P) + 1].name = q /\ R[Len(P) + 1].value = v
      /\ \A i \in 1 .. Len(P) : R[i] = P[i]
      /\ \A i \in 1 .. Len(R) : i \in 1 .. Len(P) \/ i = Len(P) + 1
  <2>1. q \in Nat /\ v \in Int
    BY DEF May
  <2>2. R \in Lines /\ LineMore(P, q, v, R)
    BY <2>1, Printed
  <2>. QED  BY <2>2 DEF LineMore
<1>2. \A i \in 1 .. Len(P) : i \in 1 .. Len(R) /\ i # Len(P) + 1 /\ P[i].name # q
  BY <1>1 DEF Names
<1>3. Len(P) + 1 \in 1 .. Len(R)
  BY <1>1
<1>4. Names(R) = Names(P) \cup {q}
  BY <1>1, <1>2, <1>3 DEF Names
<1>5. \A i, j \in 1 .. Len(R) : i # j => R[i].name # R[j].name
  BY <1>1, <1>2 DEF Matches
<1>6. \A i \in 1 .. Len(R) : R[i].value \in May(R[i].name, lost)
  BY <1>1 DEF Matches
<1>7. Valued(R) = IF v = q THEN Valued(P) \cup {Len(P) + 1} ELSE Valued(P)
  BY <1>1, <1>2, <1>3 DEF Valued
<1>8. {R[i].name : i \in Valued(R)} = Gain(G, q, v)
  <2>1. \A i \in Valued(P) : R[i] = P[i]
    BY <1>1 DEF Valued
  <2>2. G = {P[i].name : i \in Valued(P)}
    BY DEF Matches
  <2>3. CASE v # q
    BY <1>7, <2>1, <2>2, <2>3 DEF Gain
  <2>4. CASE v = q
    <3>1. Valued(R) = Valued(P) \cup {Len(P) + 1}
      BY <1>7, <2>4
    <3>2. R[Len(P) + 1].name = q
      BY <1>1
    <3>3. {R[i].name : i \in Valued(R)} = {P[i].name : i \in Valued(P)} \cup {q}
      <4>1. ASSUME NEW y, y \in {R[i].name : i \in Valued(R)}
            PROVE  y \in {P[i].name : i \in Valued(P)} \cup {q}
        BY <2>1, <3>1, <3>2, <4>1
      <4>2. \A i \in Valued(P) : P[i].name \in {R[j].name : j \in Valued(R)}
        BY <2>1, <3>1
      <4>3. q \in {R[j].name : j \in Valued(R)}
        BY <3>1, <3>2
      <4>. QED  BY <4>1, <4>2, <4>3
    <3>. QED  BY <2>2, <2>4, <3>3 DEF Gain
  <2>. QED  BY <2>3, <2>4
<1>. QED  BY <1>1, <1>4, <1>5, <1>6, <1>8 DEF Matches

\* More names may be lost.
LEMMA MatchesMore ==
  ASSUME NEW P, NEW G, NEW l, NEW m, Matches(G, P, l), l \subseteq m
  PROVE  Matches(G, P, m)
BY DEF Matches, May

\* Its value is the answer.
LEMMA AddsOwn ==
  ASSUME NEW P \in Lines, NEW G, NEW lost, Matches(G, P, lost), NEW q \in Nat \ {0}, q \notin Names(P),
         NEW R, R = P \o Line(q, q)
  PROVE  R \in Lines /\ Names(R) = Names(P) \cup {q} /\ Matches(G \cup {q}, R, lost)
<1>1. q \in May(q, lost)
  BY DEF May
<1>2. /\ R \in Lines /\ Names(R) = Names(P) \cup {q}
      /\ Matches(Gain(G, q, q), R, lost)
  <2>1. Fits(P, G, lost, q, q, R)
    BY <1>1 DEF Fits
  <2>. QED  BY <2>1, Adds
<1>3. Gain(G, q, q) = G \cup {q}
  BY DEF Gain
<1>. QED  BY <1>2, <1>3

\* The first line, which has a number k, and the second.
LEMMA AddsFirst ==
  ASSUME NEW lost, NEW k, k \in Nat \ {0}, NEW R, R = <<>> \o Line(k, k)
  PROVE  R \in Lines /\ Names(R) = {k} /\ Matches({k}, R, lost)
<1>1. Len(<<>>) = 0 /\ <<>> \in Lines /\ Names(<<>>) = {} /\ Valued(<<>>) = {}
  BY EmptySeq DEF Lines, Names, Valued
<1>2. Matches({}, <<>>, lost)
  BY <1>1 DEF Matches
<1>3. PICK G, P : G = {} /\ P = <<>> /\ P \in Lines /\ Matches(G, P, lost) /\ Names(P) = {} /\ R = P \o Line(k, k)
  BY <1>1, <1>2
<1>4. k \notin Names(P) /\ k \in Nat \ {0}
  BY <1>3
<1>5. R \in Lines /\ Names(R) = Names(P) \cup {k} /\ Matches(G \cup {k}, R, lost)
  BY <1>3, <1>4, AddsOwn
<1>6. Names(P) \cup {k} = {k} /\ G \cup {k} = {k}
  BY <1>3
<1>. QED  BY <1>5, <1>6

\* Both lines that the second question of an interface is followed by.
LEMMA AddsSecond ==
  ASSUME NEW lost, NEW j, j \in Nat \ {0}, NEW k, k \in Nat \ {0}, j # k,
         NEW R, R = (<<>> \o Line(j, j)) \o Line(k, k)
  PROVE  R \in Lines /\ Names(R) = {j, k} /\ Matches({j, k}, R, lost)
<1>1. PICK P, G : P = <<>> \o Line(j, j) /\ R = P \o Line(k, k) /\ G = {j}
  OBVIOUS
<1>2. P \in Lines /\ Names(P) = {j} /\ Matches(G, P, lost)
  BY <1>1, AddsFirst
<1>3. k \notin Names(P)
  BY <1>2
<1>4. R \in Lines /\ Names(R) = Names(P) \cup {k} /\ Matches(G \cup {k}, R, lost)
  BY <1>1, <1>2, <1>3, AddsOwn
<1>5. Names(P) \cup {k} = {j, k} /\ G \cup {k} = {j, k}
  BY <1>1, <1>2
<1>. QED  BY <1>4, <1>5

\* A line is printed about the question, with or without the answer.
Says(v) ==
  /\ v \in May(next, Lost)
  /\ printed' = printed \o Line(next, v) /\ given' = Gain(given, next, v)

LEMMA SaysNone ==
  ASSUME next \in Nat \ {0}, printed' = printed \o Line(next, 0), given' = given
  PROVE  Says(0)
BY DEF Says, May, Gain

LEMMA SaysOwn ==
  ASSUME next \in Nat \ {0}, printed' = printed \o Line(next, next), given' = given \cup {next}
  PROVE  Says(next)
BY DEF Says, May, Gain

\* A program in a loop prints it, and goes on to the next question or to close().
LEMMA AskedOn ==
  ASSUME QTypes, Asked, asker \in Loops, asker' = asker, gone' = gone, NEW v, Says(v),
         ~(asker = "interface" /\ next \in {1, 2}), step # "close",
         \/ next' = next + 1 /\ step' # "close"
         \/ next' = next /\ step' = "close" /\ asker = "checkopts"
  PROVE  printed' \in Lines /\ given' \subseteq Nat /\ next' \in Nat /\ next' >= 1 /\ Asked'
<1>1. /\ printed \in Lines /\ given \subseteq Nat /\ next \in Nat \ {0}
      /\ Matches(given, printed, Lost) /\ Names(printed) \subseteq 1 .. next - 1
  BY DEF QTypes, QueriesTypeOK, Asked, Lines
<1>2. next \notin Names(printed)
  BY <1>1
<1>3. /\ printed' \in Lines /\ Names(printed') = Names(printed) \cup {next}
      /\ Matches(given', printed', Lost)
  <2>1. PICK P, G, R, q, l :
          /\ P = printed /\ G = given /\ R = printed' /\ q = next /\ l = Lost
    OBVIOUS
  <2>2. Fits(P, G, l, q, v, R)
    BY <1>1, <1>2, <2>1 DEF Says, Fits
  <2>3. R \in Lines /\ Names(R) = Names(P) \cup {q} /\ Matches(Gain(G, q, v), R, l)
    BY ONLY <2>2, Adds
  <2>4. given' = Gain(G, q, v)
    BY <2>1 DEF Says
  <2>. QED  BY <2>1, <2>3, <2>4
<1>4. next' \in Nat /\ next' >= 1 /\ ~(asker' = "interface" /\ next' \in {1, 2})
  BY <1>1
<1>5. Names(printed') \subseteq 1 .. (IF step' = "close" THEN next' ELSE next' - 1)
  BY <1>1, <1>3
<1>6. Lost' = Lost
  BY DEF Lost
<1>7. Matches(given', printed', Lost')
  BY <1>3, <1>6
<1>8. given' \subseteq Nat
  BY <1>1 DEF Says, Gain
<1>. QED  BY <1>3, <1>4, <1>5, <1>7, <1>8 DEF Asked

\* A program that adds no line and asks no new question.
LEMMA AskedKept ==
  ASSUME QTypes, Asked, UNCHANGED <<asker, printed, given, buf>>, gone => gone',
         step' # "close",
         next' = IF step = "close" THEN next + 1 ELSE next
  PROVE  printed' \in Lines /\ given' \subseteq Nat /\ next' \in Nat /\ next' >= 1 /\ Asked'
<1>1. printed \in Lines /\ given \subseteq Nat /\ next \in Nat \ {0}
  BY DEF QTypes, QueriesTypeOK, Lines
<1>4. Matches(given, printed, Lost) => Matches(given', printed', Lost')
  <2>1. Lost \subseteq Lost'
    BY DEF Lost
  <2>. QED  BY <2>1, MatchesMore
<1>2. CASE asker \in Loops /\ step = "close"
  BY <1>1, <1>2, <1>4 DEF Asked
<1>3. CASE asker \in Loops /\ step # "close"
  BY <1>1, <1>3, <1>4 DEF Asked
<1>. QED  BY <1>1, <1>2, <1>3 DEF Asked

\* A question passed over.
LEMMA AskedPast ==
  ASSUME QTypes, Asked, UNCHANGED <<asker, printed, given, gone>>,
         asker \in {"interface", "arp", "route"},
         asker = "interface" => next \notin {1, 2}, step' # "close", next' = next + 1
  PROVE  printed' \in Lines /\ given' \subseteq Nat /\ next' \in Nat /\ next' >= 1 /\ Asked'
<1>1. printed \in Lines /\ given \subseteq Nat /\ next \in Nat \ {0}
  BY DEF QTypes, QueriesTypeOK, Lines
<1>2. Matches(given, printed, Lost) /\ Names(printed) \subseteq 1 .. next - 1
  BY <1>1 DEF Asked, Loops
<1>3. Names(printed) \subseteq 1 .. next' - 1
  BY <1>1, <1>2
<1>4. Matches(given', printed', Lost')
  <2>1. Lost' = Lost
    BY DEF Lost
  <2>. QED  BY <1>2, <2>1
<1>. QED  BY <1>1, <1>2, <1>3, <1>4 DEF Asked

\* The other variables keep their types where a step refuses at most one question.
Rest ==
  /\ asker \in Programs /\ sockfd \in Kinds \cup {"none"} /\ buf \in [Parts -> Nat]
  /\ gone \in BOOLEAN /\ refused \in 0 .. MaxRefused /\ posts \in 0 .. MaxPosts
  /\ step \in {"socket", "ask", "close", "read", "done"}

\* The types after a step, put together.
LEMMA Whole ==
  ASSUME Rest', printed' \in Lines, given' \subseteq Nat, next' \in Nat, next' >= 1,
         opened' \in [Kinds -> {0, 1}], Sockets'
  PROVE  QTypes'
<1>1. opened' \in [Kinds -> IF step' = "done" THEN {0} ELSE {0, 1}]
  BY DEF Sockets
<1>. QED  BY <1>1 DEF Rest, QTypes, QueriesTypeOK, Lines

\* The types before it.
LEMMA Parted ==
  ASSUME QTypes
  PROVE  /\ Rest /\ printed \in Lines /\ given \subseteq Nat /\ next \in Nat \ {0}
         /\ opened \in [Kinds -> {0, 1}]
BY DEF QTypes, QueriesTypeOK, Rest, Lines

\* The bound on refusals is kept.
LEMMA RefusedOne ==
  ASSUME Rest, MayRefuse \/ UNCHANGED refused
  PROVE  refused' \in 0 .. MaxRefused
BY QueriesAssumption DEF Rest, MayRefuse

-----------------------------------------------------------------------------
(* ch7.                                                                    *)

\* checkopts.c.
LEMMA OptStep ==
  ASSUME QInv, OptSocket \/ OptAsk \/ OptClose
  PROVE  QInv'
<1>1. /\ QTypes /\ Asked /\ Sockets /\ Rest /\ printed \in Lines /\ given \subseteq Nat
      /\ next \in Nat \ {0} /\ opened \in [Kinds -> {0, 1}]
  BY Parted DEF QInv
<1>2. /\ asker = "checkopts" /\ asker' = asker /\ asker \in Loops
      /\ UNCHANGED <<inbox, gone, posts>>
  BY DEF OptSocket, OptAsk, OptClose, Loops
<1>3. Posted'
  BY <1>2 DEF Posted
<1>4. CASE OptSocket
  <2>1. step = "socket" /\ UNCHANGED <<buf, given>>
    BY <1>4 DEF OptSocket
  <2>2. CASE /\ printed' = printed \o Line(next, 0) /\ Forward("socket")
             /\ UNCHANGED <<sockfd, opened, refused>>
    <3>1. next' = next + 1 /\ step' \in {"socket", "done"}
      BY <2>2 DEF Forward
    <3>4. Says(0)
      BY <1>1, <2>1, <2>2, SaysNone
    <3>2. printed' \in Lines /\ given' \subseteq Nat /\ next' \in Nat /\ next' >= 1 /\ Asked'
      BY <1>1, <1>2, <2>1, <3>1, <3>4, AskedOn
    <3>3. Sockets' /\ Rest' /\ opened' \in [Kinds -> {0, 1}]
      BY <1>1, <1>2, <2>1, <2>2, <3>1 DEF Sockets, Rest
    <3>. QED  BY <1>3, <3>2, <3>3, Whole DEF QInv
  <2>3. CASE /\ SockOpts[next] \in {"SOCKET", "IP", "TCP"} /\ step' = "ask"
             /\ \/ /\ sockfd' = "tcp" /\ opened' = [opened EXCEPT !.tcp = @ + 1] /\ UNCHANGED refused
                \/ MayRefuse /\ sockfd' = "none" /\ UNCHANGED opened
             /\ UNCHANGED <<next, printed>>
    <3>1. printed' \in Lines /\ given' \subseteq Nat /\ next' \in Nat /\ next' >= 1 /\ Asked'
      BY <1>1, <1>2, <2>1, <2>3, AskedKept
    <3>2. Sockets' /\ opened' \in [Kinds -> {0, 1}]
      <4>1. "tcp" \in Kinds /\ opened["tcp"] = 0
        BY <1>1, <2>1 DEF Sockets, Kinds
      <4>. QED  BY <1>1, <1>2, <2>1, <2>3, <4>1 DEF Sockets
    <3>3. Rest'
      BY <1>1, <1>2, <2>1, <2>3, RefusedOne DEF Rest, Kinds
    <3>. QED  BY <1>3, <3>1, <3>2, <3>3, Whole DEF QInv
  <2>4. CASE /\ step' = "ask" /\ UNCHANGED <<next, printed, sockfd, opened, refused>>
    <3>1. printed' \in Lines /\ given' \subseteq Nat /\ next' \in Nat /\ next' >= 1 /\ Asked'
      BY <1>1, <1>2, <2>1, <2>4, AskedKept
    <3>2. Sockets' /\ Rest' /\ opened' \in [Kinds -> {0, 1}]
      BY <1>1, <1>2, <2>1, <2>4 DEF Sockets, Rest
    <3>. QED  BY <1>3, <3>1, <3>2, Whole DEF QInv
  <2>. QED  BY <1>4, <2>2, <2>3, <2>4 DEF OptSocket
<1>5. CASE OptAsk
  <2>1. /\ step = "ask" /\ step' = "close" /\ UNCHANGED <<next, sockfd, opened>>
        /\ refused' \in 0 .. MaxRefused
    BY <1>1, <1>5, RefusedOne DEF OptAsk
  <2>2. \/ /\ given' = given \cup {next} /\ buf' = Filled(next, Parts)
           /\ printed' = printed \o Line(next, buf'["head"])
        \/ printed' = printed \o Line(next, 0) /\ UNCHANGED <<given, buf>>
    BY <1>5 DEF OptAsk
  <2>3. buf' \in [Parts -> Nat]
    BY <1>1, <2>2 DEF Rest, Filled
  <2>4. Says(0) \/ Says(next)
    <3>1. CASE /\ given' = given \cup {next} /\ buf' = Filled(next, Parts)
               /\ printed' = printed \o Line(next, buf'["head"])
      <4>1. buf'["head"] = next
        BY <3>1 DEF Filled, Parts
      <4>. QED  BY <1>1, <3>1, <4>1, SaysOwn
    <3>2. CASE printed' = printed \o Line(next, 0) /\ given' = given
      BY <1>1, <3>2, SaysNone
    <3>. QED  BY <2>2, <3>1, <3>2
  <2>5. printed' \in Lines /\ given' \subseteq Nat /\ next' \in Nat /\ next' >= 1 /\ Asked'
    BY <1>1, <1>2, <2>1, <2>4, AskedOn
  <2>6. Sockets' /\ Rest' /\ opened' \in [Kinds -> {0, 1}]
    BY <1>1, <1>2, <2>1, <2>3 DEF Sockets, Rest
  <2>. QED  BY <1>3, <2>5, <2>6, Whole DEF QInv
<1>6. CASE OptClose
  <2>1. /\ step = "close" /\ step' \in {"socket", "done"} /\ next' = next + 1
        /\ opened' = [opened EXCEPT !["tcp"] = IF sockfd = "tcp" /\ @ > 0 THEN @ - 1 ELSE @]
        /\ UNCHANGED <<sockfd, buf, printed, given, refused>>
    BY <1>6 DEF OptClose, Forward, Hung
  <2>2. printed' \in Lines /\ given' \subseteq Nat /\ next' \in Nat /\ next' >= 1 /\ Asked'
    BY <1>1, <1>2, <2>1, AskedKept
  <2>3. opened'["tcp"] = 0 /\ \A k \in Kinds \ {"tcp"} : opened'[k] = 0
    <3>1. "tcp" \in Kinds /\ opened["tcp"] \in {0, 1} /\ (opened["tcp"] = 1 => sockfd = "tcp")
      BY <1>1, <1>2 DEF Sockets, Kinds
    <3>. QED  BY <1>1, <1>2, <2>1, <3>1 DEF Sockets
  <2>4. Sockets' /\ Rest' /\ opened' \in [Kinds -> {0, 1}]
    BY <1>1, <1>2, <2>1, <2>3 DEF Sockets, Rest
  <2>. QED  BY <1>3, <2>2, <2>4, Whole DEF QInv
<1>. QED  BY <1>4, <1>5, <1>6

\* TL_buffer_size.c.
LEMMA BufStep ==
  ASSUME QInv, BufOpen \/ BufAsk
  PROVE  QInv'
<1>1. /\ QTypes /\ Asked /\ Sockets /\ Rest /\ printed \in Lines /\ given \subseteq Nat
      /\ next \in Nat \ {0} /\ opened \in [Kinds -> {0, 1}]
  BY Parted DEF QInv
<1>2. /\ asker = "buffers" /\ asker' = asker /\ asker \in Loops
      /\ UNCHANGED <<sockfd, buf, inbox, gone, posts>>
  BY DEF BufOpen, BufAsk, Loops
<1>3. Posted'
  BY <1>2 DEF Posted
<1>4. CASE BufOpen
  <2>1. PICK S \in SUBSET {"tcp", "udp", "sctp"} :
          /\ opened' = [k \in Kinds |-> IF k \in S THEN 1 ELSE 0]
          /\ refused' = refused + 3 - Cardinality(S) /\ refused' <= MaxRefused
    BY <1>4 DEF BufOpen
  <2>2. step' = "ask" /\ step = "socket" /\ UNCHANGED <<next, printed, given>>
    BY <1>4 DEF BufOpen
  <2>3. Cardinality(S) \in 0 .. 3
    <3>. DEFINE A == {"tcp"} \cup {"udp"}
                B == A \cup {"sctp"}
    <3>1. IsFiniteSet(A) /\ Cardinality(A) = 2
      <4>1. IsFiniteSet({"tcp"}) /\ Cardinality({"tcp"}) = 1 /\ "udp" \notin {"tcp"}
        BY FS_Singleton
      <4>. QED  BY <4>1, FS_AddElement
    <3>2. IsFiniteSet(B) /\ Cardinality(B) <= 3
      BY <3>1, FS_AddElement
    <3>3. S \in SUBSET B
      OBVIOUS
    <3>4. IsFiniteSet(S) /\ Cardinality(S) <= Cardinality(B)
      BY <3>2, <3>3, FS_Subset
    <3>. HIDE DEF B
    <3>. QED  BY <3>2, <3>4, FS_CardinalityType
  <2>4. refused' \in 0 .. MaxRefused
    BY <1>1, <2>1, <2>3, QueriesAssumption DEF Rest
  <2>5. printed' \in Lines /\ given' \subseteq Nat /\ next' \in Nat /\ next' >= 1 /\ Asked'
    BY <1>1, <1>2, <2>2, AskedKept
  <2>6. Sockets' /\ Rest' /\ opened' \in [Kinds -> {0, 1}]
    BY <1>1, <1>2, <2>1, <2>2, <2>4 DEF Sockets, Rest
  <2>. QED  BY <1>3, <2>5, <2>6, Whole DEF QInv
<1>5. CASE BufAsk
  <2>1. /\ step = "ask" /\ next' = next + 1 /\ step' = IF next = Last(asker) THEN "done" ELSE "ask"
        /\ opened' = IF next = Last(asker) THEN [k \in Kinds |-> 0] ELSE opened
        /\ refused' \in 0 .. MaxRefused
    BY <1>1, <1>5, RefusedOne DEF BufAsk, Forward
  <2>2. Says(0) \/ Says(next)
    <3>1. CASE printed' = printed \o Line(next, next) /\ given' = given \cup {next}
      BY <1>1, <3>1, SaysOwn
    <3>2. CASE printed' = printed \o Line(next, 0) /\ given' = given
      BY <1>1, <3>2, SaysNone
    <3>. QED  BY <1>5, <3>1, <3>2 DEF BufAsk
  <2>3. printed' \in Lines /\ given' \subseteq Nat /\ next' \in Nat /\ next' >= 1 /\ Asked'
    BY <1>1, <1>2, <2>1, <2>2, AskedOn
  <2>4. Sockets' /\ Rest' /\ opened' \in [Kinds -> {0, 1}]
    BY <1>1, <1>2, <2>1 DEF Sockets, Rest
  <2>. QED  BY <1>3, <2>3, <2>4, Whole DEF QInv
<1>. QED  BY <1>4, <1>5

\* The descriptor of a program of ch17, ch18 or ch19.
LEMMA OpensStep ==
  ASSUME QInv, Opens
  PROVE  QInv'
<1>1. /\ QTypes /\ Asked /\ Sockets /\ Rest /\ printed \in Lines /\ given \subseteq Nat
      /\ next \in Nat \ {0} /\ opened \in [Kinds -> {0, 1}]
  BY Parted DEF QInv
<1>2. /\ asker \in {"interface", "arp", "route", "listen", "dump"} /\ step = "socket"
      /\ UNCHANGED <<asker, next, buf, inbox, printed, given, gone, posts>>
      /\ \/ step' = "ask" /\ sockfd' = "kernel" /\ opened' = [opened EXCEPT !["kernel"] = 1]
         \/ step' = "done" /\ UNCHANGED <<sockfd, opened>>
      /\ refused' \in 0 .. MaxRefused
  BY <1>1, RefusedOne DEF Opens
<1>3. Posted'
  BY <1>2 DEF QInv, Posted
<1>4. printed' \in Lines /\ given' \subseteq Nat /\ next' \in Nat /\ next' >= 1 /\ Asked'
  BY <1>1, <1>2, AskedKept
<1>5. Sockets' /\ Rest' /\ opened' \in [Kinds -> {0, 1}]
  BY <1>1, <1>2 DEF Sockets, Rest, Kinds
<1>. QED  BY <1>3, <1>4, <1>5, Whole DEF QInv

-----------------------------------------------------------------------------
(* ch17.                                                                   *)

\* The socket of a program that may end here.
LEMMA ShutStep ==
  ASSUME Sockets, opened \in [Kinds -> {0, 1}], asker \notin {"checkopts", "buffers"}, asker' = asker,
         step' # "socket", Shut
  PROVE  Sockets' /\ opened' \in [Kinds -> {0, 1}]
<1>1. opened' = IF step' = "done" THEN [opened EXCEPT !["kernel"] = 0] ELSE opened
  BY DEF Shut
<1>. QED  BY <1>1 DEF Sockets

\* One ioctl() of interface.c: the address is kept in the union until the second.
LEMMA IfrStep ==
  ASSUME QInv, IfrAsk
  PROVE  QInv'
<1>1. /\ QTypes /\ Asked /\ Sockets /\ Rest /\ printed \in Lines /\ given \subseteq Nat
      /\ next \in Nat \ {0} /\ opened \in [Kinds -> {0, 1}]
  BY Parted DEF QInv
<1>2. /\ asker = "interface" /\ asker' = asker /\ asker \in Loops /\ step = "ask" /\ Shut
      /\ UNCHANGED <<sockfd, inbox, gone, posts>>
      /\ refused' \in 0 .. MaxRefused
  BY <1>1, RefusedOne DEF IfrAsk, Loops
<1>3. Posted'
  BY <1>2 DEF Posted
<1>4. /\ step' \in {"ask", "done"} /\ next' \in {next, next + 1}
      /\ (next' = next /\ step' = "done") \/ next' = next + 1
  BY DEF IfrAsk, Forward
<1>5. Sockets' /\ opened' \in [Kinds -> {0, 1}]
  BY <1>1, <1>2, <1>4, ShutStep
<1>6. buf' = buf \/ buf' = Filled(next, Fills(next))
  BY DEF IfrAsk
<1>7. Rest'
  <2>1. buf' \in [Parts -> Nat]
    BY <1>1, <1>6 DEF Rest, Filled
  <2>. QED  BY <1>1, <1>2, <1>4, <2>1 DEF Rest
<1>8. /\ Ioctls.ADDR = 1 /\ Ioctls.INDEX = 2 /\ Ioctls.NETMASK = 3 /\ Ioctls.BRDADDR = 4
      /\ Ioctls.HWADDR = 5
  BY DEF Ioctls
<1>9. /\ next = 1 => OwnLine(next) = <<>>
      /\ next # 1 => OwnLine(next) = Line(next, buf'[Field(next)])
      /\ next # 2 => IpLine(next) = <<>>
      /\ next = 2 => IpLine(next) = Line(1, buf'["addr"])
      /\ Field(next) \in Fills(next) /\ Field(next) \in Parts
  BY <1>8 DEF OwnLine, IpLine, IpAfter, Field, Fills, Addresses, Parts
<1>10. printed \o <<>> = printed
  BY <1>1, ConcatEmptySeq DEF Lines
<1>11. CASE /\ given' = given \cup {next} /\ buf' = Filled(next, Fills(next)) /\ Forward("ask")
            /\ printed' = printed \o OwnLine(next) \o IpLine(next)
  <2>1. next' = next + 1 /\ step' # "close"
    BY <1>4, <1>11 DEF Forward
  <2>2. buf'[Field(next)] = next
    BY <1>9, <1>11 DEF Filled
  <2>3. CASE next = 1
    <3>1. printed = <<>> /\ given = {}
      BY <1>1, <1>2, <2>3 DEF Asked
    <3>2. printed' = <<>> /\ given' = {1}
      BY <1>9, <1>10, <1>11, <2>3, <3>1
    <3>3. buf'["addr"] = 1
      BY <1>8, <2>2, <2>3 DEF Field, Addresses
    <3>4. Asked'
      BY <1>2, <2>1, <2>3, <3>2, <3>3 DEF Asked
    <3>5. printed' \in Lines /\ given' \subseteq Nat /\ next' \in Nat /\ next' >= 1
      BY <2>1, <2>3, <3>2, EmptySeq DEF Lines
    <3>6. QTypes'
      BY <1>5, <1>7, <3>5, Whole
    <3>. QED  BY <1>3, <1>5, <3>4, <3>6 DEF QInv
  <2>4. CASE next = 2
    <3>1. printed = <<>> /\ given = {1} /\ buf["addr"] = 1
      BY <1>1, <1>2, <2>4 DEF Asked
    <3>2. buf'["addr"] = 1 /\ Field(next) = "head"
      BY <1>1, <1>8, <1>11, <2>4, <3>1 DEF Filled, Fills, Addresses, Field, Rest, Parts
    <3>3. given' = {2, 1}
      BY <1>11, <2>4, <3>1
    <3>4. OwnLine(next) = Line(2, 2) /\ IpLine(next) = Line(1, 1)
      BY <1>9, <2>2, <2>4, <3>2
    <3>5. printed' = (<<>> \o Line(2, 2)) \o Line(1, 1)
      BY <1>11, <3>1, <3>4
    <3>6. /\ printed' = (<<>> \o Line(2, 2)) \o Line(1, 1)
          /\ given' = {2, 1} /\ 2 \in Nat \ {0} /\ 1 \in Nat \ {0} /\ 2 # 1
      BY <3>3, <3>5
    <3>7. printed' \in Lines /\ Names(printed') = {2, 1} /\ Matches({2, 1}, printed', Lost')
      BY <3>6, AddsSecond DEF Lost
    <3>8. next' = 3
      BY <2>1, <2>4
    <3>9. Matches(given', printed', Lost') /\ Names(printed') \subseteq 1 .. next' - 1
      BY <3>6, <3>7, <3>8
    <3>10. Asked'
      BY <1>2, <2>1, <3>8, <3>9 DEF Asked
    <3>11. given' \subseteq Nat /\ next' \in Nat /\ next' >= 1
      BY <3>6, <3>8
    <3>. QED  BY <1>3, <1>5, <1>7, <3>7, <3>10, <3>11, Whole DEF QInv
  <2>5. CASE next \notin {1, 2}
    <3>1. printed' = (printed \o Line(next, next)) \o <<>>
      BY <1>9, <1>11, <2>2, <2>5
    <3>2. printed \o Line(next, next) \in Lines
      <4>1. next \in Nat /\ next \in Int
        BY <1>1
      <4>. QED  BY <1>1, <4>1, Printed
    <3>3. printed' = printed \o Line(next, next)
      BY <3>1, <3>2, ConcatEmptySeq DEF Lines
    <3>4. printed' \in Lines /\ given' \subseteq Nat /\ next' \in Nat /\ next' >= 1 /\ Asked'
      <4>1. Says(next)
        BY <1>1, <1>11, <3>3, SaysOwn
      <4>. QED  BY <1>1, <1>2, <1>11, <2>1, <2>5, <4>1, AskedOn
    <3>. QED  BY <1>3, <1>5, <1>7, <3>4, Whole DEF QInv
  <2>. QED  BY <2>3, <2>4, <2>5
<1>12. CASE /\ UNCHANGED <<given, buf>>
            /\ IF next = Ioctls.ADDR THEN step' = "done" /\ UNCHANGED next ELSE Forward("ask")
            /\ printed' = printed \o IpLine(next)
  <2>1. CASE next = 1
    <3>1. printed' = printed /\ next' = next /\ step' = "done"
      <4>1. next = Ioctls.ADDR
        BY <1>8, <2>1
      <4>2. IpLine(next) = <<>>
        BY <1>9, <2>1
      <4>. QED  BY <1>10, <1>12, <4>1, <4>2
    <3>2. printed' \in Lines /\ given' \subseteq Nat /\ next' \in Nat /\ next' >= 1 /\ Asked'
      BY <1>1, <1>2, <1>12, <3>1, AskedKept
    <3>. QED  BY <1>3, <1>5, <1>7, <3>2, Whole DEF QInv
  <2>2. CASE next = 2
    <3>1. printed = <<>> /\ given = {1} /\ buf["addr"] = 1
      BY <1>1, <1>2, <2>2 DEF Asked
    <3>2. next' = 3 /\ given' = {1} /\ printed' = <<>> \o Line(1, 1)
      BY <1>4, <1>8, <1>9, <1>12, <2>2, <3>1 DEF Forward
    <3>3. 1 \in Nat \ {0}
      OBVIOUS
    <3>5. printed' \in Lines /\ Names(printed') = {1} /\ Matches({1}, printed', Lost')
      BY <3>2, <3>3, AddsFirst DEF Lost
    <3>7. Matches(given', printed', Lost') /\ Names(printed') \subseteq 1 .. next' - 1
      BY <3>2, <3>5
    <3>8. Asked'
      BY <1>2, <1>4, <3>2, <3>7 DEF Asked
    <3>9. given' \subseteq Nat /\ next' \in Nat /\ next' >= 1
      BY <3>2
    <3>. QED  BY <1>3, <1>5, <1>7, <3>5, <3>8, <3>9, Whole DEF QInv
  <2>3. CASE next \notin {1, 2}
    <3>1. printed' = printed /\ next' = next + 1
      BY <1>8, <1>9, <1>10, <1>12, <2>3 DEF Forward
    <3>2. printed' \in Lines /\ given' \subseteq Nat /\ next' \in Nat /\ next' >= 1 /\ Asked'
      BY <1>1, <1>2, <1>4, <1>12, <2>3, <3>1, AskedPast
    <3>. QED  BY <1>3, <1>5, <1>7, <3>2, Whole DEF QInv
  <2>. QED  BY <2>1, <2>2, <2>3
<1>. QED  BY <1>11, <1>12 DEF IfrAsk

\* One turn of getARP.c's loop.
LEMMA ArpStep ==
  ASSUME QInv, ArpAsk
  PROVE  QInv'
<1>1. /\ QTypes /\ Asked /\ Sockets /\ Rest /\ printed \in Lines /\ given \subseteq Nat
      /\ next \in Nat \ {0} /\ opened \in [Kinds -> {0, 1}]
  BY Parted DEF QInv
<1>2. /\ asker = "arp" /\ asker' = asker /\ asker \in Loops /\ step = "ask" /\ Shut
      /\ UNCHANGED <<sockfd, inbox, gone, posts>>
      /\ refused' \in 0 .. MaxRefused /\ next' = next + 1 /\ step' \in {"ask", "done"}
  BY <1>1, RefusedOne DEF ArpAsk, Loops, Forward
<1>3. Posted'
  BY <1>2 DEF Posted
<1>4. Sockets' /\ opened' \in [Kinds -> {0, 1}]
  BY <1>1, <1>2, ShutStep
<1>5. Rest'
  <2>1. buf' \in [Parts -> Nat]
    BY <1>1 DEF ArpAsk, Rest, Filled
  <2>. QED  BY <1>1, <1>2, <2>1 DEF Rest
<1>6. CASE UNCHANGED <<given, printed>>
  <2>1. printed' \in Lines /\ given' \subseteq Nat /\ next' \in Nat /\ next' >= 1 /\ Asked'
    BY <1>1, <1>2, <1>6, AskedPast
  <2>. QED  BY <1>3, <1>4, <1>5, <2>1, Whole DEF QInv
<1>7. ASSUME NEW v, Says(v)
      PROVE  QInv'
  <2>1. printed' \in Lines /\ given' \subseteq Nat /\ next' \in Nat /\ next' >= 1 /\ Asked'
    BY <1>1, <1>2, <1>7, AskedOn
  <2>. QED  BY <1>3, <1>4, <1>5, <2>1, Whole DEF QInv
<1>8. CASE given' = given \cup {next} /\ buf' = Filled(next, Parts) /\ printed' = printed \o Line(next, buf'["addr"])
  <2>1. buf'["addr"] = next
    BY <1>8 DEF Filled, Parts
  <2>2. Says(next)
    BY <1>1, <1>8, <2>1, SaysOwn
  <2>. QED  BY <1>7, <2>2
<1>9. CASE printed' = printed \o Line(next, 0) /\ given' = given
  <2>1. Says(0)
    BY <1>1, <1>9, SaysNone
  <2>. QED  BY <1>7, <2>1
<1>. QED  BY <1>6, <1>8, <1>9 DEF ArpAsk

\* The route, attribute by attribute.
LEMMA RouteStep ==
  ASSUME QInv, RouteAsk \/ RouteGone \/ RouteWalk
  PROVE  QInv'
<1>1. /\ QTypes /\ Asked /\ Sockets /\ Rest /\ printed \in Lines /\ given \subseteq Nat
      /\ next \in Nat \ {0} /\ opened \in [Kinds -> {0, 1}]
  BY Parted DEF QInv
<1>2. /\ asker = "route" /\ asker' = asker /\ asker \in Loops /\ UNCHANGED <<sockfd, buf, posts>>
      /\ refused' \in 0 .. MaxRefused /\ gone' \in BOOLEAN /\ (gone => gone')
  <2>1. refused \in 0 .. MaxRefused /\ gone \in BOOLEAN
    BY <1>1 DEF Rest
  <2>. QED  BY <1>1, <2>1, RefusedOne DEF RouteAsk, RouteGone, RouteWalk, Loops
<1>3. Posted'
  BY <1>2 DEF Posted
<1>4. /\ step' = step \/ step' \in {"read", "done"}
      /\ Sockets' /\ opened' \in [Kinds -> {0, 1}]
  <2>1. CASE RouteGone
    BY <1>1, <1>2, <2>1 DEF RouteGone, Sockets
  <2>2. CASE RouteAsk \/ RouteWalk
    <3>1. Shut /\ step' \in {"read", "done"}
      BY <2>2 DEF RouteAsk, RouteWalk
    <3>. QED  BY <1>1, <1>2, <3>1, ShutStep
  <2>. QED  BY <2>1, <2>2
<1>5. Rest'
  BY <1>1, <1>2, <1>4 DEF Rest
<1>6. step # "close" /\ step' # "close"
  BY <1>1, <1>2, <1>4 DEF Asked
<1>7. CASE UNCHANGED <<next, printed, given>>
  <2>1. printed' \in Lines /\ given' \subseteq Nat /\ next' \in Nat /\ next' >= 1 /\ Asked'
    BY <1>1, <1>2, <1>6, <1>7, AskedKept
  <2>. QED  BY <1>3, <1>4, <1>5, <2>1, Whole DEF QInv
<1>8. CASE next' = next + 1 /\ UNCHANGED <<printed, given, gone>>
  <2>1. printed' \in Lines /\ given' \subseteq Nat /\ next' \in Nat /\ next' >= 1 /\ Asked'
    BY <1>1, <1>2, <1>6, <1>8, AskedPast
  <2>. QED  BY <1>3, <1>4, <1>5, <2>1, Whole DEF QInv
<1>9. ASSUME next' = next + 1, gone' = gone, NEW v, Says(v)
      PROVE  QInv'
  <2>1. printed' \in Lines /\ given' \subseteq Nat /\ next' \in Nat /\ next' >= 1 /\ Asked'
    BY <1>1, <1>2, <1>6, <1>9, AskedOn
  <2>. QED  BY <1>3, <1>4, <1>5, <2>1, Whole DEF QInv
<1>10. CASE /\ next' = next + 1 /\ gone' = gone /\ gone
            /\ printed' = printed \o Line(next, -next) /\ given' = given
  <2>1. -next \in Int /\ -next # next
    BY <1>1
  <2>2. -next \in May(next, Lost) /\ given' = Gain(given, next, -next)
    BY <1>1, <1>2, <1>10, <2>1 DEF May, Lost, Gain
  <2>3. Says(-next)
    BY <1>10, <2>1, <2>2 DEF Says
  <2>. QED  BY <1>9, <1>10, <2>3
<1>11. CASE /\ next' = next + 1 /\ gone' = gone
            /\ printed' = printed \o Line(next, next) /\ given' = given \cup {next}
  <2>1. Says(next)
    BY <1>1, <1>11, SaysOwn
  <2>. QED  BY <1>9, <1>11, <2>1
<1>. QED  BY <1>7, <1>8, <1>10, <1>11 DEF RouteAsk, RouteGone, RouteWalk

-----------------------------------------------------------------------------
(* ch19.                                                                   *)

Listens == asker \in {"listen", "dump"}

\* The kernel numbers what it sends.
LEMMA ToldStep ==
  ASSUME Posted, Listens, Rest, Rest', printed \in Lines, UNCHANGED <<asker, printed>>, posts' >= posts,
         NEW own \in Seq(BOOLEAN), Told(own),
         asker = "dump" => \A i \in 1 .. Len(own) : own[i] \/ posts' > 0
  PROVE  given' \subseteq Nat /\ Posted'
<1>. DEFINE n == Len(printed) + Len(inbox)
            sent == [i \in 1 .. Len(own) |-> [n |-> n + i, own |-> own[i]]]
            M == [n : Nat, own : BOOLEAN]
<1>1. /\ given = 1 .. n /\ inbox \in Seq(M)
      /\ \A i \in 1 .. Len(printed) : printed[i].name = i /\ printed[i].value \in {i, -i}
      /\ \A i \in 1 .. Len(printed) : printed[i].value = i \/ (asker = "dump" /\ posts > 0)
      /\ \A i \in 1 .. Len(inbox) : inbox[i].n = Len(printed) + i
      /\ asker = "dump" => \A i \in 1 .. Len(inbox) : inbox[i].own \/ posts > 0
  BY DEF Posted, Listens
<1>2. Len(printed) \in Nat /\ Len(inbox) \in Nat /\ n \in Nat /\ Len(own) \in Nat
      /\ DOMAIN own = 1 .. Len(own)
  BY <1>1, LenProperties DEF Lines
<1>3. Cardinality(given) = n
  <2>. HIDE DEF n
  <2>0. 1 \in Int /\ n \in Int
    BY <1>2
  <2>1. Cardinality(1 .. n) = IF 1 > n THEN 0 ELSE n - 1 + 1
    BY <2>0, FS_Interval
  <2>. QED  BY <1>1, <1>2, <2>1
<1>4. inbox' = inbox \o sent /\ given' = 1 .. n + Len(own)
  <2>1. inbox' = inbox \o sent /\ given' = given \cup (n + 1 .. n + Len(own))
    BY <1>2, <1>3 DEF Told
  <2>. QED  BY <1>1, <1>2, <2>1
<1>5. sent \in Seq(M) /\ Len(sent) = Len(own)
  <2>1. \A i \in 1 .. Len(own) : [n |-> n + i, own |-> own[i]] \in M
    BY <1>2, ElementOfSeq
  <2>2. sent \in Seq(M)
    BY <1>2, <2>1, IsASeq
  <2>. QED  BY <1>2, <2>2, LenProperties
<1>. HIDE DEF n
<1>6. \A i \in 1 .. Len(own) : sent[i].n = n + i /\ sent[i].own = own[i]
  OBVIOUS
<1>. HIDE DEF sent, M
<1>7. /\ inbox' \in Seq(M) /\ Len(inbox') = Len(inbox) + Len(own)
      /\ \A i \in 1 .. Len(inbox) + Len(own) :
           inbox'[i] = IF i <= Len(inbox) THEN inbox[i] ELSE sent[i - Len(inbox)]
  <2>1. /\ inbox \o sent \in Seq(M) /\ Len(inbox \o sent) = Len(inbox) + Len(sent)
        /\ \A i \in 1 .. Len(inbox) + Len(sent) :
             (inbox \o sent)[i] = IF i <= Len(inbox) THEN inbox[i] ELSE sent[i - Len(inbox)]
    BY <1>1, <1>5, ConcatProperties
  <2>. QED  BY <1>4, <1>5, <2>1
<1>8. n = Len(printed) + Len(inbox)
  BY DEF n
<1>9. ASSUME NEW i \in 1 .. Len(inbox')
      PROVE  /\ inbox'[i].n = Len(printed) + i
             /\ asker = "dump" => inbox'[i].own \/ posts' > 0
  <2>0. posts \in Nat /\ posts' \in Nat
    BY DEF Rest
  <2>1. CASE i <= Len(inbox)
    <3>1. i \in 1 .. Len(inbox) /\ inbox'[i] = inbox[i]
      BY <1>2, <1>7, <2>1
    <3>. QED  BY <1>1, <2>0, <3>1
  <2>2. CASE ~(i <= Len(inbox))
    <3>1. PICK j \in 1 .. Len(own) : i = Len(inbox) + j /\ inbox'[i] = sent[j]
      <4>1. i - Len(inbox) \in 1 .. Len(own)
        BY <1>2, <1>7, <2>2
      <4>2. i = Len(inbox) + (i - Len(inbox)) /\ inbox'[i] = sent[i - Len(inbox)]
        BY <1>2, <1>7, <2>2
      <4>. QED  BY <4>1, <4>2
    <3>2. inbox'[i].n = n + j /\ inbox'[i].own = own[j]
      BY <1>6, <3>1
    <3>3. n + j = Len(printed) + i
      BY <1>2, <1>8, <3>1
    <3>. QED  BY <3>2, <3>3
  <2>. QED  BY <2>1, <2>2
<1>10. given' = 1 .. Len(printed') + Len(inbox')
  BY <1>2, <1>4, <1>7, <1>8
<1>11. posts > 0 => posts' > 0
  BY DEF Rest
<1>12. Posted'
  BY <1>1, <1>7, <1>9, <1>10, <1>11 DEF Posted, M
<1>. QED  BY <1>2, <1>4, <1>12

\* Its first message is printed.
LEMMA HeadPrinted ==
  ASSUME Posted, Listens, printed \in Lines, inbox # <<>>, inbox' = Tail(inbox),
         UNCHANGED <<asker, given, posts>>, NEW v, v \in {Head(inbox).n, -Head(inbox).n},
         v = Head(inbox).n \/ (asker = "dump" /\ posts > 0),
         printed' = printed \o Line(Head(inbox).n, v)
  PROVE  printed' \in Lines /\ Posted'
<1>. DEFINE k == Head(inbox).n
            M == [n : Nat, own : BOOLEAN]
<1>1. /\ given = 1 .. Len(printed) + Len(inbox) /\ inbox \in Seq(M)
      /\ \A i \in 1 .. Len(printed) : printed[i].name = i /\ printed[i].value \in {i, -i}
      /\ \A i \in 1 .. Len(printed) : printed[i].value = i \/ (asker = "dump" /\ posts > 0)
      /\ \A i \in 1 .. Len(inbox) : inbox[i].n = Len(printed) + i
      /\ asker = "dump" => \A i \in 1 .. Len(inbox) : inbox[i].own \/ posts > 0
  BY DEF Posted, Listens
<1>2. /\ Len(inbox) \in Nat \ {0} /\ Len(printed) \in Nat /\ Head(inbox) = inbox[1]
      /\ inbox' \in Seq(M) /\ Len(inbox') = Len(inbox) - 1
      /\ \A i \in 1 .. Len(inbox') : inbox'[i] = inbox[i + 1] /\ i + 1 \in 1 .. Len(inbox)
  <2>1. Len(inbox) \in Nat /\ Len(printed) \in Nat /\ Len(inbox) # 0
    BY <1>1, LenProperties, EmptySeq DEF Lines
  <2>2. Head(inbox) = inbox[1]
    OBVIOUS
  <2>. QED  BY <1>1, <2>1, <2>2, HeadTailProperties
<1>3. k = Len(printed) + 1 /\ k \in Nat \ {0}
  BY <1>1, <1>2
<1>4. v \in Int /\ v \in {k, -k} /\ (v = k \/ (asker = "dump" /\ posts > 0))
  BY <1>3
<1>. HIDE DEF k, M
<1>5. /\ printed' \in Lines /\ LineMore(printed, k, v, printed')
  BY <1>3, <1>4, Printed DEF k
<1>6. Len(printed') = Len(printed) + 1
  BY <1>5 DEF LineMore
<1>7. ASSUME NEW i \in 1 .. Len(printed')
      PROVE  /\ printed'[i].name = i /\ printed'[i].value \in {i, -i}
             /\ printed'[i].value = i \/ (asker = "dump" /\ posts > 0)
  BY <1>1, <1>3, <1>4, <1>5, <1>7 DEF LineMore
<1>8. \A i \in 1 .. Len(inbox') : inbox'[i].n = Len(printed') + i
  <2>1. ASSUME NEW i \in 1 .. Len(inbox') PROVE inbox'[i].n = Len(printed') + i
    <3>1. inbox'[i].n = Len(printed) + (i + 1)
      BY <1>1, <1>2
    <3>. QED  BY <1>2, <1>6, <3>1
  <2>. QED  BY <2>1
<1>9. given' = 1 .. Len(printed') + Len(inbox')
  <2>1. \A a, b \in Nat : (a + 1) + (b - 1) = a + b
    OBVIOUS
  <2>2. Len(printed') + Len(inbox') = (Len(printed) + 1) + (Len(inbox) - 1)
    BY ONLY <1>2, <1>6
  <2>3. Len(printed') + Len(inbox') = Len(printed) + Len(inbox)
    BY ONLY <1>2, <2>1, <2>2
  <2>. QED  BY <1>1, <2>3
<1>10. asker = "dump" => \A i \in 1 .. Len(inbox') : inbox'[i].own \/ posts > 0
  BY <1>1, <1>2
<1>. QED  BY <1>2, <1>5, <1>7, <1>8, <1>9, <1>10 DEF Posted, M

\* dump_pfkey.c and key.c.
LEMMA KeyStep ==
  ASSUME QInv, KeyPost \/ KeyRegister \/ KeyDump \/ KeyRead \/ KeyReadFirst
  PROVE  QInv'
<1>. USE QueriesAssumption
<1>1. /\ QTypes /\ Asked /\ Posted /\ Sockets /\ Rest /\ printed \in Lines /\ given \subseteq Nat
      /\ next \in Nat \ {0} /\ opened \in [Kinds -> {0, 1}]
  BY Parted DEF QInv
<1>2. /\ Listens /\ asker \notin Loops /\ asker' = asker /\ asker \notin {"checkopts", "buffers"}
      /\ UNCHANGED <<sockfd, buf, gone>>
  BY DEF KeyPost, KeyRegister, KeyDump, KeyRead, KeyReadFirst, Listens, Loops
<1>3. Asked'
  BY <1>2 DEF Asked
<1>4. /\ refused' \in 0 .. MaxRefused /\ posts' \in 0 .. MaxPosts /\ posts' >= posts
      /\ next' \in Nat /\ next' >= 1 /\ step \in {"ask", "read"}
      /\ step' = step \/ step' \in {"ask", "read", "done"}
  <2>1. refused \in 0 .. MaxRefused /\ posts \in 0 .. MaxPosts
    BY <1>1 DEF Rest
  <2>2. MayRefuse \/ UNCHANGED refused
    BY DEF KeyPost, KeyRegister, KeyDump, KeyRead, KeyReadFirst
  <2>3. refused' \in 0 .. MaxRefused
    BY <1>1, <2>2, RefusedOne
  <2>4. posts' \in 0 .. MaxPosts /\ posts' >= posts
    BY <2>1 DEF KeyPost, KeyRegister, KeyDump, KeyRead, KeyReadFirst
  <2>5. next' \in Nat /\ next' >= 1
    BY <1>1 DEF KeyPost, KeyRegister, KeyDump, KeyRead, KeyReadFirst
  <2>. QED  BY <2>3, <2>4, <2>5 DEF KeyPost, KeyRegister, KeyDump, KeyRead, KeyReadFirst
<1>5. Rest'
  BY <1>1, <1>2, <1>4 DEF Rest
<1>6. Sockets' /\ opened' \in [Kinds -> {0, 1}]
  <2>1. Shut \/ (UNCHANGED opened /\ step' \in {"ask", "read"})
    BY <1>4 DEF KeyPost, KeyRegister, KeyDump, KeyRead, KeyReadFirst
  <2>2. CASE Shut
    BY <1>1, <1>2, <1>4, <2>2, ShutStep
  <2>3. CASE UNCHANGED opened /\ step' \in {"ask", "read"}
    BY <1>1, <1>2, <2>3 DEF Sockets
  <2>. QED  BY <2>1, <2>2, <2>3
<1>7. ASSUME printed' \in Lines, given' \subseteq Nat, Posted' PROVE QInv'
  BY <1>3, <1>4, <1>5, <1>6, <1>7, Whole DEF QInv
<1>8. CASE UNCHANGED <<printed, inbox, given>>
  <2>1. posts > 0 => posts' > 0
    BY <1>1, <1>4 DEF Rest
  <2>2. Posted'
    BY <1>1, <1>2, <1>8, <2>1 DEF Posted
  <2>. QED  BY <1>1, <1>7, <1>8, <2>2
<1>9. ASSUME NEW own \in Seq(BOOLEAN), Told(own), UNCHANGED printed,
             asker = "dump" => \A i \in 1 .. Len(own) : own[i] \/ posts' > 0
      PROVE  QInv'
  <2>1. given' \subseteq Nat /\ Posted'
    BY <1>1, <1>2, <1>4, <1>5, <1>9, ToldStep
  <2>. QED  BY <1>1, <1>7, <1>9, <2>1
<1>10. CASE KeyPost
  <2>1. <<FALSE>> \in Seq(BOOLEAN) /\ Told(<<FALSE>>) /\ posts' > 0 /\ UNCHANGED printed
    BY <1>1, <1>10 DEF KeyPost, Rest
  <2>. QED  BY <1>9, <2>1
<1>11. CASE KeyRegister
  <2>1. <<TRUE>> \in Seq(BOOLEAN) /\ asker # "dump" /\ UNCHANGED printed
    BY <1>11 DEF KeyRegister
  <2>. QED  BY <1>8, <1>9, <1>11, <2>1 DEF KeyRegister
<1>12. CASE KeyDump
  <2>1. ASSUME NEW k \in Keys, Told([i \in 1 .. IF k = 0 THEN 1 ELSE k |-> TRUE]), UNCHANGED printed
        PROVE  QInv'
    <3>. DEFINE own == [i \in 1 .. IF k = 0 THEN 1 ELSE k |-> TRUE]
    <3>1. (IF k = 0 THEN 1 ELSE k) \in Nat
      OBVIOUS
    <3>2. own \in Seq(BOOLEAN)
      BY <3>1, IsASeq
    <3>3. \A i \in 1 .. Len(own) : own[i]
      BY <3>2, LenProperties
    <3>. HIDE DEF own
    <3>. QED  BY <1>9, <2>1, <3>2, <3>3 DEF own
  <2>. QED  BY <1>8, <1>12, <2>1 DEF KeyDump
<1>13. CASE KeyRead
  <2>1. CASE UNCHANGED <<inbox, printed>>
    BY <1>8, <1>13, <2>1 DEF KeyRead
  <2>2. CASE /\ printed' = printed \o Line(Head(inbox).n, Head(inbox).n) /\ inbox' = Tail(inbox)
    <3>1. inbox # <<>> /\ UNCHANGED <<asker, given, posts>>
      BY <1>13 DEF KeyRead
    <3>2. printed' \in Lines /\ Posted'
      BY <1>1, <1>2, <2>2, <3>1, HeadPrinted
    <3>. QED  BY <1>1, <1>7, <3>1, <3>2
  <2>. QED  BY <1>13, <2>1, <2>2 DEF KeyRead
<1>14. CASE KeyReadFirst
  <2>1. CASE UNCHANGED <<inbox, printed>>
    BY <1>8, <1>14, <2>1 DEF KeyReadFirst
  <2>2. CASE /\ LET m == Head(inbox) IN printed' = printed \o Line(m.n, IF m.own THEN m.n ELSE -m.n)
             /\ inbox' = Tail(inbox)
    <3>. DEFINE v == IF Head(inbox).own THEN Head(inbox).n ELSE -Head(inbox).n
    <3>1. inbox # <<>> /\ UNCHANGED <<asker, given, posts>> /\ asker = "dump"
      BY <1>14 DEF KeyReadFirst
    <3>2. Head(inbox).own \/ posts > 0
      <4>1. inbox \in Seq([n : Nat, own : BOOLEAN]) /\ \A i \in 1 .. Len(inbox) : inbox[i].own \/ posts > 0
        BY <1>1, <3>1 DEF Posted
      <4>2. 1 \in 1 .. Len(inbox)
        BY <3>1, <4>1, EmptySeq, LenProperties
      <4>3. Head(inbox) = inbox[1]
        OBVIOUS
      <4>. QED  BY <4>1, <4>2, <4>3
    <3>3. v \in {Head(inbox).n, -Head(inbox).n} /\ (v = Head(inbox).n \/ (asker = "dump" /\ posts > 0))
      BY <3>1, <3>2
    <3>4. printed' = printed \o Line(Head(inbox).n, v) /\ inbox' = Tail(inbox)
      BY <2>2
    <3>. HIDE DEF v
    <3>5. printed' \in Lines /\ Posted'
      BY <1>1, <1>2, <3>1, <3>3, <3>4, HeadPrinted
    <3>. QED  BY <1>1, <1>7, <3>1, <3>5
  <2>. QED  BY <1>14, <2>1, <2>2 DEF KeyReadFirst
<1>. QED  BY <1>10, <1>11, <1>12, <1>13, <1>14

-----------------------------------------------------------------------------
(* The theorems about Queries.                                             *)

\* A program before it has asked.
LEMMA QueriesInitially == QueriesInit => QInv
<1>. SUFFICES ASSUME QueriesInit PROVE QInv
  OBVIOUS
<1>. USE QueriesAssumption
<1>1. printed = <<>> /\ inbox = <<>> /\ given = {} /\ Len(<<>>) = 0 /\ posts = 0 /\ next = 1
      /\ step = "socket"
  BY EmptySeq DEF QueriesInit
<1>2. QTypes
  <2>1. printed \in Seq([name : Nat, value : Int])
    BY <1>1, EmptySeq
  <2>2. opened \in [Kinds -> IF step = "done" THEN {0} ELSE {0, 1}] /\ buf \in [Parts -> Nat]
    BY <1>1 DEF QueriesInit
  <2>3. refused \in 0 .. MaxRefused /\ posts \in 0 .. MaxPosts /\ next \in Nat /\ next >= 1
    BY <1>1 DEF QueriesInit
  <2>4. asker \in Programs /\ sockfd \in Kinds \cup {"none"} /\ given \subseteq Nat /\ gone \in BOOLEAN
    BY DEF QueriesInit
  <2>. QED  BY <1>1, <2>1, <2>2, <2>3, <2>4 DEF QTypes, QueriesTypeOK
<1>3. Asked
  <2>1. Names(<<>>) = {} /\ Valued(<<>>) = {}
    BY <1>1 DEF Names, Valued
  <2>2. Matches({}, <<>>, Lost)
    BY <1>1, <2>1 DEF Matches
  <2>. QED  BY <1>1, <2>1, <2>2 DEF Asked
<1>4. Posted
  BY <1>1, EmptySeq DEF Posted
<1>5. Sockets
  <2>1. "tcp" \in Kinds /\ \A k \in Kinds : opened[k] = 0
    BY DEF QueriesInit, Kinds
  <2>. QED  BY <2>1 DEF Sockets
<1>. QED  BY <1>2, <1>3, <1>4, <1>5 DEF QInv

\* The invariant holds of every program.
LEMMA QueriesInvariant == QueriesSpec => []QInv
<1>1. QInv /\ [QueriesNext]_queries => QInv'
  <2>. SUFFICES ASSUME QInv, [QueriesNext]_queries PROVE QInv'
    OBVIOUS
  <2>1. CASE UNCHANGED queries
    BY <2>1 DEF queries, QInv, QTypes, QueriesTypeOK, Asked, Lost, Posted, Sockets
  <2>. QED  BY <2>1, OptStep, BufStep, OpensStep, IfrStep, ArpStep, RouteStep, KeyStep DEF QueriesNext
<1>. QED  BY <1>1, QueriesInitially, PTL DEF QueriesSpec

\* Every variable has its type; no program collects sockets, and none is left
\* when it ends.
THEOREM QueriesTypeCorrect == QueriesSpec => []QueriesTypeOK
<1>1. QInv => QueriesTypeOK
  BY DEF QInv, QTypes
<1>. QED  BY <1>1, QueriesInvariant, PTL

\* Whatever the kernel refuses, each value that a program prints under a name is
\* the kernel's answer to that question, once, and no answer is left out, but for
\* the three things that Truthful names: what getrt.c prints as the name of an
\* interface that is gone, the messages of others that key.c takes for its own,
\* and the messages that are not read.
THEOREM Honest == QueriesSpec => []Truthful
<1>1. ASSUME QInv PROVE Truthful
  <2>1. /\ QTypes /\ Asked /\ Posted /\ printed \in Lines
        /\ asker \in Loops \/ asker \in {"listen", "dump"}
    BY <1>1, Parted DEF QInv, Rest, Programs, Loops
  <2>2. DOMAIN printed = 1 .. Len(printed) /\ Len(printed) \in Nat
    BY <2>1, LenProperties DEF Lines
  <2>. DEFINE valued == {j \in DOMAIN printed :
                           printed[j].value = printed[j].name \/ Foreign(printed[j])}
  <2>3. CASE asker = "interface" /\ next = 2
    <3>1. printed = <<>> /\ given = {1} /\ Len(printed) = 0 /\ DOMAIN printed = {}
      BY <2>1, <2>2, <2>3, EmptySeq DEF Asked, Loops
    <3>2. Unprinted = {1}
      BY <2>3 DEF Unprinted, Ioctls
    <3>. QED  BY <3>1, <3>2 DEF Truthful
  <2>4. CASE asker \in Loops /\ ~(asker = "interface" /\ next = 2)
    <3>1. Matches(given, printed, Lost)
      BY <2>1, <2>4 DEF Asked
    <3>2. Unprinted = {} /\ \A i \in DOMAIN printed : ~Foreign(printed[i])
      BY <2>4 DEF Unprinted, Foreign, Loops
    <3>3. valued = Valued(printed)
      BY <2>2, <3>2 DEF Valued
    <3>4. \A i \in DOMAIN printed :
            printed[i].value \in {0, printed[i].name} \/ Unwritten(printed[i])
      <4>1. \A i \in 1 .. Len(printed) : printed[i].value \in May(printed[i].name, Lost)
        BY <3>1 DEF Matches
      <4>. QED  BY <2>2, <2>4, <4>1 DEF May, Lost, Unwritten
    <3>5. \A i, j \in DOMAIN printed : i # j => printed[i].name # printed[j].name
      BY <2>2, <3>1 DEF Matches
    <3>6. given = Unprinted \cup {printed[i].name : i \in valued}
      BY <3>1, <3>2, <3>3 DEF Matches
    <3>. HIDE DEF valued
    <3>. QED  BY <3>4, <3>5, <3>6 DEF Truthful, valued
  <2>5. CASE asker \in {"listen", "dump"}
    <3>1. /\ given = 1 .. Len(printed) + Len(inbox) /\ inbox \in Seq([n : Nat, own : BOOLEAN])
          /\ \A i \in 1 .. Len(printed) : printed[i].name = i
          /\ \A i \in 1 .. Len(printed) : printed[i].value = i \/ Foreign(printed[i])
          /\ \A i \in 1 .. Len(inbox) : inbox[i].n = Len(printed) + i
      <4>1. /\ \A i \in 1 .. Len(printed) : printed[i].name = i /\ printed[i].value \in {i, -i}
            /\ \A i \in 1 .. Len(printed) : printed[i].value = i \/ (asker = "dump" /\ posts > 0)
        BY <2>1, <2>5 DEF Posted
      <4>2. \A i \in 1 .. Len(printed) : printed[i].value = i \/ Foreign(printed[i])
        BY <4>1 DEF Foreign
      <4>. QED  BY <2>1, <2>5, <4>1, <4>2 DEF Posted
    <3>2. Unprinted = {inbox[i].n : i \in DOMAIN inbox}
      BY <2>5 DEF Unprinted
    <3>3. DOMAIN inbox = 1 .. Len(inbox) /\ Len(inbox) \in Nat
      BY <3>1, LenProperties
    <3>4. valued = 1 .. Len(printed)
      BY <2>2, <3>1
    <3>5. {printed[i].name : i \in valued} = 1 .. Len(printed)
      BY <3>1, <3>4
    <3>6. Unprinted = Len(printed) + 1 .. Len(printed) + Len(inbox)
      <4>1. ASSUME NEW k \in Len(printed) + 1 .. Len(printed) + Len(inbox)
            PROVE  k \in Unprinted
        <5>1. k - Len(printed) \in 1 .. Len(inbox) /\ k = Len(printed) + (k - Len(printed))
          BY <2>2, <3>3
        <5>2. inbox[k - Len(printed)].n = k
          BY <3>1, <5>1
        <5>. QED  BY <3>2, <3>3, <5>1, <5>2
      <4>2. ASSUME NEW i \in 1 .. Len(inbox)
            PROVE  inbox[i].n \in Len(printed) + 1 .. Len(printed) + Len(inbox)
        BY <2>2, <3>1, <3>3
      <4>. QED  BY <3>2, <3>3, <4>1, <4>2
    <3>7. given = Unprinted \cup {printed[i].name : i \in valued}
      BY <2>2, <3>1, <3>3, <3>5, <3>6
    <3>8. \A i \in DOMAIN printed :
            printed[i].value \in {0, printed[i].name} \/ Foreign(printed[i])
      BY <2>2, <3>1
    <3>9. \A i, j \in DOMAIN printed : i # j => printed[i].name # printed[j].name
      BY <2>2, <3>1
    <3>. HIDE DEF valued
    <3>. QED  BY <3>7, <3>8, <3>9 DEF Truthful, valued
  <2>. QED  BY <2>1, <2>3, <2>4, <2>5
<1>. QED  BY <1>1, QueriesInvariant, PTL

==============================================================================
