----------------------------- MODULE ForkServer -----------------------------
(***************************************************************************)
(* The servers that fork a child for every connection: ch5/server.c,       *)
(* ch15/unixstrserv01.c and ch4/server.c. The parent accepts, forks and    *)
(* closes its copy of the connection; the child inherits the parent's      *)
(* descriptors, serves until read() or the client says so, and exits. In   *)
(* ch5 and ch15 sig_chld() collects the children that have terminated;     *)
(* SIGCHLD is one pending bit, however many children it stands for, and    *)
(* sig_chld() may interrupt the parent between any two of its steps.       *)
(*                                                                         *)
(* The four Boolean constants say what distinguishes the three programs.   *)
(* The bytes that are echoed are left out.                                 *)
(*                                                                         *)
(* ReapOnce, EintrForks, ReadOnce and ParentKeeps are wrong variants of    *)
(* the operator that follows each, kept to see the properties notice them. *)
(***************************************************************************)
EXTENDS Naturals, Sequences, FiniteSets

CONSTANTS
  Conns,         \* the clients, each with one connection
  Kids,          \* process ids: the user's limit on child processes
  None,          \* descriptor -1, or no connection
  Listen,        \* the listening socket
  Main,          \* the parent
  ReapsChildren, \* sig_chld() is installed     (ch5, ch15)
  ChecksAccept,  \* a failed accept() ends main (ch5, ch15)
  EndsAtEof,     \* the child stops at the end of input or an error (ch5, ch15)
  KnowsExit,     \* the child stops at "exit"   (ch4, ch5)
  MaxErrors      \* bound: how many accept() calls fail

ASSUME ForkAssumption ==
  /\ {ReapsChildren, ChecksAccept, EndsAtEof, KnowsExit} \subseteq BOOLEAN
  /\ None \notin Conns \cup {Listen} /\ Listen \notin Conns /\ Main \notin Kids
  /\ MaxErrors \in Nat

VARIABLES
  pc,        \* main(): "accept", "fork", "close" or "exited"
  connfd,    \* client_fd, connfd
  pid,       \* what the last fork() returned to main: a child or None
  reaping,   \* main is inside sig_chld()
  sigchld,   \* SIGCHLD is pending
  kid,       \* the children
  conn,      \* the connection each child was forked for
  fds,       \* the descriptors open in each process
  queue,     \* completed connections that wait for accept()
  cli,       \* the clients
  errors

main   == <<pc, connfd, pid, reaping>>
vars   == <<main, sigchld, kid, conn, fds, queue, cli, errors>>

Procs == Kids \cup {Main}
Waiting == {queue[i] : i \in 1 .. Len(queue)}
Held(c) == \E p \in Procs : c \in fds[p]
Zombies == {k \in Kids : kid[k] = "zombie"}

Init ==
  /\ pc = "accept" /\ connfd = None /\ pid = None
  /\ reaping = FALSE /\ sigchld = FALSE
  /\ kid = [k \in Kids |-> "free"] /\ conn = [k \in Kids |-> None]
  /\ fds = [p \in Procs |-> IF p = Main THEN {Listen} ELSE {}]
  /\ queue = <<>> /\ cli = [c \in Conns |-> "idle"] /\ errors = 0
-----------------------------------------------------------------------------
(* The clients. Each connects, may say "exit", close or reset at any time, *)
(* and sees its connection end when no process has it open any more.       *)

Connect(c) ==
  /\ cli[c] = "idle" /\ Held(Listen)
  /\ cli' = [cli EXCEPT ![c] = "open"]
  /\ queue' = Append(queue, c)
  /\ UNCHANGED <<main, sigchld, kid, conn, fds, errors>>

Leave(c, how) ==
  /\ cli[c] = "open" /\ (how = "exit" => KnowsExit)
  /\ cli' = [cli EXCEPT ![c] = how]
  /\ UNCHANGED <<main, sigchld, kid, conn, fds, queue, errors>>

SeesClose(c) ==
  /\ cli[c] \in {"open", "exit"} /\ ~Held(c)
  /\ c \in Waiting => ~Held(Listen)
  /\ cli' = [cli EXCEPT ![c] = IF @ = "exit" THEN "done" ELSE "dropped"]
  /\ UNCHANGED <<main, sigchld, kid, conn, fds, queue, errors>>
-----------------------------------------------------------------------------
(* main(): runs only outside the signal handler.                           *)

Accept ==
  /\ pc = "accept" /\ ~reaping /\ queue # <<>>
  /\ connfd' = Head(queue) /\ queue' = Tail(queue)
  /\ fds' = [fds EXCEPT ![Main] = @ \cup {Head(queue)}]
  /\ pc' = "fork"
  /\ UNCHANGED <<pid, reaping, sigchld, kid, conn, cli, errors>>

\* Unchecked in ch4, which goes on with -1. Elsewhere main exits, and init
\* collects its children.
AcceptFails ==
  /\ pc = "accept" /\ ~reaping /\ errors < MaxErrors
  /\ errors' = errors + 1
  /\ \/ /\ ChecksAccept
        /\ pc' = "exited"
        /\ fds' = [fds EXCEPT ![Main] = {}]
        /\ kid' = [k \in Kids |-> IF kid[k] = "zombie" THEN "free" ELSE kid[k]]
        /\ UNCHANGED connfd
     \/ /\ ~ChecksAccept
        /\ pc' = "fork"
        /\ connfd' = None
        /\ UNCHANGED <<fds, kid>>
  /\ UNCHANGED <<pid, reaping, sigchld, conn, queue, cli>>

Fork(k) ==
  /\ pc = "fork" /\ ~reaping /\ kid[k] = "free"
  /\ kid' = [kid EXCEPT ![k] = "start"]
  /\ conn' = [conn EXCEPT ![k] = connfd]
  /\ fds' = [fds EXCEPT ![k] = fds[Main]]
  /\ pid' = k /\ pc' = "close"
  /\ UNCHANGED <<connfd, reaping, sigchld, queue, cli, errors>>

\* At the limit fork() returns -1, which every one of the programs takes for
\* a child's id.
ForkFails ==
  /\ pc = "fork" /\ ~reaping /\ \A k \in Kids : kid[k] # "free"
  /\ pid' = None /\ pc' = "close"
  /\ UNCHANGED <<connfd, reaping, sigchld, kid, conn, fds, queue, cli, errors>>

\* What close() leaves open.
ParentKeeps(open, fd)  == open
ParentCloses(open, fd) == open \ {fd}

Close ==
  /\ pc = "close" /\ ~reaping
  /\ fds' = [fds EXCEPT ![Main] = ParentCloses(@, connfd)]
  /\ pc' = "accept"
  /\ UNCHANGED <<connfd, pid, reaping, sigchld, kid, conn, queue, cli, errors>>
-----------------------------------------------------------------------------
(* sig_chld()                                                              *)

Deliver ==
  /\ ReapsChildren /\ sigchld /\ ~reaping /\ pc # "exited"
  /\ sigchld' = FALSE /\ reaping' = TRUE
  /\ UNCHANGED <<pc, connfd, pid, kid, conn, fds, queue, cli, errors>>

\* Whether waitpid() is called again after it has returned a child.
ReapOnce  == FALSE
ReapsMore == TRUE

Reap(k) ==
  /\ reaping /\ kid[k] = "zombie"
  /\ kid' = [kid EXCEPT ![k] = "free"]
  /\ reaping' = ReapsMore
  /\ UNCHANGED <<pc, connfd, pid, sigchld, conn, fds, queue, cli, errors>>

\* An accept() that was interrupted fails with EINTR and is called again.
EintrForks == IF pc = "accept" THEN "fork" ELSE pc
EintrRetry == pc

Return ==
  /\ reaping /\ Zombies = {}
  /\ reaping' = FALSE /\ pc' = EintrRetry
  /\ UNCHANGED <<connfd, pid, sigchld, kid, conn, fds, queue, cli, errors>>
-----------------------------------------------------------------------------
(* The child.                                                              *)

CloseListen(k) ==
  /\ kid[k] = "start"
  /\ fds' = [fds EXCEPT ![k] = @ \ {Listen}]
  /\ kid' = [kid EXCEPT ![k] = "serve"]
  /\ UNCHANGED <<main, sigchld, conn, queue, cli, errors>>

\* The loop of doit(), str_echo() ends. In ch4 read()'s result is never looked
\* at, and without a client there is nothing else to end it.
ReadOnce(k) == TRUE
ReadEnds(k) ==
  /\ conn[k] # None
  /\ \/ KnowsExit /\ cli[conn[k]] = "exit"
     \/ EndsAtEof /\ cli[conn[k]] \in {"eof", "reset"}

\* Exit closes every descriptor and leaves a zombie and a SIGCHLD.
Exit(k) ==
  /\ kid[k] = "serve"
  /\ \/ ReadEnds(k)
     \/ conn[k] # None /\ cli[conn[k]] = "reset"   \* write(), and SIGPIPE
  /\ fds' = [fds EXCEPT ![k] = {}]
  /\ kid' = [kid EXCEPT ![k] = IF pc = "exited" THEN "free" ELSE "zombie"]
  /\ sigchld' = TRUE
  /\ UNCHANGED <<main, conn, queue, cli, errors>>
-----------------------------------------------------------------------------
MainStep == Accept \/ (\E k \in Kids : Fork(k)) \/ ForkFails \/ Close
Handler  == Deliver \/ (\E k \in Kids : Reap(k)) \/ Return
KidStep(k) == CloseListen(k) \/ Exit(k)
Client(c)  == Connect(c) \/ (\E how \in {"exit", "eof", "reset"} : Leave(c, how)) \/ SeesClose(c)

Next ==
  \/ MainStep \/ AcceptFails \/ Handler
  \/ \E k \in Kids : KidStep(k)
  \/ \E c \in Conns : Client(c)

Spec == Init /\ [][Next]_vars

\* The kernel runs every process, delivers SIGCHLD, and tells a client of the
\* end of its connection. No client has to connect, or to leave.
FairSpec ==
  /\ Spec /\ WF_vars(MainStep) /\ WF_vars(Handler)
  /\ \A k \in Kids : WF_vars(KidStep(k))
  /\ \A c \in Conns : WF_vars(SeesClose(c))
-----------------------------------------------------------------------------
\* Every variable has its type, and main forks for a connection it has open.
TypeOK ==
  /\ pc \in {"accept", "fork", "close", "exited"}
  /\ connfd \in Conns \cup {None} /\ pid \in Kids \cup {None}
  /\ reaping \in BOOLEAN /\ sigchld \in BOOLEAN
  /\ kid \in [Kids -> {"free", "start", "serve", "zombie"}]
  /\ conn \in [Kids -> Conns \cup {None}]
  /\ fds \in [Procs -> SUBSET (Conns \cup {Listen})]
  /\ queue \in Seq(Conns)
  /\ cli \in [Conns -> {"idle", "open", "exit", "eof", "reset", "dropped", "done"}]
  /\ errors \in 0 .. MaxErrors
  /\ pc \in {"fork", "close"} => connfd \in fds[Main] \/ (connfd = None /\ ~ChecksAccept)

\* unixstrserv01.c:59 "Clean up all terminated children": SIGCHLDs merge, and
\* children end while the handler runs; still a zombie always has a signal to
\* come or a waitpid() ahead of it.
ZombieNoticed == ReapsChildren /\ Zombies # {} => sigchld \/ reaping

\* A child has no connection but its own: it inherits what main has open at the
\* fork, which must be that connection alone. And no two have the same one.
OwnConnection ==
  /\ \A k \in Kids : fds[k] \subseteq {Listen, conn[k]}
  /\ \A j, k \in Kids : j # k => fds[j] \cap fds[k] \subseteq {Listen}

\* A client still talking is hung up on only when fork() has failed for it: the
\* last descriptor of its connection is never closed by a child, nor by main
\* while a child has not inherited it.
HungUpOn ==
  \A c \in Conns : cli[c] = "open" /\ Held(c) /\ ~Held(c)' =>
                     pc = "close" /\ connfd = c /\ pid = None
OnlyRefusedDropped == [][HungUpOn]_vars

\* ch4/server.c:40 "Closing client connection": a client that has ended its
\* input, or said exit, has its connection closed by the server, on every
\* descriptor any process had for it.
ClientsClosed ==
  \A c \in Conns : cli[c] \in {"eof", "exit"} ~> ~Held(c) /\ (c \in Waiting => ~Held(Listen))
=============================================================================
