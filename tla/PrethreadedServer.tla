-------------------------- MODULE PrethreadedServer --------------------------
(***************************************************************************)
(* ch30/prethreaded.c: the main thread accepts connections and puts their  *)
(* descriptors in a ring buffer; NTHREADS workers take them, answer and    *)
(* close. A mutex guards the ring, a condition variable wakes workers, and *)
(* SIGINT may interrupt any thread, anywhere, with sig_int().              *)
(*                                                                         *)
(* A step is one statement, or a run of statements between two points that *)
(* another thread can observe; every step under the mutex is separate from *)
(* taking and releasing it. printf() takes the lock of stdout, which it    *)
(* shares with the printf() and exit() of sig_int().                       *)
(*                                                                         *)
(* WrapLate, NoLock, FullLate, SignalledOnFirst, PutDropEarly and          *)
(* MayPrintOnce are wrong variants of the operator that follows, kept to   *)
(* see that the properties notice them.                                    *)
(***************************************************************************)
EXTENDS Integers, Sequences, FiniteSets

CONSTANTS
  Workers,     \* the NTHREADS worker threads
  Main,        \* the main thread
  Conns,       \* the connections that clients open
  Fds,         \* the descriptors accept() can return
  MaxQueue,    \* MAX_QUEUE
  NoFd,        \* no descriptor; also what the zeroed array fd[] holds
  NoConn,      \* what a closed descriptor refers to
  Nobody,      \* no thread
  Flaky,       \* bound: the connections whose client may reset them
  MaxSpurious, \* bound on spurious wakeups of pthread_cond_wait
  MaxSigInt    \* bound on the SIGINTs delivered, each to another thread

Threads == Workers \cup {Main}

ASSUME ServerAssumption ==
  /\ MaxQueue \in Nat \ {0} /\ MaxSpurious \in Nat /\ MaxSigInt \in Nat
  /\ Main \notin Workers /\ Nobody \notin Threads
  /\ NoFd \notin Fds /\ NoConn \notin Conns
  /\ Flaky \subseteq Conns
  /\ IsFiniteSet(Workers) /\ Workers # {}

VARIABLES
  pc,           \* pc[t]: where thread t is
  hand,         \* hand[t]: the descriptor in t's connfd, while t must deal with it
  mutex,        \* queue.mutex: its owner, or Nobody
  iget, iput, count, slot,   \* the fields of Queue; slot is fd[MAX_QUEUE]
  table,        \* the kernel's descriptor table: table[fd] is a connection
  conn,         \* conn[c]: "out", "backlog" (of listen) or "accepted"
  gone,         \* the connections whose client has reset them
  reply,        \* reply[c]: the thread named in the response c received
  threadCount,  \* thread_count[]
  handlers,     \* the threads that are inside sig_int()
  report,       \* report[w]: the count sig_int() first printed for w, -1 before
  up,           \* the process has not exited
  spurious      \* spurious wakeups so far

queue == <<iget, iput, count, slot>>
net   == <<table, conn, gone, reply>>
sig   == <<handlers, report, up>>
vars  == <<pc, hand, mutex, queue, net, threadCount, sig, spurious>>

PrintPc  == {"print", "print_take", "print_out"}
MainPc   == {"spawn", "accept", "put_lock", "put_check", "put_count", "put_unlock"}
            \cup PrintPc
WorkerPc == {"unborn", "get_lock", "get_check", "get_wait", "get_relock",
             "get_dec", "get_unlock", "tally", "write", "close"} \cup PrintPc

\* A thread takes its next step unless the process is gone or the thread is
\* inside sig_int(), which never returns to it.
Running(t) == up /\ t \notin handlers

Go(t, from, to) ==
  /\ Running(t) /\ pc[t] = from
  /\ pc' = [pc EXCEPT ![t] = to]

Waiting == {w \in Workers : pc[w] = "get_wait"}

Indices == 0 .. MaxQueue - 1
WrapLate(i) == IF i = MaxQueue THEN 0 ELSE i + 1
Wrap(i)     == IF i + 1 = MaxQueue THEN 0 ELSE i + 1

Init ==
  /\ pc = [t \in Threads |-> IF t = Main THEN "spawn" ELSE "unborn"]
  /\ hand = [t \in Threads |-> NoFd]
  /\ mutex = Nobody
  /\ iget = 0 /\ iput = 0 /\ count = 0
  /\ slot = [i \in Indices |-> NoFd]
  /\ table = [fd \in Fds |-> NoConn]
  /\ conn = [c \in Conns |-> "out"]
  /\ gone = {}
  /\ reply = [c \in Conns |-> Nobody]
  /\ threadCount = [w \in Workers |-> 0]
  /\ handlers = {}
  /\ report = [w \in Workers |-> -1]
  /\ up = TRUE
  /\ spurious = 0
-----------------------------------------------------------------------------
(* Clients and the kernel.                                                 *)

Connect(c) ==
  /\ up /\ conn[c] = "out"
  /\ conn' = [conn EXCEPT ![c] = "backlog"]
  /\ UNCHANGED <<pc, hand, mutex, queue, table, gone, reply, threadCount, sig, spurious>>

Reset(c) ==
  /\ up /\ c \in Flaky \ gone /\ conn[c] # "out"
  /\ gone' = gone \cup {c}
  /\ UNCHANGED <<pc, hand, mutex, queue, table, conn, reply, threadCount, sig, spurious>>

-----------------------------------------------------------------------------
(* printf(): a worker's greeting, and main()'s line once all are spawned.  *)

\* The thread that has the lock of stdout, if any. The lock is recursive: its
\* owner's next call enters again. But the owner's name is written after the
\* lock is taken and cleared before it is given back; in these two moments
\* ("print_take" stands for both) the thread has the lock and is not known to.
Printing == {t \in Threads : pc[t] \in {"print_take", "print_out"}}

PrintTake(t) ==
  /\ Go(t, "print", "print_take")
  /\ Printing = {}
  /\ UNCHANGED <<hand, mutex, queue, net, threadCount, sig, spurious>>

PrintOut(t) ==
  /\ Go(t, "print_take", "print_out")
  /\ UNCHANGED <<hand, mutex, queue, net, threadCount, sig, spurious>>

PrintDone(t) ==
  /\ Go(t, "print_out", IF t = Main THEN "accept" ELSE "get_lock")
  /\ UNCHANGED <<hand, mutex, queue, net, threadCount, sig, spurious>>

PrintStep(t) == PrintTake(t) \/ PrintOut(t) \/ PrintDone(t)
-----------------------------------------------------------------------------
(* main() and queue_put().                                                 *)

Closed(t) == [table EXCEPT ![hand[t]] = NoConn]

Spawn(w) ==
  /\ Running(Main) /\ pc[Main] = "spawn" /\ pc[w] = "unborn"
  /\ LET left == {v \in Workers : pc[v] = "unborn"} \ {w}
     IN  pc' = [pc EXCEPT ![w] = "print",
                          ![Main] = IF left = {} THEN "print" ELSE "spawn"]
  /\ UNCHANGED <<hand, mutex, queue, net, threadCount, sig, spurious>>

\* pthread_create() failed: exit(1).
SpawnFails ==
  /\ Running(Main) /\ pc[Main] = "spawn"
  /\ up' = FALSE
  /\ UNCHANGED <<pc, hand, mutex, queue, net, threadCount, handlers, report, spurious>>

\* With no free descriptor accept() fails and the loop retries: no step.
Accept(c) ==
  /\ Go(Main, "accept", "put_lock")
  /\ conn[c] = "backlog"
  /\ conn' = [conn EXCEPT ![c] = "accepted"]
  /\ \E fd \in Fds :
       /\ table[fd] = NoConn
       /\ table' = [table EXCEPT ![fd] = c]
       /\ hand' = [hand EXCEPT ![Main] = fd]
  /\ UNCHANGED <<mutex, queue, gone, reply, threadCount, sig, spurious>>

NoLock(t) == UNCHANGED mutex
Lock(t)   == mutex = Nobody /\ mutex' = t

PutLock ==
  /\ Go(Main, "put_lock", "put_check")
  /\ Lock(Main)
  /\ UNCHANGED <<hand, queue, net, threadCount, sig, spurious>>

FullLate == count > MaxQueue
Full     == count >= MaxQueue

\* Queue full: close the connection, keep the mutex for put_unlock.
PutDropEarly ==
  /\ Go(Main, "put_check", "accept")
  /\ Full
  /\ table' = Closed(Main)
  /\ hand' = [hand EXCEPT ![Main] = NoFd]
  /\ UNCHANGED <<mutex, queue, conn, gone, reply, threadCount, sig, spurious>>
PutDrop ==
  /\ Go(Main, "put_check", "put_unlock")
  /\ Full
  /\ table' = Closed(Main)
  /\ hand' = [hand EXCEPT ![Main] = NoFd]
  /\ UNCHANGED <<mutex, queue, conn, gone, reply, threadCount, sig, spurious>>

PutStore ==
  /\ Go(Main, "put_check", "put_count")
  /\ ~Full
  /\ slot' = [slot EXCEPT ![iput] = hand[Main]]
  /\ iput' = Wrap(iput)
  /\ hand' = [hand EXCEPT ![Main] = NoFd]
  /\ UNCHANGED <<mutex, iget, count, net, threadCount, sig, spurious>>

\* pthread_cond_signal(): the control states it may leave, given p.
SignalledOnFirst(p) ==
  IF Waiting = {} \/ count # 0 THEN {p}
  ELSE {[p EXCEPT ![w] = "get_relock"] : w \in Waiting}
Signalled(p) ==
  IF Waiting = {} THEN {p}
  ELSE {[p EXCEPT ![w] = "get_relock"] : w \in Waiting}

PutCount ==
  /\ Running(Main) /\ pc[Main] = "put_count"
  /\ pc' \in Signalled([pc EXCEPT ![Main] = "put_unlock"])
  /\ count' = count + 1
  /\ UNCHANGED <<hand, mutex, iget, iput, slot, net, threadCount, sig, spurious>>

PutUnlock ==
  /\ Go(Main, "put_unlock", "accept")
  /\ mutex' = Nobody
  /\ UNCHANGED <<hand, queue, net, threadCount, sig, spurious>>
-----------------------------------------------------------------------------
(* worker_main() and queue_get().                                          *)

GetLock(w) ==
  /\ \/ Go(w, "get_lock", "get_check")
     \/ Go(w, "get_relock", "get_check")   \* woken: pthread_cond_wait relocks
  /\ Lock(w)
  /\ UNCHANGED <<hand, queue, net, threadCount, sig, spurious>>

\* pthread_cond_wait(): release the mutex and sleep, atomically.
GetWait(w) ==
  /\ Go(w, "get_check", "get_wait")
  /\ count = 0
  /\ mutex' = Nobody
  /\ UNCHANGED <<hand, queue, net, threadCount, sig, spurious>>

SpuriousWakeup(w) ==
  /\ up /\ spurious < MaxSpurious /\ pc[w] = "get_wait"
  /\ pc' = [pc EXCEPT ![w] = "get_relock"]
  /\ spurious' = spurious + 1
  /\ UNCHANGED <<hand, mutex, queue, net, threadCount, sig>>

GetTake(w) ==
  /\ Go(w, "get_check", "get_dec")
  /\ count # 0
  /\ hand' = [hand EXCEPT ![w] = slot[iget]]
  /\ iget' = Wrap(iget)
  /\ UNCHANGED <<mutex, iput, count, slot, net, threadCount, sig, spurious>>

GetDec(w) ==
  /\ Go(w, "get_dec", "get_unlock")
  /\ count' = count - 1
  /\ UNCHANGED <<hand, mutex, iget, iput, slot, net, threadCount, sig, spurious>>

GetUnlock(w) ==
  /\ Go(w, "get_unlock", "tally")
  /\ mutex' = Nobody
  /\ UNCHANGED <<hand, queue, net, threadCount, sig, spurious>>

Tally(w) ==
  /\ Go(w, "tally", "write")
  /\ threadCount' = [threadCount EXCEPT ![w] = @ + 1]
  /\ UNCHANGED <<hand, mutex, queue, net, sig, spurious>>

\* write() ignores its result. On a connection the client has reset it fails
\* or raises SIGPIPE, whose default action ends the whole process.
Write(w) ==
  /\ Go(w, "write", "close")
  /\ LET c == table[hand[w]] IN
       \/ /\ c \in Conns \ gone
          /\ reply' = [reply EXCEPT ![c] = w]
          /\ UNCHANGED up
       \/ /\ c \notin Conns \ gone
          /\ up' \in BOOLEAN
          /\ UNCHANGED reply
  /\ UNCHANGED <<hand, mutex, queue, table, conn, gone, threadCount, handlers, report, spurious>>

Close(w) ==
  /\ Go(w, "close", "get_lock")
  /\ table' = Closed(w)
  /\ hand' = [hand EXCEPT ![w] = NoFd]
  /\ UNCHANGED <<mutex, queue, conn, gone, reply, threadCount, sig, spurious>>
-----------------------------------------------------------------------------
(* sig_int(), on whichever thread the kernel delivers SIGINT to.           *)

SigInt(t) ==
  /\ up /\ t \notin handlers /\ pc[t] # "unborn"
  /\ Cardinality(handlers) < MaxSigInt
  /\ handlers' = handlers \cup {t}
  /\ UNCHANGED <<pc, hand, mutex, queue, net, threadCount, report, up, spurious>>

\* printf() on thread h inside sig_int(): stdout is free, or h itself was
\* interrupted while it had it and is known to.
MayPrintOnce(h) == h \in handlers /\ Printing = {}
MayPrint(h)     == h \in handlers /\ (Printing = {} \/ pc[h] = "print_out")

Report(w) ==
  /\ up /\ report[w] = -1
  /\ \E h \in Threads : MayPrint(h)
  /\ report' = [report EXCEPT ![w] = threadCount[w]]
  /\ UNCHANGED <<pc, hand, mutex, queue, net, threadCount, handlers, up, spurious>>

\* "Server shutting down cleanly.", and exit(), which flushes stdout.
Exit ==
  /\ up
  /\ \A w \in Workers : report[w] # -1
  /\ \E h \in Threads : MayPrint(h)
  /\ up' = FALSE
  /\ UNCHANGED <<pc, hand, mutex, queue, net, threadCount, handlers, report, spurious>>
-----------------------------------------------------------------------------
MainStep ==
  \/ PrintStep(Main)
  \/ \E w \in Workers : Spawn(w)
  \/ SpawnFails
  \/ \E c \in Conns : Accept(c)
  \/ PutLock \/ PutDrop \/ PutStore \/ PutCount \/ PutUnlock

WorkerStep(w) ==
  \/ PrintStep(w)
  \/ GetLock(w) \/ GetWait(w) \/ GetTake(w) \/ GetDec(w) \/ GetUnlock(w)
  \/ Tally(w) \/ Write(w) \/ Close(w)

HandlerStep == Exit \/ \E w \in Workers : Report(w)

Environment ==
  \/ \E c \in Conns : Connect(c) \/ Reset(c)
  \/ \E w \in Workers : SpuriousWakeup(w)
  \/ \E t \in Threads : SigInt(t)

Next == MainStep \/ HandlerStep \/ Environment \/ \E w \in Workers : WorkerStep(w)

Spec == Init /\ [][Next]_vars

\* The scheduler runs every runnable thread; nothing obliges clients, SIGINT
\* or spurious wakeups, and no fairness of the mutex is assumed.
FairSpec ==
  /\ Spec
  /\ WF_vars(MainStep) /\ WF_vars(HandlerStep)
  /\ \A w \in Workers : WF_vars(WorkerStep(w))
-----------------------------------------------------------------------------
(* The pending descriptors, oldest first: the ring as a sequence. Between  *)
(* a store and its count++, or a take and its count--, count is off by one.*)

Depth ==
  IF pc[Main] = "put_count" THEN count + 1
  ELSE IF \E w \in Workers : pc[w] = "get_dec" THEN count - 1
  ELSE count

At(k) == IF iget + k < MaxQueue THEN iget + k ELSE iget + k - MaxQueue
Jobs  == [k \in 1 .. Depth |-> slot[At(k - 1)]]

HasFd(t) == hand[t] # NoFd
HoldsMutex ==
  {"put_check", "put_count", "put_unlock", "get_check", "get_dec", "get_unlock"}

\* Every variable has its type; the ring's indices stay inside fd[].
TypeOK ==
  /\ pc \in [Threads -> MainPc \cup WorkerPc]
  /\ pc[Main] \in MainPc /\ \A w \in Workers : pc[w] \in WorkerPc
  /\ hand \in [Threads -> Fds \cup {NoFd}]
  /\ mutex \in Threads \cup {Nobody}
  /\ iget \in Indices /\ iput \in Indices /\ count \in 0 .. MaxQueue
  /\ slot \in [Indices -> Fds \cup {NoFd}]
  /\ table \in [Fds -> Conns \cup {NoConn}]
  /\ conn \in [Conns -> {"out", "backlog", "accepted"}]
  /\ gone \subseteq Conns
  /\ reply \in [Conns -> Workers \cup {Nobody}]
  /\ threadCount \in [Workers -> Nat]
  /\ handlers \subseteq Threads
  /\ report \in [Workers -> Nat \cup {-1}]
  /\ up \in BOOLEAN
  /\ spurious \in Nat

\* Every open descriptor has exactly one owner, the thread that must close
\* it or one pending slot of the ring; a closed one has none. So no
\* descriptor leaks, is closed twice, or is written after its close (when it
\* may already be another client's): queue_put, queue_get and worker_main
\* together, with accept() reusing numbers as soon as they are closed.
FdExclusive ==
  /\ \A t, u \in Threads : HasFd(t) /\ t # u => hand[t] # hand[u]
  /\ \A j, k \in DOMAIN Jobs : j # k => Jobs[j] # Jobs[k]
  /\ \A t \in Threads, k \in DOMAIN Jobs : Jobs[k] # hand[t]
  /\ \A fd \in Fds :
       table[fd] # NoConn <=>
         (\E t \in Threads : hand[t] = fd) \/ (\E k \in DOMAIN Jobs : Jobs[k] = fd)

\* No lost wakeup: while a worker sleeps in pthread_cond_wait, at least as
\* many workers are awake and on their way to the ring as there are jobs in
\* it, so pthread_cond_signal, once per queue_put, is enough.
Awake == {w \in Workers : pc[w] \in {"get_lock", "get_relock", "get_check", "get_dec"}}
WorkConserving == Waiting # {} => count <= Cardinality(Awake)

\* A thread that SIGINT found with the lock of stdout, not known to have it:
\* the printf() of its sig_int() waits for itself, and every other printf()
\* and the exit() wait for it. POSIX leaves undefined what printf() does in a
\* handler that interrupted printf(); this is what a recursive lock does.
Wedged == \E t \in handlers : pc[t] = "print_take"

\* A connection the client has opened is accepted, and its descriptor closed
\* again after an answer or a drop, unless the server stops or is wedged: no
\* deadlock on the mutex and no job left behind in the ring.
Finished(c) == conn[c] = "accepted" /\ \A fd \in Fds : table[fd] # c
Served == \A c \in Conns : conn[c] = "backlog" ~> Finished(c) \/ ~up \/ Wedged

\* SIGINT stops the server wherever it finds the threads, even one inside its
\* own printf() (whose lock sig_int() then takes again) or in a critical
\* section of the queue, unless the server is wedged.
Stops == handlers # {} ~> ~up \/ Wedged

\* The same without the exception, as "Signal Handler for Clean Shutdown"
\* (prethreaded.c:114) has it. The code does not keep it.
AlwaysStops == handlers # {} ~> ~up

\* The hand-off is a bounded FIFO queue: nothing is lost but a connection
\* refused when the queue is full, nothing is handed to two workers, and
\* descriptors leave the ring in the order they entered.
JQ == INSTANCE JobQueue WITH
  offer <- hand[Main], jobs <- Jobs, taken <- [w \in Workers |-> hand[w]]
RefinesJobQueue == JQ!Spec
=============================================================================
