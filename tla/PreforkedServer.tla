--------------------------- MODULE PreforkedServer ---------------------------
(***************************************************************************)
(* ch30/preforked.c: NCHILDREN processes forked in advance take turns in   *)
(* accept(), serialised by a mutex in shared memory, and answer. The parent*)
(* idles until SIGINT, then reports, kills the children and waits for them.*)
(*                                                                         *)
(* The terminal sends SIGINT to the children too: they ignore it, or, just *)
(* forked, run the inherited sig_int(), which returns at once. A child dies*)
(* asynchronously of SIGTERM, of a SIGPIPE in write(), or by another       *)
(* process's hand; nothing replaces it and the mutex is not a robust one.  *)
(*                                                                         *)
(* ForkedLate, KilledEarly, NoLock, AcceptFailsEarly and UnlockMissed are  *)
(* wrong variants of the operator that follows each, kept to see that the  *)
(* properties notice them.                                                 *)
(***************************************************************************)
EXTENDS Integers, FiniteSets

CONSTANTS
  NChildren,   \* NCHILDREN
  Conns,       \* the connections that clients open
  NoConn,      \* no connection
  Flaky,       \* bound: the connections whose client may reset them
  MaxErrors,   \* bound on the failures of accept()
  MaxKills     \* bound on the children that other processes kill

Children == 0 .. NChildren - 1
Nobody   == -1

ASSUME PreforkAssumption ==
  /\ NChildren \in Nat \ {0}
  /\ NoConn \notin Conns /\ Flaky \subseteq Conns /\ IsFiniteSet(Conns)
  /\ MaxErrors \in Nat /\ MaxKills \in Nat

VARIABLES
  parent,      \* where the parent is; "killed" when it has killed itself
  next,        \* the parent's loop index i: of the fork loop, then of sig_int's
  pids,        \* pids[i]: "zero" before fork(), "child", or "failed" for -1
  child,       \* child[i]: "none", "alive", "dead" (a zombie) or "reaped"
  term,        \* the children with a SIGTERM on its way
  pc, hand,    \* where child i is, and the connection it has accepted
  mutex,       \* shared_data->mutex: its owner, or Nobody
  destroyed,   \* the mutex has been destroyed
  count,       \* shared_data->count[]
  report,      \* report[i]: the count printed for child i, -1 before
  conn, gone, reply,   \* as in PrethreadedServer
  errors, kills        \* so far

procs  == <<parent, next, pids, child, term>>
serve  == <<pc, hand, mutex, count>>
net    == <<conn, gone, reply>>
final  == <<destroyed, report>>
vars   == <<procs, serve, net, final, errors, kills>>

Alive(i) == child[i] = "alive"
Go(i, from, to) == Alive(i) /\ pc[i] = from /\ pc' = [pc EXCEPT ![i] = to]

Init ==
  /\ parent = "fork" /\ next = 0
  /\ pids = [i \in Children |-> "zero"]
  /\ child = [i \in Children |-> "none"]
  /\ term = {}
  /\ pc = [i \in Children |-> "lock"]
  /\ hand = [i \in Children |-> NoConn]
  /\ mutex = Nobody /\ destroyed = FALSE
  /\ count = [i \in Children |-> 0]
  /\ report = [i \in Children |-> -1]
  /\ conn = [c \in Conns |-> "out"] /\ gone = {}
  /\ reply = [c \in Conns |-> Nobody]
  /\ errors = 0 /\ kills = 0
-----------------------------------------------------------------------------
(* Clients, and other processes of the machine.                            *)

Connect(c) ==
  /\ conn[c] = "out" /\ parent \notin {"exited", "killed"}
  /\ conn' = [conn EXCEPT ![c] = "backlog"]
  /\ UNCHANGED <<procs, serve, gone, reply, final, errors, kills>>

Reset(c) ==
  /\ c \in Flaky \ gone /\ conn[c] # "out"
  /\ gone' = gone \cup {c}
  /\ UNCHANGED <<procs, serve, conn, reply, final, errors, kills>>

KillChild(i) ==
  /\ Alive(i) /\ kills < MaxKills
  /\ term' = term \cup {i}
  /\ kills' = kills + 1
  /\ UNCHANGED <<parent, next, pids, child, serve, net, final, errors>>

\* The default action of SIGTERM, wherever the child is.
Die(i) ==
  /\ Alive(i) /\ i \in term
  /\ child' = [child EXCEPT ![i] = "dead"]
  /\ term' = term \ {i}
  /\ UNCHANGED <<parent, next, pids, serve, net, final, errors, kills>>
-----------------------------------------------------------------------------
(* main(): the fork loop, then pause().                                    *)

ForkedLate == next > NChildren
Forked     == next = NChildren

\* fork() returns in the child before the parent has stored its pid.
Fork ==
  /\ parent = "fork" /\ ~Forked
  /\ child' = [child EXCEPT ![next] = "alive"]
  /\ parent' = "assign"
  /\ UNCHANGED <<next, pids, term, serve, net, final, errors, kills>>

Assign ==
  /\ parent = "assign"
  /\ pids' = [pids EXCEPT ![next] = "child"]
  /\ next' = next + 1
  /\ parent' = "fork"
  /\ UNCHANGED <<child, term, serve, net, final, errors, kills>>

\* fork() returned -1, which the loop stores like a pid.
ForkFails ==
  /\ parent = "fork" /\ ~Forked
  /\ pids' = [pids EXCEPT ![next] = "failed"]
  /\ next' = next + 1
  /\ UNCHANGED <<parent, child, term, serve, net, final, errors, kills>>

Pause ==
  /\ parent = "fork" /\ Forked
  /\ parent' = "pause"
  /\ UNCHANGED <<next, pids, child, term, serve, net, final, errors, kills>>
-----------------------------------------------------------------------------
(* sig_int() in the parent. It never returns and SIGINT is blocked in it.  *)

SigInt ==
  /\ parent \in {"fork", "assign", "pause"}
  /\ parent' = "report" /\ next' = 0
  /\ UNCHANGED <<pids, child, term, serve, net, final, errors, kills>>

KilledEarly == next = NChildren - 1
Killed      == next = NChildren

Report ==
  /\ parent = "report" /\ ~Killed
  /\ report' = [report EXCEPT ![next] = count[next]]
  /\ parent' = "kill"
  /\ UNCHANGED <<next, pids, child, term, serve, net, destroyed, errors, kills>>

\* kill() of a pid signals a child; of 0, the whole process group, and so the
\* parent itself; of -1, every process it may signal but itself.
Kill ==
  /\ parent = "kill"
  /\ term' = term \cup {i \in Children : Alive(i) /\ (pids[next] = "child" => i = next)}
  /\ parent' = IF pids[next] = "zero" THEN "killed" ELSE "report"
  /\ next' = next + 1
  /\ UNCHANGED <<pids, child, serve, net, destroyed, report, errors, kills>>

\* Destroying a mutex in use is undefined; glibc's refuses with EBUSY.
Destroy ==
  /\ parent = "report" /\ Killed
  /\ destroyed' = (mutex = Nobody)
  /\ parent' = "wait"
  /\ UNCHANGED <<next, pids, child, term, serve, net, report, errors, kills>>

Wait(i) ==
  /\ parent = "wait" /\ child[i] = "dead"
  /\ child' = [child EXCEPT ![i] = "reaped"]
  /\ UNCHANGED <<parent, next, pids, term, serve, net, final, errors, kills>>

\* wait() failed: there are no more children.
Exit ==
  /\ parent = "wait" /\ \A i \in Children : child[i] \in {"none", "reaped"}
  /\ parent' = "exited"
  /\ UNCHANGED <<next, pids, child, term, serve, net, final, errors, kills>>
-----------------------------------------------------------------------------
(* child_main().                                                           *)

\* Locking a destroyed mutex fails, and child_main does not look.
NoLock(i) == mutex' = i
LockOf(i) ==
  \/ destroyed /\ UNCHANGED mutex
  \/ ~destroyed /\ mutex = Nobody /\ mutex' = i

Lock(i) ==
  /\ Go(i, "lock", "accept") /\ LockOf(i)
  /\ UNCHANGED <<procs, hand, count, net, final, errors, kills>>

Accept(i, c) ==
  /\ Go(i, "accept", "unlock")
  /\ conn[c] = "backlog"
  /\ conn' = [conn EXCEPT ![c] = "accepted"]
  /\ hand' = [hand EXCEPT ![i] = c]
  /\ UNCHANGED <<procs, mutex, count, gone, reply, final, errors, kills>>

AcceptFailsEarly(i) ==
  /\ Go(i, "accept", "lock") /\ errors < MaxErrors
  /\ errors' = errors + 1
  /\ UNCHANGED <<procs, hand, mutex, count, net, final, kills>>
AcceptFails(i) ==
  /\ Go(i, "accept", "unlock") /\ errors < MaxErrors
  /\ errors' = errors + 1
  /\ UNCHANGED <<procs, hand, mutex, count, net, final, kills>>

UnlockMissed(i) ==
  /\ Go(i, "unlock", IF hand[i] = NoConn THEN "lock" ELSE "count")
  /\ mutex' = IF hand[i] = NoConn THEN Nobody ELSE mutex
  /\ UNCHANGED <<procs, hand, count, net, final, errors, kills>>
Unlock(i) ==
  /\ Go(i, "unlock", IF hand[i] = NoConn THEN "lock" ELSE "count")
  /\ mutex' = Nobody
  /\ UNCHANGED <<procs, hand, count, net, final, errors, kills>>

Tally(i) ==
  /\ Go(i, "count", "write")
  /\ count' = [count EXCEPT ![i] = @ + 1]
  /\ UNCHANGED <<procs, hand, mutex, net, final, errors, kills>>

\* write() to a client that has reset fails, unnoticed, or raises SIGPIPE.
Write(i) ==
  /\ \/ /\ hand[i] \notin gone
        /\ Go(i, "write", "close")
        /\ reply' = [reply EXCEPT ![hand[i]] = i]
        /\ UNCHANGED child
     \/ /\ hand[i] \in gone
        /\ Go(i, "write", "close")
        /\ UNCHANGED <<child, reply>>
     \/ /\ hand[i] \in gone /\ Alive(i) /\ pc[i] = "write"
        /\ child' = [child EXCEPT ![i] = "dead"]
        /\ UNCHANGED <<pc, reply>>
  /\ UNCHANGED <<parent, next, pids, term, hand, mutex, count, conn, gone, final, errors, kills>>

Close(i) ==
  /\ Go(i, "close", "lock")
  /\ hand' = [hand EXCEPT ![i] = NoConn]
  /\ UNCHANGED <<procs, mutex, count, net, final, errors, kills>>
-----------------------------------------------------------------------------
ParentStep ==
  \/ Fork \/ Assign \/ ForkFails \/ Pause
  \/ Report \/ Kill \/ Destroy \/ Exit
  \/ \E i \in Children : Wait(i)

ChildStep(i) ==
  \/ Lock(i) \/ AcceptFails(i) \/ Unlock(i) \/ Tally(i) \/ Write(i) \/ Close(i)
  \/ \E c \in Conns : Accept(i, c)

Environment ==
  \/ SigInt
  \/ \E c \in Conns : Connect(c) \/ Reset(c)
  \/ \E i \in Children : KillChild(i)

Next ==
  \/ ParentStep \/ Environment
  \/ \E i \in Children : ChildStep(i) \/ Die(i)

Spec == Init /\ [][Next]_vars

\* Every process runs and signals are delivered; clients, SIGINT and other
\* processes owe nothing.
FairSpec ==
  /\ Spec
  /\ WF_vars(ParentStep)
  /\ \A i \in Children : WF_vars(ChildStep(i)) /\ WF_vars(Die(i))
-----------------------------------------------------------------------------
Down == parent \notin {"fork", "assign", "pause"}
Critical == {"accept", "unlock"}

\* Every variable has its type; the parent's loops stay inside pids[].
TypeOK ==
  /\ parent \in {"fork", "assign", "pause", "report", "kill", "wait", "exited", "killed"}
  /\ next \in 0 .. NChildren
  /\ pids \in [Children -> {"zero", "child", "failed"}]
  /\ child \in [Children -> {"none", "alive", "dead", "reaped"}]
  /\ term \subseteq Children
  /\ pc \in [Children -> {"lock", "accept", "unlock", "count", "write", "close"}]
  /\ hand \in [Children -> Conns \cup {NoConn}]
  /\ mutex \in Children \cup {Nobody} /\ destroyed \in BOOLEAN
  /\ count \in [Children -> Nat] /\ report \in [Children -> Nat \cup {-1}]
  /\ conn \in [Conns -> {"out", "backlog", "accepted"}] /\ gone \subseteq Conns
  /\ reply \in [Conns -> Children \cup {Nobody}]
  /\ errors \in Nat /\ kills \in Nat

\* One child at a time is in accept(), dead children included, from the first
\* fork to the destruction of the mutex by sig_int().
AcceptSerialised ==
  ~destroyed => \A i, j \in Children :
    pc[i] \in Critical /\ pc[j] \in Critical => i = j

\* The death of a child by its own doing, a SIGPIPE, never takes the mutex
\* with it: the other children go on accepting. Only sig_int() or another
\* process's signal can leave the mutex to a dead owner.
LockNotOrphaned ==
  mutex # Nobody /\ kills = 0 /\ ~Down => Alive(mutex) /\ pc[mutex] \in Critical

\* A waiting client is accepted, unless SIGINT came, every child died, or one
\* was killed by another process inside accept() with the mutex.
Orphaned == mutex # Nobody /\ ~Alive(mutex)
AllDead == Forked /\ \A i \in Children : ~Alive(i)
Served ==
  \A c \in Conns : conn[c] = "backlog" ~> conn[c] = "accepted" \/ Down \/ AllDead \/ Orphaned

\* Once SIGINT has come the parent and every child end, whatever the children
\* were doing, even with the mutex left to a dead owner.
ShutsDown ==
  Down ~> parent \in {"exited", "killed"} /\ \A i \in Children : ~Alive(i)

\* preforked.c:96 "Wait for children to exit": the parent does not end before
\* its children have.
WaitsForChildren ==
  parent \in {"exited", "killed"} => \A i \in Children : ~Alive(i)
=============================================================================
