-------------------------- MODULE ForkServerProofs --------------------------
(* Proofs about ForkServer, for any clients, processes and programs.       *)
EXTENDS ForkServer, SequenceTheorems, TLAPS

(***************************************************************************)
(* The inductive invariant. OwnConnection says nothing of main, from which *)
(* a child inherits: MainOwn says that main has only the connection it     *)
(* works on, Fresh that no child has it before the fork, because no process*)
(* has a connection that still waits, and none waits twice.                *)
(***************************************************************************)

MainOwn == fds[Main] \subseteq {Listen} \cup IF pc \in {"fork", "close"} THEN {connfd} ELSE {}

Fresh ==
  /\ \A c \in Waiting : ~Held(c) /\ cli[c] # "idle"
  /\ \A c \in Conns : cli[c] = "idle" => ~Held(c)
  /\ \A i, j \in 1 .. Len(queue) : queue[i] = queue[j] => i = j
  /\ pc = "fork" => \A k \in Kids : connfd \notin fds[k]

IInv == TypeOK /\ OwnConnection /\ MainOwn /\ Fresh

-----------------------------------------------------------------------------
(* A step that opens no descriptor and lets no connection into the queue.  *)

LEMMA QuietStep ==
  ASSUME IInv, TypeOK', UNCHANGED <<conn, queue>>,
         \A p \in Procs : fds'[p] \subseteq fds[p],
         \A c \in Conns : cli'[c] = "idle" => cli[c] = "idle",
         \A c \in Conns : cli[c] # "idle" => cli'[c] # "idle",
         MainOwn', pc' = "fork" => pc = "fork" /\ connfd' = connfd
  PROVE  IInv'
<1>1. \A c : Held(c)' => Held(c)
  BY DEF Held, Procs
<1>2. OwnConnection'
  BY DEF IInv, OwnConnection, Procs
<1>3. Waiting' = Waiting /\ Waiting \subseteq Conns
  BY DEF Waiting, IInv, TypeOK
<1>4. Fresh'
  BY <1>1, <1>3 DEF IInv, Fresh, Procs
<1>. QED  BY <1>2, <1>4 DEF IInv

LEMMA ClientStep ==
  ASSUME IInv, NEW c \in Conns, Client(c)
  PROVE  IInv'
<1>. USE ForkAssumption
<1>1. TypeOK /\ MainOwn
  BY DEF IInv
<1>2. CASE Connect(c)
  <2>1. /\ cli[c] = "idle" /\ cli' = [cli EXCEPT ![c] = "open"] /\ queue' = Append(queue, c)
        /\ UNCHANGED <<pc, connfd, pid, reaping, sigchld, kid, conn, fds, errors>>
    BY <1>2 DEF Connect, main
  <2>2. queue \in Seq(Conns) /\ cli \in [Conns -> {"idle", "open", "exit", "eof", "reset", "dropped", "done"}]
    BY <1>1 DEF TypeOK
  <2>3. /\ queue' \in Seq(Conns) /\ Len(queue') = Len(queue) + 1
        /\ \A i \in 1 .. Len(queue) : queue'[i] = queue[i]
        /\ queue'[Len(queue) + 1] = c
    BY <2>1, <2>2, AppendProperties
  <2>4. TypeOK'
    BY <1>1, <2>1, <2>3 DEF TypeOK, Procs
  <2>5. OwnConnection' /\ MainOwn'
    BY <2>1 DEF IInv, OwnConnection, MainOwn
  <2>6. ~Held(c) /\ c \notin Waiting
    BY <2>1 DEF IInv, Fresh
  <2>7. \A d : Held(d)' <=> Held(d)
    BY <2>1 DEF Held
  <2>8. \A i \in 1 .. Len(queue') : i \in 1 .. Len(queue) \/ i = Len(queue) + 1
    BY <2>2, <2>3
  <2>9. Waiting' \subseteq Waiting \cup {c}
    BY <2>3, <2>8 DEF Waiting
  <2>10. \A i \in 1 .. Len(queue) : queue[i] # c
    BY <2>6 DEF Waiting
  <2>11. Fresh'
    <3>1. \A d \in Waiting' : ~Held(d)' /\ cli'[d] # "idle"
      BY <2>1, <2>2, <2>6, <2>7, <2>9 DEF IInv, Fresh, Waiting
    <3>2. \A d \in Conns : cli'[d] = "idle" => ~Held(d)'
      BY <2>1, <2>2, <2>7 DEF IInv, Fresh
    <3>3. ASSUME NEW i \in 1 .. Len(queue'), NEW j \in 1 .. Len(queue'), queue'[i] = queue'[j]
          PROVE  i = j
      BY <2>3, <2>8, <2>10, <3>3 DEF IInv, Fresh
    <3>4. pc' = "fork" => \A k \in Kids : connfd' \notin fds'[k]
      BY <2>1 DEF IInv, Fresh
    <3>. QED  BY <3>1, <3>2, <3>3, <3>4 DEF Fresh
  <2>. QED  BY <2>4, <2>5, <2>11 DEF IInv
<1>3. CASE (\E how \in {"exit", "eof", "reset"} : Leave(c, how)) \/ SeesClose(c)
  <2>1. /\ UNCHANGED <<pc, connfd, pid, reaping, sigchld, kid, conn, fds, queue, errors>>
        /\ \E v \in {"exit", "eof", "reset", "done", "dropped"} : cli' = [cli EXCEPT ![c] = v]
        /\ cli[c] # "idle"
    BY <1>3 DEF Leave, SeesClose, main
  <2>2. TypeOK' /\ MainOwn'
    BY <1>1, <2>1 DEF TypeOK, MainOwn
  <2>3. \A d \in Conns : (cli'[d] = "idle" <=> cli[d] = "idle")
    BY <1>1, <2>1 DEF TypeOK
  <2>. QED  BY <2>1, <2>2, <2>3, QuietStep
<1>. QED  BY <1>2, <1>3 DEF Client

-----------------------------------------------------------------------------
(* main() and the children.                                                *)

LEMMA AcceptStep == IInv /\ Accept => IInv'
<1>. SUFFICES ASSUME IInv, Accept PROVE IInv'
  OBVIOUS
<1>. USE ForkAssumption
<1>0. TypeOK /\ OwnConnection /\ MainOwn /\ Fresh
  BY DEF IInv
<1>. DEFINE c == Head(queue)
<1>1. /\ connfd' = c /\ queue' = Tail(queue) /\ queue # <<>> /\ pc = "accept" /\ pc' = "fork"
      /\ fds' = [fds EXCEPT ![Main] = @ \cup {c}]
      /\ UNCHANGED <<pid, reaping, sigchld, kid, conn, cli, errors>>
  BY DEF Accept
<1>2. /\ queue \in Seq(Conns) /\ fds \in [Procs -> SUBSET (Conns \cup {Listen})]
  BY <1>0 DEF TypeOK
<1>3. /\ c \in Conns /\ c = queue[1] /\ Len(queue) \in Nat /\ Len(queue) > 0
      /\ queue' \in Seq(Conns) /\ Len(queue') = Len(queue) - 1
      /\ \A i \in 1 .. Len(queue') : queue'[i] = queue[i + 1]
  BY <1>1, <1>2, HeadTailProperties
<1>. HIDE DEF c
<1>4. c \in Waiting /\ ~Held(c)
  BY <1>0, <1>3 DEF Waiting, Fresh
<1>5. TypeOK'
  <2>1. fds' \in [Procs -> SUBSET (Conns \cup {Listen})] /\ c \in fds'[Main]
    BY <1>1, <1>2, <1>3 DEF Procs
  <2>. QED  BY <1>0, <1>1, <1>3, <2>1 DEF TypeOK
<1>6. \A k \in Kids : fds'[k] = fds[k]
  BY <1>1, <1>2 DEF Procs
<1>7. OwnConnection'
  BY <1>0, <1>1, <1>6 DEF OwnConnection
<1>8. MainOwn'
  BY <1>0, <1>1, <1>2 DEF MainOwn, Procs
<1>9. Fresh'
  <2>1. \A i \in 1 .. Len(queue') : i + 1 \in 1 .. Len(queue) /\ i + 1 # 1
    BY <1>3
  <2>2. Waiting' \subseteq Waiting \ {c}
    <3>. SUFFICES ASSUME NEW i \in 1 .. Len(queue') PROVE queue'[i] \in Waiting \ {c}
      BY DEF Waiting
    <3>1. queue'[i] = queue[i + 1] /\ i + 1 \in 1 .. Len(queue) /\ 1 \in 1 .. Len(queue) /\ i + 1 # 1
      BY <1>3, <2>1
    <3>2. queue[i + 1] # queue[1]
      BY <1>0, <3>1 DEF Fresh
    <3>. QED  BY <1>3, <3>1, <3>2 DEF Waiting
  <2>3. \A d : d # c => (Held(d)' => Held(d))
    BY <1>1, <1>2 DEF Held, Procs
  <2>4. \A d \in Waiting' : ~Held(d)' /\ cli'[d] # "idle"
    BY <1>0, <1>1, <2>2, <2>3 DEF Fresh
  <2>5. \A d \in Conns : cli'[d] = "idle" => ~Held(d)'
    BY <1>0, <1>1, <1>4, <2>3 DEF Fresh
  <2>6. ASSUME NEW i \in 1 .. Len(queue'), NEW j \in 1 .. Len(queue'), queue'[i] = queue'[j]
        PROVE  i = j
    <3>1. i + 1 = j + 1
      BY <1>0, <1>3, <2>1, <2>6 DEF Fresh
    <3>. QED  BY <3>1
  <2>7. \A k \in Kids : connfd' \notin fds'[k]
    BY <1>1, <1>4, <1>6 DEF Held, Procs
  <2>. QED  BY <2>4, <2>5, <2>6, <2>7 DEF Fresh
<1>. QED  BY <1>5, <1>7, <1>8, <1>9 DEF IInv

\* The child inherits the connection alone, and is the only one to do so.
LEMMA ForkStep ==
  ASSUME IInv, NEW k \in Kids, Fork(k)
  PROVE  IInv'
<1>. USE ForkAssumption
<1>0. TypeOK /\ OwnConnection /\ MainOwn /\ Fresh
  BY DEF IInv
<1>1. /\ pc = "fork" /\ pc' = "close" /\ pid' = k
      /\ kid' = [kid EXCEPT ![k] = "start"] /\ conn' = [conn EXCEPT ![k] = connfd]
      /\ fds' = [fds EXCEPT ![k] = fds[Main]]
      /\ UNCHANGED <<connfd, reaping, sigchld, queue, cli, errors>>
  BY DEF Fork
<1>2. /\ fds \in [Procs -> SUBSET (Conns \cup {Listen})] /\ conn \in [Kids -> Conns \cup {None}]
      /\ k # Main /\ k \in Procs /\ Main \in Procs
  BY <1>0 DEF TypeOK, Procs
<1>3. /\ fds'[k] = fds[Main] /\ fds'[Main] = fds[Main] /\ conn'[k] = connfd
      /\ \A j \in Kids : j # k => fds'[j] = fds[j] /\ conn'[j] = conn[j]
  BY <1>1, <1>2 DEF Procs
<1>4. TypeOK'
  <2>1. fds' \in [Procs -> SUBSET (Conns \cup {Listen})] /\ conn' \in [Kids -> Conns \cup {None}]
    BY <1>0, <1>1, <1>2 DEF TypeOK
  <2>2. kid' \in [Kids -> {"free", "start", "serve", "zombie"}]
    BY <1>0, <1>1 DEF TypeOK
  <2>. QED  BY <1>0, <1>1, <1>3, <2>1, <2>2 DEF TypeOK
<1>5. fds[Main] \subseteq {Listen, connfd} /\ \A j \in Kids : connfd \notin fds[j]
  BY <1>0, <1>1 DEF MainOwn, Fresh
<1>6. OwnConnection'
  <2>1. \A j \in Kids : fds'[j] \subseteq {Listen, conn'[j]}
    BY <1>0, <1>3, <1>5 DEF OwnConnection
  <2>2. ASSUME NEW i \in Kids, NEW j \in Kids, i # j PROVE fds'[i] \cap fds'[j] \subseteq {Listen}
    BY <1>0, <1>3, <1>5, <2>2 DEF OwnConnection
  <2>. QED  BY <2>1, <2>2 DEF OwnConnection
<1>7. MainOwn'
  BY <1>0, <1>1, <1>3 DEF MainOwn
<1>8. Fresh'
  <2>1. \A d : Held(d)' => Held(d)
    BY <1>2, <1>3 DEF Held, Procs
  <2>. QED  BY <1>0, <1>1, <2>1 DEF Fresh, Waiting
<1>. QED  BY <1>4, <1>6, <1>7, <1>8 DEF IInv

LEMMA MainStepInv == IInv /\ (MainStep \/ AcceptFails) => IInv'
<1>. SUFFICES ASSUME IInv, MainStep \/ AcceptFails PROVE IInv'
  OBVIOUS
<1>. USE ForkAssumption
<1>0. TypeOK /\ MainOwn
  BY DEF IInv
<1>1. CASE ForkFails
  <2>1. TypeOK' /\ MainOwn'
    BY <1>0, <1>1 DEF TypeOK, MainOwn, ForkFails
  <2>. QED  BY <1>1, <2>1, QuietStep DEF ForkFails
<1>2. CASE Close
  <2>0. /\ pc' = "accept" /\ pc = "close" /\ fds' = [fds EXCEPT ![Main] = @ \ {connfd}]
        /\ UNCHANGED <<connfd, pid, reaping, sigchld, kid, conn, queue, cli, errors>>
    BY <1>2 DEF Close, ParentCloses
  <2>1. TypeOK'
    <3>1. fds' \in [Procs -> SUBSET (Conns \cup {Listen})]
      BY <1>0, <2>0 DEF TypeOK, Procs
    <3>. QED  BY <1>0, <2>0, <3>1 DEF TypeOK
  <2>2. \A p \in Procs : fds'[p] \subseteq fds[p]
    BY <1>0, <2>0 DEF TypeOK, Procs
  <2>3. MainOwn'
    BY <1>0, <2>0 DEF TypeOK, Procs, MainOwn
  <2>. QED  BY <2>0, <2>1, <2>2, <2>3, QuietStep
<1>3. CASE AcceptFails /\ ChecksAccept
  <2>0. /\ pc' = "exited" /\ fds' = [fds EXCEPT ![Main] = {}]
        /\ kid' = [k \in Kids |-> IF kid[k] = "zombie" THEN "free" ELSE kid[k]]
        /\ errors < MaxErrors /\ errors' = errors + 1
        /\ UNCHANGED <<connfd, pid, reaping, sigchld, conn, queue, cli>>
    BY <1>3 DEF AcceptFails
  <2>1. TypeOK'
    <3>1. fds' \in [Procs -> SUBSET (Conns \cup {Listen})]
      BY <1>0, <2>0 DEF TypeOK, Procs
    <3>2. kid' \in [Kids -> {"free", "start", "serve", "zombie"}] /\ errors' \in 0 .. MaxErrors
      BY <1>0, <2>0 DEF TypeOK
    <3>. QED  BY <1>0, <2>0, <3>1, <3>2 DEF TypeOK
  <2>2. \A p \in Procs : fds'[p] \subseteq fds[p]
    BY <1>0, <2>0 DEF TypeOK, Procs
  <2>3. MainOwn'
    BY <1>0, <2>0 DEF TypeOK, Procs, MainOwn
  <2>. QED  BY <2>0, <2>1, <2>2, <2>3, QuietStep
<1>4. CASE AcceptFails /\ ~ChecksAccept
  <2>0. /\ pc = "accept" /\ pc' = "fork" /\ connfd' = None
        /\ errors < MaxErrors /\ errors' = errors + 1
        /\ UNCHANGED <<fds, kid, pid, reaping, sigchld, conn, queue, cli>>
    BY <1>4 DEF AcceptFails
  <2>1. TypeOK'
    <3>1. errors' \in 0 .. MaxErrors
      BY <1>0, <2>0 DEF TypeOK
    <3>. QED  BY <1>0, <1>4, <2>0, <3>1 DEF TypeOK
  <2>2. OwnConnection' /\ MainOwn'
    BY <2>0 DEF IInv, OwnConnection, MainOwn
  <2>3. Fresh'
    <3>1. \A k \in Kids : None \notin fds[k]
      BY <1>0 DEF TypeOK, Procs
    <3>. QED  BY <2>0, <3>1 DEF IInv, Fresh, Held, Waiting
  <2>. QED  BY <2>1, <2>2, <2>3 DEF IInv
<1>. QED  BY <1>1, <1>2, <1>3, <1>4, AcceptStep, ForkStep DEF MainStep

LEMMA HandlerStep == IInv /\ Handler => IInv'
<1>. SUFFICES ASSUME IInv, Handler PROVE IInv'
  OBVIOUS
<1>1. /\ UNCHANGED <<pc, connfd, pid, conn, fds, queue, cli, errors>>
      /\ reaping' \in BOOLEAN /\ sigchld' \in BOOLEAN
      /\ kid' \in [Kids -> {"free", "start", "serve", "zombie"}]
  BY DEF Handler, Deliver, Reap, Return, ReapsMore, EintrRetry, IInv, TypeOK
<1>2. TypeOK' /\ MainOwn'
  BY <1>1 DEF IInv, TypeOK, MainOwn
<1>. QED  BY <1>1, <1>2, QuietStep

LEMMA KidStepInv ==
  ASSUME IInv, NEW k \in Kids, KidStep(k)
  PROVE  IInv'
<1>. USE ForkAssumption
<1>0. TypeOK /\ MainOwn
  BY DEF IInv
<1>1. /\ UNCHANGED <<pc, connfd, pid, reaping, conn, queue, cli, errors>>
      /\ \E s \in {"serve", "free", "zombie"} : kid' = [kid EXCEPT ![k] = s]
      /\ sigchld' \in BOOLEAN
      /\ \/ fds' = [fds EXCEPT ![k] = {}]
         \/ fds' = [fds EXCEPT ![k] = @ \ {Listen}]
  BY <1>0 DEF KidStep, CloseListen, Exit, main, TypeOK
<1>2. /\ fds' \in [Procs -> SUBSET (Conns \cup {Listen})] /\ fds'[Main] = fds[Main]
      /\ \A p \in Procs : fds'[p] \subseteq fds[p]
  BY <1>0, <1>1 DEF TypeOK, Procs
<1>3. TypeOK'
  <2>1. kid' \in [Kids -> {"free", "start", "serve", "zombie"}]
    BY <1>0, <1>1 DEF TypeOK
  <2>. QED  BY <1>0, <1>1, <1>2, <2>1 DEF TypeOK
<1>4. MainOwn'
  BY <1>0, <1>1, <1>2 DEF MainOwn
<1>. QED  BY <1>1, <1>2, <1>3, <1>4, QuietStep

-----------------------------------------------------------------------------
(* The theorems.                                                           *)

\* The inductive invariant holds in every reachable state.
THEOREM Invariant == Spec => []IInv
<1>1. Init => IInv
  <2>. SUFFICES ASSUME Init PROVE IInv
    OBVIOUS
  <2>1. /\ fds = [p \in Procs |-> IF p = Main THEN {Listen} ELSE {}]
        /\ queue = <<>> /\ Len(queue) = 0 /\ pc = "accept"
        /\ \A k \in Kids : fds[k] = {} /\ k \in Procs
        /\ fds[Main] = {Listen}
    BY ForkAssumption DEF Init, Procs
  <2>2. TypeOK
    <3>1. fds \in [Procs -> SUBSET (Conns \cup {Listen})]
      BY <2>1
    <3>2. /\ kid \in [Kids -> {"free", "start", "serve", "zombie"}]
          /\ cli \in [Conns -> {"idle", "open", "exit", "eof", "reset", "dropped", "done"}]
          /\ conn \in [Kids -> Conns \cup {None}]
      BY DEF Init
    <3>3. errors \in 0 .. MaxErrors /\ queue \in Seq(Conns)
      BY ForkAssumption DEF Init
    <3>4. reaping \in BOOLEAN /\ sigchld \in BOOLEAN
      BY DEF Init
    <3>5. pc = "accept" /\ connfd = None /\ pid = None
      BY DEF Init
    <3>. QED  BY <3>1, <3>2, <3>3, <3>4, <3>5 DEF TypeOK
  <2>3. \A c \in Conns : ~Held(c)
    BY <2>1, ForkAssumption DEF Held, Procs
  <2>. QED  BY <2>1, <2>2, <2>3 DEF IInv, OwnConnection, MainOwn, Fresh, Waiting
<1>2. IInv /\ [Next]_vars => IInv'
  <2>. SUFFICES ASSUME IInv, [Next]_vars PROVE IInv'
    OBVIOUS
  <2>1. CASE UNCHANGED vars
    <3>1. TypeOK' /\ MainOwn'
      BY <2>1 DEF vars, main, IInv, TypeOK, MainOwn
    <3>. QED  BY <2>1, <3>1, QuietStep DEF vars, main
  <2>. QED  BY <2>1, ClientStep, MainStepInv, HandlerStep, KidStepInv DEF Next
<1>. QED  BY <1>1, <1>2, PTL DEF Spec

\* Types; main forks only for a connection it has open.
THEOREM TypeCorrect == Spec => []TypeOK
<1>1. IInv => TypeOK
  BY DEF IInv
<1>. QED  BY <1>1, Invariant, PTL

\* No two children have the same connection, and none has another's.
THEOREM Isolation == Spec => []OwnConnection
<1>1. IInv => OwnConnection
  BY DEF IInv
<1>. QED  BY <1>1, Invariant, PTL

\* A zombie has a SIGCHLD or a waitpid() still to come.
THEOREM NoHiddenZombie == Spec => []ZombieNoticed
<1>1. Init => ZombieNoticed
  BY DEF Init, ZombieNoticed, Zombies
<1>2. TypeOK /\ ZombieNoticed /\ [Next]_vars => ZombieNoticed'
  <2>. SUFFICES ASSUME TypeOK, ZombieNoticed, [Next]_vars, ReapsChildren
                PROVE  Zombies' # {} => sigchld' \/ reaping'
    BY DEF ZombieNoticed
  <2>0. kid \in [Kids -> {"free", "start", "serve", "zombie"}]
    BY DEF TypeOK
  <2>1. CASE Handler
    BY <2>0, <2>1 DEF Handler, Deliver, Reap, Return, ReapsMore, Zombies, ZombieNoticed
  <2>2. CASE \E k \in Kids : Exit(k)
    BY <2>2 DEF Exit
  <2>3. CASE \/ MainStep \/ AcceptFails \/ \E k \in Kids : CloseListen(k)
             \/ \E c \in Conns : Client(c)
             \/ UNCHANGED vars
    <3>1. UNCHANGED <<sigchld, reaping>>
      BY <2>3 DEF MainStep, Accept, Fork, ForkFails, Close, AcceptFails, CloseListen,
                  Client, Connect, Leave, SeesClose, vars, main
    <3>2. \A k \in Kids : kid'[k] = "zombie" => kid[k] = "zombie"
      <4>1. CASE UNCHANGED kid
        BY <4>1
      <4>2. CASE \E k \in Kids : Fork(k) \/ CloseListen(k)
        BY <2>0, <4>2 DEF Fork, CloseListen
      <4>3. CASE AcceptFails /\ ChecksAccept
        BY <2>0, <4>3 DEF AcceptFails
      <4>4. UNCHANGED kid \/ (\E k \in Kids : Fork(k) \/ CloseListen(k))
            \/ (AcceptFails /\ ChecksAccept)
        <5>1. CASE AcceptFails
          BY <5>1 DEF AcceptFails
        <5>2. CASE MainStep
          BY <5>2 DEF MainStep, Accept, ForkFails, Close
        <5>3. CASE \E c \in Conns : Client(c)
          BY <5>3 DEF Client, Connect, Leave, SeesClose
        <5>4. CASE UNCHANGED vars
          BY <5>4 DEF vars
        <5>. QED  BY <2>3, <5>1, <5>2, <5>3, <5>4
      <4>. QED  BY <4>1, <4>2, <4>3, <4>4
    <3>3. Zombies' \subseteq Zombies
      BY <3>2 DEF Zombies
    <3>. QED  BY <3>1, <3>3 DEF ZombieNoticed
  <2>. QED  BY <2>1, <2>2, <2>3 DEF Next, KidStep
<1>. QED  BY <1>1, <1>2, TypeCorrect, PTL DEF Spec

-----------------------------------------------------------------------------
(* Nobody is hung up on.                                                   *)

\* Until main has closed its copy, a client that talks is the child's.
Inherited ==
  pc = "close" /\ pid # None /\ connfd # None /\ cli[connfd] = "open" => connfd \in fds[pid]

\* Only a process that runs has anything open.
Bare == \A k \in Kids : kid[k] \in {"free", "zombie"} => fds[k] = {}

\* A child that ends, or has not begun, has nothing open: Exit closes it all.
LEMMA BareKept == TypeOK /\ Bare /\ [Next]_vars => Bare'
<1>. SUFFICES ASSUME TypeOK, Bare, [Next]_vars, NEW k \in Kids, kid'[k] \in {"free", "zombie"}
              PROVE  fds'[k] = {}
  BY DEF Bare
<1>0. /\ kid \in [Kids -> {"free", "start", "serve", "zombie"}] /\ k \in Procs /\ k # Main
      /\ fds \in [Procs -> SUBSET (Conns \cup {Listen})]
      /\ kid[k] \in {"free", "zombie"} => fds[k] = {}
  BY ForkAssumption DEF TypeOK, Bare, Procs
<1>1. ASSUME NEW j \in Kids, Fork(j) PROVE fds'[k] = {}
  BY <1>0, <1>1 DEF Fork
<1>2. ASSUME NEW j \in Kids, CloseListen(j) PROVE fds'[k] = {}
  BY <1>0, <1>2 DEF CloseListen
<1>3. ASSUME NEW j \in Kids, Exit(j) PROVE fds'[k] = {}
  <2>1. fds' = [fds EXCEPT ![j] = {}] /\ \E v : kid' = [kid EXCEPT ![j] = v]
    BY <1>3 DEF Exit
  <2>. QED  BY <1>0, <2>1
<1>4. ASSUME NEW j \in Kids, Reap(j) PROVE fds'[k] = {}
  BY <1>0, <1>4 DEF Reap
<1>5. CASE AcceptFails
  <2>1. kid[k] \in {"free", "zombie"} /\ fds'[k] = fds[k]
    BY <1>0, <1>5 DEF AcceptFails
  <2>. QED  BY <1>0, <2>1
<1>6. CASE Accept \/ Close
  BY <1>0, <1>6 DEF Accept, Close
<1>7. CASE ForkFails \/ Deliver \/ Return \/ (\E c \in Conns : Client(c)) \/ UNCHANGED vars
  BY <1>0, <1>7 DEF ForkFails, Deliver, Return, Client, Connect, Leave, SeesClose, vars
<1>. QED  BY <1>1, <1>2, <1>3, <1>4, <1>5, <1>6, <1>7 DEF Next, MainStep, Handler, KidStep

\* A child ends only when its client has ended, and main drops only a connection
\* that the child has.
\* The child that fork() returns has the connection before main closes its own.
LEMMA InheritedKept == IInv /\ Inherited /\ [Next]_vars => Inherited'
<1>. SUFFICES ASSUME IInv, Inherited, [Next]_vars,
                     pc' = "close", pid' # None, connfd' # None, cli'[connfd'] = "open"
              PROVE  connfd' \in fds'[pid']
  BY DEF Inherited
<1>0. TypeOK /\ OwnConnection /\ Fresh
  BY DEF IInv
<1>1. ASSUME UNCHANGED <<pc, connfd, pid>>
      PROVE  pc = "close" /\ pid \in Kids /\ connfd \in Conns /\ connfd \in fds[Main] /\ pid \in Procs
  BY <1>0, <1>1, ForkAssumption DEF TypeOK, Procs
<1>2. ASSUME NEW k \in Kids, Fork(k) PROVE connfd' \in fds'[pid']
  <2>1. pid' = k /\ connfd' = connfd /\ fds' = [fds EXCEPT ![k] = fds[Main]] /\ pc = "fork"
    BY <1>2 DEF Fork
  <2>2. connfd \in fds[Main]
    BY <1>0, <2>1 DEF TypeOK
  <2>. QED  BY <1>0, <2>1, <2>2 DEF TypeOK, Procs
<1>3. ASSUME NEW c \in Conns, Connect(c) PROVE connfd' \in fds'[pid']
  <2>1. /\ UNCHANGED <<pc, connfd, pid, fds>> /\ cli' = [cli EXCEPT ![c] = "open"] /\ cli[c] = "idle"
    BY <1>3 DEF Connect, main
  <2>2. Held(connfd)
    BY <1>1, <2>1 DEF Held, Procs
  <2>3. c # connfd
    BY <1>0, <2>1, <2>2 DEF Fresh
  <2>4. cli[connfd] = "open"
    BY <1>0, <1>1, <2>1, <2>3 DEF TypeOK
  <2>. QED  BY <1>1, <2>1, <2>4 DEF Inherited
<1>4. ASSUME NEW c \in Conns, (\E how \in {"exit", "eof", "reset"} : Leave(c, how)) \/ SeesClose(c)
      PROVE  connfd' \in fds'[pid']
  <2>1. /\ UNCHANGED <<pc, connfd, pid, fds>>
        /\ \E v \in {"exit", "eof", "reset", "done", "dropped"} : cli' = [cli EXCEPT ![c] = v]
    BY <1>4 DEF Leave, SeesClose, main
  <2>2. cli[connfd] = "open"
    BY <1>0, <1>1, <2>1 DEF TypeOK
  <2>. QED  BY <1>1, <2>1, <2>2 DEF Inherited
<1>5. ASSUME NEW k \in Kids, CloseListen(k) PROVE connfd' \in fds'[pid']
  <2>1. UNCHANGED <<pc, connfd, pid, cli>> /\ fds' = [fds EXCEPT ![k] = @ \ {Listen}]
    BY <1>5 DEF CloseListen, main
  <2>2. connfd \in fds[pid] /\ connfd # Listen
    BY <1>1, <2>1, ForkAssumption DEF Inherited
  <2>. QED  BY <1>0, <1>1, <2>1, <2>2 DEF TypeOK, Procs
<1>6. ASSUME NEW k \in Kids, Exit(k) PROVE connfd' \in fds'[pid']
  <2>1. /\ UNCHANGED <<pc, connfd, pid, cli>> /\ fds' = [fds EXCEPT ![k] = {}]
        /\ conn[k] # None /\ cli[conn[k]] # "open"
    BY <1>6 DEF Exit, ReadEnds, main
  <2>2. connfd \in fds[pid] /\ connfd # Listen /\ cli[connfd] = "open"
    BY <1>1, <2>1, ForkAssumption DEF Inherited
  <2>3. conn[pid] = connfd
    BY <1>0, <1>1, <2>1, <2>2 DEF OwnConnection
  <2>4. k # pid
    BY <2>1, <2>2, <2>3
  <2>. QED  BY <1>0, <1>1, <2>1, <2>2, <2>4 DEF TypeOK, Procs
<1>7. CASE Handler \/ UNCHANGED vars
  <2>1. UNCHANGED <<pc, connfd, pid, cli, fds>>
    BY <1>7 DEF Handler, Deliver, Reap, Return, EintrRetry, vars, main
  <2>. QED  BY <1>1, <2>1 DEF Inherited
<1>8. CASE Accept \/ ForkFails \/ Close \/ AcceptFails
  BY <1>8 DEF Accept, ForkFails, Close, AcceptFails
<1>. QED  BY <1>2, <1>3, <1>4, <1>5, <1>6, <1>7, <1>8 DEF Next, MainStep, KidStep, Client

\* Who closes the last descriptor of a client that talks is main, after a fork()
\* that failed.
LEMMA HangsUpOn == IInv /\ Bare /\ Inherited /\ Next => HungUpOn
<1>. SUFFICES ASSUME IInv, Bare, Inherited, Next,
                     NEW c \in Conns, cli[c] = "open", Held(c), ~Held(c)'
              PROVE  pc = "close" /\ connfd = c /\ pid = None
  BY DEF HungUpOn
<1>0. TypeOK /\ OwnConnection /\ MainOwn
  BY DEF IInv
<1>1. PICK p \in Procs : c \in fds[p]
  BY DEF Held
<1>2. c \notin fds'[p] /\ fds'[p] # fds[p] /\ c # Listen
  BY <1>1, ForkAssumption DEF Held, Procs
<1>3. CASE Close
  <2>1. pc = "close" /\ fds' = [fds EXCEPT ![Main] = @ \ {connfd}]
    BY <1>3 DEF Close, ParentCloses
  <2>2. p = Main /\ c = connfd
    BY <1>0, <1>1, <1>2, <2>1 DEF TypeOK, Procs
  <2>3. ASSUME pid # None PROVE FALSE
    <3>1. pid \in Kids /\ pid # Main /\ c # None
      BY <1>0, <2>3, ForkAssumption DEF TypeOK
    <3>2. c \in fds[pid]
      BY <2>1, <2>2, <2>3, <3>1 DEF Inherited
    <3>3. fds'[pid] = fds[pid]
      BY <1>0, <2>1, <3>1 DEF TypeOK, Procs
    <3>. QED  BY <3>1, <3>2, <3>3 DEF Held, Procs
  <2>. QED  BY <2>1, <2>2, <2>3
<1>4. CASE AcceptFails
  <2>1. pc = "accept" /\ fds' = [fds EXCEPT ![Main] = {}]
    BY <1>2, <1>4 DEF AcceptFails
  <2>2. p = Main
    BY <1>0, <1>2, <2>1 DEF TypeOK, Procs
  <2>. QED  BY <1>0, <1>1, <1>2, <2>1, <2>2 DEF MainOwn
<1>5. ASSUME NEW k \in Kids, Exit(k) PROVE FALSE
  <2>1. fds' = [fds EXCEPT ![k] = {}] /\ conn[k] # None /\ cli[conn[k]] # "open"
    BY <1>5 DEF Exit, ReadEnds
  <2>2. p = k
    BY <1>0, <1>1, <1>2, <2>1 DEF TypeOK, Procs
  <2>. QED  BY <1>0, <1>1, <1>2, <2>1, <2>2 DEF OwnConnection
<1>6. ASSUME NEW k \in Kids, CloseListen(k) PROVE FALSE
  BY <1>0, <1>1, <1>2, <1>6 DEF CloseListen, TypeOK, Procs
<1>7. ASSUME NEW k \in Kids, Fork(k) PROVE FALSE
  <2>1. fds' = [fds EXCEPT ![k] = fds[Main]] /\ pc = "fork"
    BY <1>7 DEF Fork
  <2>2. p = k /\ c \in fds[k]
    BY <1>0, <1>1, <1>2, <2>1 DEF TypeOK, Procs
  <2>3. kid[k] = "free"
    BY <1>7 DEF Fork
  <2>. QED  BY <1>7, <2>2, <2>3 DEF Bare
<1>8. CASE Accept
  BY <1>0, <1>1, <1>2, <1>8 DEF Accept, TypeOK, Procs
<1>9. CASE ForkFails \/ Handler \/ \E d \in Conns : Client(d)
  BY <1>2, <1>9 DEF ForkFails, Handler, Deliver, Reap, Return, Client, Connect, Leave, SeesClose
<1>. QED  BY <1>3, <1>4, <1>5, <1>6, <1>7, <1>8, <1>9 DEF Next, MainStep, KidStep

\* OnlyRefusedDropped: a client still talking is hung up on only when fork() has
\* failed for it.
THEOREM OnlyRefused == Spec => OnlyRefusedDropped
<1>1. Init => Bare /\ Inherited
  BY ForkAssumption DEF Init, Bare, Inherited, Procs
<1>2. IInv => TypeOK
  BY DEF IInv
<1>3. Spec => [](Bare /\ Inherited)
  BY <1>1, <1>2, BareKept, InheritedKept, Invariant, PTL DEF Spec
<1>4. IInv /\ Bare /\ Inherited /\ [Next]_vars => [HungUpOn]_vars
  BY HangsUpOn
<1>5. Spec => [][HungUpOn]_vars
  BY <1>3, <1>4, Invariant, PTL DEF Spec
<1>. QED  BY <1>5 DEF OnlyRefusedDropped
=============================================================================
