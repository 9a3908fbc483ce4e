----------------------- MODULE PrethreadedServerProofs -----------------------
(* Proofs about PrethreadedServer, for every number of workers,            *)
(* connections and descriptors and every MAX_QUEUE.                        *)
EXTENDS PrethreadedServer, FiniteSetTheorems, SequenceTheorems, TLAPS

(***************************************************************************)
(* The inductive invariant. FdExclusive is not inductive: a descriptor     *)
(* moves to and from the ring under the mutex, and Jobs is off from the    *)
(* fields of Queue by one in two control states.                           *)
(***************************************************************************)

\* The mutex is held by the thread, if any, inside a critical section.
LockOwner == \A t \in Threads : mutex = t <=> pc[t] \in HoldsMutex

\* A thread holds a descriptor exactly where connfd is live.
Handling == {"put_lock", "put_check", "get_dec", "get_unlock", "tally", "write", "close"}
HandPc == \A t \in Threads : HasFd(t) <=> pc[t] \in Handling

\* iput is where the next job goes, and count is right but in mid-update.
Ring ==
  /\ pc[Main] = "put_count" => count < MaxQueue
  /\ \A w \in Workers : pc[w] = "get_dec" => count > 0
  /\ iput = At(Depth)
  /\ \A k \in 1 .. Depth : Jobs[k] \in Fds

IInv == TypeOK /\ LockOwner /\ HandPc /\ Ring /\ FdExclusive

-----------------------------------------------------------------------------
(* Facts about the ring.                                                   *)

\* Depth is a possible length of the ring.
LEMMA DepthRange == IInv => Depth \in 0 .. MaxQueue
  BY ServerAssumption DEF IInv, TypeOK, Ring, Depth

\* At wraps around inside the ring, and does not meet itself.
LEMMA AtRange ==
  ASSUME iget \in Indices, NEW k \in 0 .. MaxQueue
  PROVE  At(k) \in Indices
  BY ServerAssumption DEF At, Indices

LEMMA AtInjective ==
  ASSUME iget \in Indices, NEW j \in 0 .. MaxQueue - 1, NEW k \in 0 .. MaxQueue - 1, j # k
  PROVE  At(j) # At(k)
  BY ServerAssumption DEF At, Indices

\* Only the holder of the mutex is between two accesses to the queue.
LEMMA Exclusion ==
  ASSUME IInv, NEW t \in Threads, NEW u \in Threads,
         pc[t] \in HoldsMutex, pc[u] \in HoldsMutex
  PROVE  t = u
  BY DEF IInv, LockOwner

\* A step that keeps Depth, iget and slot keeps the jobs.
LEMMA JobsKept ==
  ASSUME Depth' = Depth, UNCHANGED <<iget, slot>>
  PROVE  Jobs' = Jobs /\ (\A k : At(k)' = At(k))
  BY DEF Jobs, At

\* A store appends the accepted descriptor to the jobs.
LEMMA StoreAppends ==
  ASSUME IInv, PutStore
  PROVE  /\ Depth' = Depth + 1 /\ Depth < MaxQueue
         /\ Jobs' = Append(Jobs, hand[Main])
         /\ iput' = At(Depth)'
         /\ hand[Main] \in Fds
<1>1. pc[Main] = "put_check" /\ pc'[Main] = "put_count" /\ count \in Nat /\ count < MaxQueue
  BY ServerAssumption DEF IInv, TypeOK, PutStore, Go, Full, Threads
<1>2. \A w \in Workers : pc[w] # "get_dec" /\ pc'[w] = pc[w]
  BY <1>1, Exclusion, ServerAssumption DEF HoldsMutex, Threads, PutStore, Go, IInv, TypeOK
<1>3. Depth = count /\ Depth' = count + 1
  BY <1>1, <1>2 DEF Depth, PutStore
<1>4. iget \in Indices /\ iget' = iget /\ iput \in Indices /\ iput = At(Depth)
  BY DEF IInv, TypeOK, Ring, PutStore
<1>5. hand[Main] \in Fds
  BY <1>1 DEF IInv, HandPc, Handling, HasFd, TypeOK, Threads
<1>6. slot' = [slot EXCEPT ![iput] = hand[Main]] /\ slot \in [Indices -> Fds \cup {NoFd}]
  BY DEF PutStore, IInv, TypeOK
<1>7. ASSUME NEW k \in 1 .. Depth
      PROVE  slot'[At(k - 1)'] = slot[At(k - 1)]
  <2>1. At(k - 1)' = At(k - 1)
    BY <1>4 DEF At
  <2>2. At(k - 1) # iput
    BY <1>1, <1>3, <1>4, AtInjective, ServerAssumption DEF At, Indices
  <2>3. At(k - 1) \in Indices
    BY <1>1, <1>3, <1>4, AtRange, ServerAssumption
  <2>. QED  BY <2>1, <2>2, <2>3, <1>6
<1>8. \A k \in Nat : k = Depth + 1 => At(k - 1)' = iput
  BY <1>1, <1>3, <1>4 DEF At
<1>9. Jobs' = Append(Jobs, hand[Main])
  <2>1. Jobs' = [k \in 1 .. Depth + 1 |-> slot'[At(k - 1)']]
    BY <1>3 DEF Jobs
  <2>2. \A k \in 1 .. Depth + 1 :
          slot'[At(k - 1)'] = IF k = Depth + 1 THEN hand[Main] ELSE Jobs[k]
    <3>. SUFFICES ASSUME NEW k \in 1 .. Depth + 1
                  PROVE slot'[At(k - 1)'] = IF k = Depth + 1 THEN hand[Main] ELSE Jobs[k]
      OBVIOUS
    <3>1. CASE k = Depth + 1
      <4>1. At(k - 1)' = iput
        BY <3>1, <1>1, <1>3, <1>8
      <4>. QED  BY <3>1, <4>1, <1>4, <1>6
    <3>2. CASE k # Depth + 1
      <4>1. k \in 1 .. Depth
        BY <3>2, <1>1, <1>3
      <4>. QED  BY <3>2, <4>1, <1>7 DEF Jobs
    <3>. QED  BY <3>1, <3>2
  <2>3. Jobs \in [1 .. Depth -> Fds] /\ Depth \in Nat
    BY <1>1, <1>3 DEF IInv, Ring, Jobs
  <2>4. Append(Jobs, hand[Main])
          = [k \in 1 .. Depth + 1 |-> IF k = Depth + 1 THEN hand[Main] ELSE Jobs[k]]
    <3>1. Jobs \in Seq(Fds) /\ Len(Jobs) = Depth
      BY <2>3
    <3>. QED  BY <3>1, <1>5, <2>3
  <2>. QED  BY <2>1, <2>2, <2>4
<1>10. iput' = At(Depth)'
  BY <1>1, <1>3, <1>4, ServerAssumption DEF At, PutStore, Wrap, Indices
<1>. QED  BY <1>1, <1>3, <1>5, <1>9, <1>10

\* A take removes the oldest job.
LEMMA TakeTails ==
  ASSUME IInv, NEW w \in Workers, GetTake(w)
  PROVE  /\ Depth' = Depth - 1 /\ Depth > 0 /\ Depth \in Nat
         /\ Jobs' = Tail(Jobs) /\ Jobs # <<>>
         /\ hand'[w] = Head(Jobs) /\ hand'[w] = Jobs[1]
         /\ iput' = At(Depth)'
<1>1. /\ pc[w] = "get_check" /\ pc'[w] = "get_dec"
      /\ count \in Nat /\ count # 0 /\ count <= MaxQueue /\ count' = count
  BY ServerAssumption DEF IInv, TypeOK, GetTake, Go, Threads
<1>2. /\ pc[Main] # "put_count" /\ pc'[Main] = pc[Main]
      /\ \A v \in Workers : pc[v] # "get_dec"
  BY <1>1, Exclusion, ServerAssumption DEF HoldsMutex, Threads, GetTake, Go, IInv, TypeOK
<1>3. Depth = count /\ Depth' = count - 1
  BY <1>1, <1>2 DEF Depth
<1>4. /\ iget \in Indices /\ iget' = Wrap(iget) /\ slot' = slot
      /\ iput' = iput /\ iput = At(Depth)
  BY DEF IInv, TypeOK, Ring, GetTake
<1>5. \A k \in 0 .. Depth - 1 : At(k)' = At(k + 1)
  BY <1>1, <1>3, <1>4, ServerAssumption DEF At, Wrap, Indices
<1>6. iput' = At(Depth)'
  BY <1>1, <1>3, <1>4, ServerAssumption DEF At, Wrap, Indices
<1>7. At(0) = iget
  BY <1>4, ServerAssumption DEF At, Indices
<1>8. Jobs[1] = slot[iget]
  BY <1>1, <1>3, <1>7 DEF Jobs
<1>9. hand'[w] = slot[iget]
  BY DEF GetTake, IInv, TypeOK, Threads
<1>10. Jobs \in Seq(Fds) /\ Len(Jobs) = Depth
  BY <1>1, <1>3 DEF IInv, Ring, Jobs
<1>11. Jobs' = Tail(Jobs)
  <2>1. /\ Tail(Jobs) \in Seq(Fds) /\ Len(Tail(Jobs)) = Depth - 1
        /\ \A k \in 1 .. Depth - 1 : Tail(Jobs)[k] = Jobs[k + 1]
    BY <1>1, <1>3, <1>10, HeadTailProperties
  <2>2. Jobs' = [k \in 1 .. Depth - 1 |-> slot[At(k - 1)']]
    BY <1>3, <1>4 DEF Jobs
  <2>3. \A k \in 1 .. Depth - 1 : slot[At(k - 1)'] = Jobs[k + 1]
    <3>. SUFFICES ASSUME NEW k \in 1 .. Depth - 1
                  PROVE  slot[At(k - 1)'] = Jobs[k + 1]
      OBVIOUS
    <3>1. At(k - 1)' = At(k) /\ k + 1 \in 1 .. Depth /\ (k + 1) - 1 = k
      BY <1>1, <1>3, <1>5
    <3>. QED  BY <3>1 DEF Jobs
  <2>4. Jobs' \in Seq(Fds) /\ Len(Jobs') = Depth - 1
    BY <1>1, <1>3, <1>10, <2>2, <2>3
  <2>5. \A k \in 1 .. Len(Jobs') : Jobs'[k] = Tail(Jobs)[k]
    BY <2>1, <2>2, <2>3, <2>4
  <2>. QED  BY <2>1, <2>4, <2>5, SeqEqual
<1>. QED  BY <1>1, <1>3, <1>6, <1>8, <1>9, <1>10, <1>11

-----------------------------------------------------------------------------
(* Each part of IInv is kept by every step.                                *)

\* Types are kept: count stays in range because a put checks Full and a
\* take checks count under the mutex.
LEMMA TypeStep == IInv /\ [Next]_vars => TypeOK'
<1>. SUFFICES ASSUME IInv, [Next]_vars PROVE TypeOK'
  OBVIOUS
<1>. USE ServerAssumption DEF TypeOK, Go, Threads, MainPc, WorkerPc, PrintPc, queue, net, sig
<1>0. TypeOK
  BY DEF IInv
<1>1. ASSUME NEW w \in Workers, Spawn(w) PROVE TypeOK'
  BY <1>0, <1>1 DEF Spawn
<1>2. CASE SpawnFails
  BY <1>0, <1>2 DEF SpawnFails
<1>3. ASSUME NEW c \in Conns, Accept(c) PROVE TypeOK'
  BY <1>0, <1>3 DEF Accept
<1>4. CASE PutLock
  BY <1>0, <1>4 DEF PutLock, Lock
<1>5. CASE PutDrop
  BY <1>0, <1>5 DEF PutDrop, Closed
<1>6. CASE PutStore
  BY <1>0, <1>6 DEF PutStore, Wrap, Indices
<1>7. CASE PutCount
  <2>1. count + 1 \in 0 .. MaxQueue
    BY <1>0, <1>7 DEF PutCount, IInv, Ring
  <2>2. PICK p \in [Threads -> MainPc \cup WorkerPc] :
          /\ pc' = p /\ p[Main] = "put_unlock"
          /\ \A w \in Workers : p[w] \in WorkerPc
    <3>1. CASE Waiting = {}
      BY <1>0, <1>7, <3>1 DEF PutCount, Signalled
    <3>2. CASE Waiting # {}
      BY <1>0, <1>7, <3>2 DEF PutCount, Signalled, Waiting
    <3>. QED  BY <3>1, <3>2
  <2>. QED  BY <1>0, <1>7, <2>1, <2>2 DEF PutCount
<1>8. CASE PutUnlock
  BY <1>0, <1>8 DEF PutUnlock
<1>9. CASE HandlerStep
  <2>1. CASE Exit
    BY <1>0, <2>1 DEF Exit
  <2>2. ASSUME NEW w \in Workers, Report(w) PROVE TypeOK'
    BY <1>0, <2>2 DEF Report
  <2>. QED  BY <1>9, <2>1, <2>2 DEF HandlerStep
<1>10. CASE Environment
  <2>1. ASSUME NEW c \in Conns, Connect(c) PROVE TypeOK'
    BY <1>0, <2>1 DEF Connect
  <2>2. ASSUME NEW c \in Conns, Reset(c) PROVE TypeOK'
    BY <1>0, <2>2 DEF Reset
  <2>3. ASSUME NEW w \in Workers, SpuriousWakeup(w) PROVE TypeOK'
    BY <1>0, <2>3 DEF SpuriousWakeup
  <2>4. ASSUME NEW t \in Threads, SigInt(t) PROVE TypeOK'
    BY <1>0, <2>4 DEF SigInt
  <2>. QED  BY <1>10, <2>1, <2>2, <2>3, <2>4 DEF Environment
<1>11. ASSUME NEW w \in Workers, GetLock(w) PROVE TypeOK'
  <2>1. pc' = [pc EXCEPT ![w] = "get_check"]
    BY <1>11 DEF GetLock
  <2>. QED  BY <1>0, <1>11, <2>1 DEF GetLock, Lock
<1>12. ASSUME NEW w \in Workers, GetWait(w) PROVE TypeOK'
  BY <1>0, <1>12 DEF GetWait
<1>13. ASSUME NEW w \in Workers, GetTake(w) PROVE TypeOK'
  BY <1>0, <1>13 DEF GetTake, Wrap, Indices
<1>14. ASSUME NEW w \in Workers, GetDec(w) PROVE TypeOK'
  BY <1>0, <1>14 DEF GetDec, IInv, Ring
<1>15. ASSUME NEW w \in Workers, GetUnlock(w) PROVE TypeOK'
  BY <1>0, <1>15 DEF GetUnlock
<1>16. ASSUME NEW w \in Workers, Tally(w) PROVE TypeOK'
  BY <1>0, <1>16 DEF Tally
<1>17. ASSUME NEW w \in Workers, Write(w) PROVE TypeOK'
  <2>1. up' \in BOOLEAN /\ reply' \in [Conns -> Workers \cup {Nobody}]
    <3>1. CASE UNCHANGED reply /\ up' \in BOOLEAN
      BY <1>0, <3>1
    <3>2. CASE UNCHANGED up /\ \E c \in Conns : reply' = [reply EXCEPT ![c] = w]
      BY <1>0, <3>2
    <3>. QED  BY <1>17, <3>1, <3>2 DEF Write
  <2>. QED  BY <1>0, <1>17, <2>1 DEF Write
<1>18. ASSUME NEW w \in Workers, Close(w) PROVE TypeOK'
  BY <1>0, <1>18 DEF Close, Closed
<1>19. CASE UNCHANGED vars
  BY <1>0, <1>19 DEF vars
<1>20. ASSUME NEW t \in Threads, PrintStep(t) PROVE TypeOK'
  <2>1. CASE PrintTake(t) \/ PrintOut(t)
    BY <1>0, <2>1 DEF PrintTake, PrintOut
  <2>2. CASE PrintDone(t)
    BY <1>0, <2>2 DEF PrintDone
  <2>. QED  BY <1>20, <2>1, <2>2 DEF PrintStep
<1>. QED
  BY <1>1, <1>2, <1>3, <1>4, <1>5, <1>6, <1>7, <1>8, <1>9, <1>10, <1>11, <1>12,
     <1>13, <1>14, <1>15, <1>16, <1>17, <1>18, <1>19, <1>20
     DEF Next, MainStep, WorkerStep, Threads

\* Mutual exclusion is kept: only Lock enters a critical section, and each way
\* out of one (put_unlock, get_unlock, pthread_cond_wait) releases the mutex.
LEMMA OwnerStep == IInv /\ [Next]_vars => LockOwner'
<1>. SUFFICES ASSUME IInv, [Next]_vars PROVE LockOwner'
  OBVIOUS
<1>. USE ServerAssumption DEF LockOwner, HoldsMutex, Go, Threads
<1>0. /\ LockOwner /\ pc \in [Threads -> MainPc \cup WorkerPc]
      /\ mutex \in Threads \cup {Nobody}
  BY DEF IInv, TypeOK
<1>1. ASSUME NEW w \in Workers, Spawn(w) PROVE LockOwner'
  BY <1>0, <1>1 DEF Spawn
<1>2. CASE SpawnFails
  BY <1>0, <1>2 DEF SpawnFails
<1>3. ASSUME NEW c \in Conns, Accept(c) PROVE LockOwner'
  BY <1>0, <1>3 DEF Accept
<1>4. CASE PutLock
  BY <1>0, <1>4 DEF PutLock, Lock
<1>5. CASE PutDrop
  BY <1>0, <1>5 DEF PutDrop
<1>6. CASE PutStore
  BY <1>0, <1>6 DEF PutStore
<1>7. CASE PutCount
  <2>1. CASE Waiting = {}
    BY <1>0, <1>7, <2>1 DEF PutCount, Signalled
  <2>2. CASE Waiting # {}
    BY <1>0, <1>7, <2>2 DEF PutCount, Signalled, Waiting
  <2>. QED  BY <2>1, <2>2
<1>8. CASE PutUnlock
  BY <1>0, <1>8 DEF PutUnlock
<1>9. CASE HandlerStep
  BY <1>0, <1>9 DEF HandlerStep, Exit, Report
<1>10. CASE Environment
  <2>1. CASE UNCHANGED <<pc, mutex>>
    BY <1>0, <2>1
  <2>2. ASSUME NEW w \in Workers, SpuriousWakeup(w) PROVE LockOwner'
    BY <1>0, <2>2 DEF SpuriousWakeup
  <2>. QED  BY <1>10, <2>1, <2>2 DEF Environment, Connect, Reset, SigInt
<1>11. ASSUME NEW w \in Workers, GetLock(w) PROVE LockOwner'
  BY <1>0, <1>11 DEF GetLock, Lock
<1>12. ASSUME NEW w \in Workers, GetWait(w) PROVE LockOwner'
  BY <1>0, <1>12 DEF GetWait
<1>13. ASSUME NEW w \in Workers, GetTake(w) PROVE LockOwner'
  BY <1>0, <1>13 DEF GetTake
<1>14. ASSUME NEW w \in Workers, GetDec(w) PROVE LockOwner'
  BY <1>0, <1>14 DEF GetDec
<1>15. ASSUME NEW w \in Workers, GetUnlock(w) PROVE LockOwner'
  BY <1>0, <1>15 DEF GetUnlock
<1>16. ASSUME NEW w \in Workers, Tally(w) \/ Write(w) \/ Close(w) PROVE LockOwner'
  BY <1>0, <1>16 DEF Tally, Write, Close
<1>17. CASE UNCHANGED vars
  BY <1>0, <1>17 DEF vars
<1>18. ASSUME NEW t \in Threads, PrintStep(t) PROVE LockOwner'
  BY <1>0, <1>18 DEF PrintStep, PrintTake, PrintOut, PrintDone
<1>. QED
  BY <1>1, <1>2, <1>3, <1>4, <1>5, <1>6, <1>7, <1>8, <1>9, <1>10, <1>11, <1>12,
     <1>13, <1>14, <1>15, <1>16, <1>17, <1>18 DEF Next, MainStep, WorkerStep

\* connfd is live exactly in Handling: between accept and the hand-off or the
\* drop, and between queue_get and close.
LEMMA HandStep == IInv /\ [Next]_vars => HandPc'
<1>. SUFFICES ASSUME IInv, [Next]_vars PROVE HandPc'
  OBVIOUS
<1>. USE ServerAssumption DEF HandPc, HasFd, Handling, Go, Threads
<1>0. /\ HandPc /\ pc \in [Threads -> MainPc \cup WorkerPc]
      /\ hand \in [Threads -> Fds \cup {NoFd}]
  BY DEF IInv, TypeOK
<1>1. ASSUME NEW w \in Workers, Spawn(w) PROVE HandPc'
  BY <1>0, <1>1 DEF Spawn
<1>2. CASE SpawnFails
  BY <1>0, <1>2 DEF SpawnFails
<1>3. ASSUME NEW c \in Conns, Accept(c) PROVE HandPc'
  BY <1>0, <1>3 DEF Accept
<1>4. CASE PutLock
  BY <1>0, <1>4 DEF PutLock
<1>5. CASE PutDrop
  BY <1>0, <1>5 DEF PutDrop
<1>6. CASE PutStore
  BY <1>0, <1>6 DEF PutStore
<1>7. CASE PutCount
  <2>1. CASE Waiting = {}
    BY <1>0, <1>7, <2>1 DEF PutCount, Signalled
  <2>2. CASE Waiting # {}
    BY <1>0, <1>7, <2>2 DEF PutCount, Signalled, Waiting
  <2>. QED  BY <2>1, <2>2
<1>8. CASE PutUnlock
  BY <1>0, <1>8 DEF PutUnlock
<1>9. CASE HandlerStep
  BY <1>0, <1>9 DEF HandlerStep, Exit, Report
<1>10. CASE Environment
  <2>1. CASE UNCHANGED <<pc, hand>>
    BY <1>0, <2>1
  <2>2. ASSUME NEW w \in Workers, SpuriousWakeup(w) PROVE HandPc'
    BY <1>0, <2>2 DEF SpuriousWakeup
  <2>. QED  BY <1>10, <2>1, <2>2 DEF Environment, Connect, Reset, SigInt
<1>11. ASSUME NEW w \in Workers, GetLock(w) PROVE HandPc'
  BY <1>0, <1>11 DEF GetLock
<1>12. ASSUME NEW w \in Workers, GetWait(w) PROVE HandPc'
  BY <1>0, <1>12 DEF GetWait
<1>13. ASSUME NEW w \in Workers, GetTake(w) PROVE HandPc'
  <2>1. hand'[w] \in Fds
    BY <1>13, TakeTails DEF IInv, Ring
  <2>. QED  BY <1>0, <1>13, <2>1 DEF GetTake
<1>14. ASSUME NEW w \in Workers, GetDec(w) PROVE HandPc'
  BY <1>0, <1>14 DEF GetDec
<1>15. ASSUME NEW w \in Workers, GetUnlock(w) PROVE HandPc'
  BY <1>0, <1>15 DEF GetUnlock
<1>16. ASSUME NEW w \in Workers, Tally(w) \/ Write(w) PROVE HandPc'
  BY <1>0, <1>16 DEF Tally, Write
<1>17. ASSUME NEW w \in Workers, Close(w) PROVE HandPc'
  BY <1>0, <1>17 DEF Close
<1>18. CASE UNCHANGED vars
  BY <1>0, <1>18 DEF vars
<1>19. ASSUME NEW t \in Threads, PrintStep(t) PROVE HandPc'
  BY <1>0, <1>19 DEF PrintStep, PrintTake, PrintOut, PrintDone
<1>. QED
  BY <1>1, <1>2, <1>3, <1>4, <1>5, <1>6, <1>7, <1>8, <1>9, <1>10, <1>11, <1>12,
     <1>13, <1>14, <1>15, <1>16, <1>17, <1>18, <1>19 DEF Next, MainStep, WorkerStep

\* The steps that leave the queue alone, or only finish an update of it, keep
\* the pending jobs; only a store and a take change them.
LEMMA JobsFrame ==
  ASSUME IInv, [Next]_vars, ~PutStore, \A w \in Workers : ~GetTake(w)
  PROVE  /\ Depth' = Depth /\ Jobs' = Jobs
         /\ UNCHANGED <<iget, iput, slot>>
<1>. USE ServerAssumption DEF Go, Threads
<1>0. pc \in [Threads -> MainPc \cup WorkerPc] /\ count \in Nat
  BY DEF IInv, TypeOK
<1>1. UNCHANGED <<iget, iput, slot>> => Jobs' = Jobs \/ Depth' # Depth
  BY JobsKept
<1>2. SUFFICES Depth' = Depth /\ UNCHANGED <<iget, iput, slot>>
  BY <1>1
<1>3. CASE PutCount
  <2>1. pc[Main] = "put_count" /\ \A w \in Workers : pc[w] # "get_dec"
    BY <1>3, Exclusion DEF PutCount, HoldsMutex
  <2>2. pc'[Main] = "put_unlock" /\ \A w \in Workers : pc'[w] # "get_dec"
    <3>1. CASE Waiting = {}
      BY <1>0, <1>3, <2>1, <3>1 DEF PutCount, Signalled
    <3>2. CASE Waiting # {}
      BY <1>0, <1>3, <2>1, <3>2 DEF PutCount, Signalled, Waiting
    <3>. QED  BY <3>1, <3>2
  <2>. QED  BY <1>3, <2>1, <2>2 DEF Depth, PutCount
<1>4. ASSUME NEW w \in Workers, GetDec(w)
      PROVE  Depth' = Depth /\ UNCHANGED <<iget, iput, slot>>
  <2>1. /\ pc[w] = "get_dec" /\ pc[Main] # "put_count"
        /\ \A v \in Workers : pc[v] = "get_dec" => v = w
    BY <1>4, Exclusion DEF GetDec, HoldsMutex
  <2>2. pc'[Main] # "put_count" /\ \A v \in Workers : pc'[v] # "get_dec"
    BY <1>0, <1>4, <2>1 DEF GetDec
  <2>. QED  BY <1>4, <2>1, <2>2 DEF Depth, GetDec
<1>5. SUFFICES ASSUME ~PutCount, \A w \in Workers : ~GetDec(w)
      PROVE  Depth' = Depth /\ UNCHANGED <<iget, iput, slot>>
  BY <1>3, <1>4
<1>6. UNCHANGED queue /\ (\A t \in Threads : pc'[t] # pc[t] =>
          {pc[t], pc'[t]} \cap {"put_count", "get_dec"} = {})
      => Depth' = Depth /\ UNCHANGED <<iget, iput, slot>>
  BY DEF Depth, queue
<1>7. ASSUME NEW w \in Workers, Spawn(w)
      PROVE  Depth' = Depth /\ UNCHANGED <<iget, iput, slot>>
  BY <1>0, <1>6, <1>7 DEF Spawn
<1>8. CASE SpawnFails \/ HandlerStep
  BY <1>6, <1>8 DEF SpawnFails, HandlerStep, Exit, Report
<1>9. ASSUME NEW c \in Conns, Accept(c)
      PROVE  Depth' = Depth /\ UNCHANGED <<iget, iput, slot>>
  BY <1>0, <1>6, <1>9 DEF Accept
<1>10. CASE PutLock \/ PutDrop \/ PutUnlock
  BY <1>0, <1>6, <1>10 DEF PutLock, PutDrop, PutUnlock
<1>11. CASE Environment
  BY <1>0, <1>6, <1>11 DEF Environment, Connect, Reset, SigInt, SpuriousWakeup
<1>12. ASSUME NEW w \in Workers,
              GetLock(w) \/ GetWait(w) \/ GetUnlock(w) \/ Tally(w) \/ Write(w) \/ Close(w)
       PROVE  Depth' = Depth /\ UNCHANGED <<iget, iput, slot>>
  BY <1>0, <1>6, <1>12 DEF GetLock, GetWait, GetUnlock, Tally, Write, Close
<1>13. CASE UNCHANGED vars
  BY <1>6, <1>13 DEF vars
<1>14. ASSUME NEW t \in Threads, PrintStep(t)
       PROVE  Depth' = Depth /\ UNCHANGED <<iget, iput, slot>>
  BY <1>0, <1>6, <1>14 DEF PrintStep, PrintTake, PrintOut, PrintDone
<1>. QED
  BY <1>5, <1>7, <1>8, <1>9, <1>10, <1>11, <1>12, <1>13, <1>14
     DEF Next, MainStep, WorkerStep

\* The ring keeps its shape: iput stays Depth places after iget.
LEMMA RingStep == IInv /\ [Next]_vars => Ring'
<1>. SUFFICES ASSUME IInv, [Next]_vars PROVE Ring'
  OBVIOUS
<1>. USE ServerAssumption DEF Go, Threads
<1>0. /\ pc \in [Threads -> MainPc \cup WorkerPc] /\ count \in 0 .. MaxQueue
      /\ pc[Main] = "put_count" => count < MaxQueue
      /\ \A w \in Workers : pc[w] = "get_dec" => count > 0
      /\ iput = At(Depth) /\ \A k \in 1 .. Depth : Jobs[k] \in Fds
  BY DEF IInv, TypeOK, Ring
<1>1. /\ pc'[Main] = "put_count" => count' < MaxQueue
      /\ \A w \in Workers : pc'[w] = "get_dec" => count' > 0
  <2>1. CASE PutStore
    BY <1>0, <2>1, Exclusion DEF PutStore, Full, HoldsMutex
  <2>2. CASE PutCount
    <3>1. CASE Waiting = {}
      BY <1>0, <2>2, <3>1 DEF PutCount, Signalled
    <3>2. CASE Waiting # {}
      BY <1>0, <2>2, <3>2 DEF PutCount, Signalled, Waiting
    <3>. QED  BY <3>1, <3>2
  <2>3. ASSUME NEW w \in Workers, GetTake(w)
        PROVE  /\ pc'[Main] = "put_count" => count' < MaxQueue
               /\ \A v \in Workers : pc'[v] = "get_dec" => count' > 0
    BY <1>0, <2>3 DEF GetTake
  <2>4. ASSUME NEW w \in Workers, GetDec(w)
        PROVE  /\ pc'[Main] = "put_count" => count' < MaxQueue
               /\ \A v \in Workers : pc'[v] = "get_dec" => count' > 0
    BY <1>0, <2>4, Exclusion DEF GetDec, HoldsMutex
  <2>5. SUFFICES ASSUME ~PutStore, ~PutCount, \A w \in Workers : ~GetTake(w) /\ ~GetDec(w)
                 PROVE  /\ count' = count
                        /\ pc'[Main] = "put_count" => pc[Main] = "put_count"
                        /\ \A w \in Workers : pc'[w] = "get_dec" => pc[w] = "get_dec"
    BY <1>0, <2>1, <2>2, <2>3, <2>4
  <2>6. CASE MainStep
    BY <1>0, <2>5, <2>6 DEF MainStep, PrintStep, PrintTake, PrintOut, PrintDone,
       Spawn, SpawnFails, Accept, PutLock, PutDrop, PutUnlock, queue
  <2>7. ASSUME NEW w \in Workers, WorkerStep(w)
        PROVE  /\ count' = count
               /\ pc'[Main] = "put_count" => pc[Main] = "put_count"
               /\ \A v \in Workers : pc'[v] = "get_dec" => pc[v] = "get_dec"
    BY <1>0, <2>5, <2>7 DEF WorkerStep, PrintStep, PrintTake, PrintOut, PrintDone,
       GetLock, GetWait, GetUnlock, Tally, Write, Close, queue
  <2>8. CASE HandlerStep \/ Environment \/ UNCHANGED vars
    BY <1>0, <2>8 DEF HandlerStep, Exit, Report, Environment, Connect, Reset,
       SigInt, SpuriousWakeup, vars, queue
  <2>. QED  BY <2>6, <2>7, <2>8 DEF Next
<1>2. iput' = At(Depth)' /\ \A k \in 1 .. Depth' : Jobs'[k] \in Fds
  <2>1. CASE PutStore
    <3>1. Jobs \in Seq(Fds) /\ Depth \in Nat /\ Len(Jobs) = Depth
      BY <1>0, DepthRange DEF Jobs
    <3>. QED  BY <2>1, <3>1, StoreAppends
  <2>2. ASSUME NEW w \in Workers, GetTake(w)
        PROVE  iput' = At(Depth)' /\ \A k \in 1 .. Depth' : Jobs'[k] \in Fds
    <3>1. Jobs \in Seq(Fds) /\ Len(Jobs) = Depth
      BY <1>0, DepthRange DEF Jobs
    <3>2. /\ Tail(Jobs) \in Seq(Fds) /\ Len(Tail(Jobs)) = Depth - 1
          /\ Jobs' = Tail(Jobs) /\ Depth' = Depth - 1
      BY <2>2, <3>1, TakeTails, HeadTailProperties
    <3>. QED  BY <2>2, <3>2, TakeTails
  <2>3. CASE ~PutStore /\ \A w \in Workers : ~GetTake(w)
    <3>1. Depth' = Depth /\ Jobs' = Jobs /\ UNCHANGED <<iget, iput>>
      BY <2>3, JobsFrame
    <3>. QED  BY <1>0, <3>1 DEF At
  <2>. QED  BY <2>1, <2>2, <2>3
<1>. QED  BY <1>1, <1>2 DEF Ring

\* Every step keeps the owners of the descriptors apart: accept() takes a
\* closed one, close() gives up the only owner, the hand-off moves it.
LEMMA FdStep == IInv /\ [Next]_vars => FdExclusive'
<1>. SUFFICES ASSUME IInv, [Next]_vars PROVE FdExclusive'
  OBVIOUS
<1>. USE ServerAssumption DEF HasFd, Go, Threads
<1>0. /\ hand \in [Threads -> Fds \cup {NoFd}]
      /\ table \in [Fds -> Conns \cup {NoConn}]
      /\ DOMAIN Jobs = 1 .. Depth /\ Depth \in Nat
      /\ \A k \in 1 .. Depth : Jobs[k] \in Fds
      /\ HandPc
      /\ DOMAIN Jobs' = 1 .. Depth'
  BY DepthRange DEF IInv, TypeOK, Ring, Jobs
<1>1. FdExclusive
  BY DEF IInv
<1>2. ASSUME UNCHANGED <<hand, table>>, Jobs' = Jobs PROVE FdExclusive'
  BY <1>1, <1>2 DEF FdExclusive
<1>3. CASE PutStore
  <2>1. /\ Depth' = Depth + 1 /\ hand[Main] \in Fds
        /\ \A k \in 1 .. Depth' : Jobs'[k] = IF k = Depth + 1 THEN hand[Main] ELSE Jobs[k]
    <3>1. Jobs \in Seq(Fds) /\ Len(Jobs) = Depth
      BY <1>0 DEF Jobs
    <3>. QED  BY <1>0, <1>3, <3>1, StoreAppends
  <2>2. hand' = [hand EXCEPT ![Main] = NoFd] /\ table' = table
    BY <1>3 DEF PutStore, net
  <2>. QED  BY <1>0, <1>1, <2>1, <2>2 DEF FdExclusive
<1>4. ASSUME NEW w \in Workers, GetTake(w) PROVE FdExclusive'
  <2>1. /\ Depth > 0 /\ Depth' = Depth - 1 /\ hand'[w] = Jobs[1]
        /\ \A k \in 1 .. Depth' : Jobs'[k] = Jobs[k + 1]
    <3>1. Jobs \in Seq(Fds) /\ Len(Jobs) = Depth
      BY <1>0 DEF Jobs
    <3>. QED  BY <1>4, <3>1, TakeTails, HeadTailProperties
  <2>2. hand' = [hand EXCEPT ![w] = Jobs[1]] /\ table' = table
    BY <1>0, <1>4, <2>1 DEF GetTake, net
  <2>3. hand[w] = NoFd
    BY <1>0, <1>4 DEF GetTake, HandPc, Handling
  <2>4. \A k \in 2 .. Depth : k - 1 \in 1 .. Depth' /\ Jobs'[k - 1] = Jobs[k]
    BY <1>0, <2>1
  <2>5. \A k \in 1 .. Depth' : k + 1 \in 2 .. Depth
    BY <1>0, <2>1
  <2>6. \A t, u \in Threads : HasFd(t)' /\ t # u => hand'[t] # hand'[u]
    BY <1>0, <1>1, <2>1, <2>2 DEF FdExclusive
  <2>7. \A j, k \in DOMAIN Jobs' : j # k => Jobs'[j] # Jobs'[k]
    <3>. SUFFICES ASSUME NEW j \in 1 .. Depth', NEW k \in 1 .. Depth', j # k
                  PROVE  Jobs'[j] # Jobs'[k]
      BY <1>0
    <3>1. j + 1 \in 1 .. Depth /\ k + 1 \in 1 .. Depth /\ j + 1 # k + 1
      BY <1>0, <2>1
    <3>2. Jobs[j + 1] # Jobs[k + 1]
      BY <1>0, <1>1, <3>1 DEF FdExclusive
    <3>. QED  BY <2>1, <3>2
  <2>8. \A t \in Threads, k \in DOMAIN Jobs' : Jobs'[k] # hand'[t]
    BY <1>0, <1>1, <2>1, <2>2, <2>5 DEF FdExclusive
  <2>9. ASSUME NEW fd \in Fds
        PROVE  (\E t \in Threads : hand'[t] = fd) \/ (\E k \in DOMAIN Jobs' : Jobs'[k] = fd)
          <=> (\E t \in Threads : hand[t] = fd) \/ (\E k \in DOMAIN Jobs : Jobs[k] = fd)
    <3>1. ASSUME NEW t \in Threads, hand[t] = fd PROVE hand'[t] = fd
      BY <1>0, <2>2, <2>3, <3>1
    <3>2. ASSUME NEW k \in 1 .. Depth, Jobs[k] = fd
          PROVE  hand'[w] = fd \/ \E j \in 1 .. Depth' : Jobs'[j] = fd
      <4>1. CASE k = 1
        BY <2>1, <3>2, <4>1
      <4>2. CASE k # 1
        BY <1>0, <2>4, <3>2, <4>2
      <4>. QED  BY <4>1, <4>2
    <3>3. ASSUME NEW t \in Threads, hand'[t] = fd
          PROVE  hand[t] = fd \/ Jobs[1] = fd
      BY <1>0, <2>2, <3>3
    <3>4. ASSUME NEW k \in 1 .. Depth', Jobs'[k] = fd
          PROVE  k + 1 \in 1 .. Depth /\ Jobs[k + 1] = fd
      BY <1>0, <2>1, <3>4
    <3>5. 1 \in 1 .. Depth /\ w \in Threads
      BY <1>0, <2>1
    <3>. QED  BY <1>0, <3>1, <3>2, <3>3, <3>4, <3>5
  <2>. QED  BY <1>1, <2>2, <2>6, <2>7, <2>8, <2>9 DEF FdExclusive
<1>5. SUFFICES ASSUME Jobs' = Jobs, ~PutStore, \A w \in Workers : ~GetTake(w)
               PROVE  FdExclusive'
  BY <1>3, <1>4, JobsFrame
<1>6. ASSUME NEW c \in Conns, Accept(c) PROVE FdExclusive'
  <2>1. PICK fd \in Fds : /\ table[fd] = NoConn
                          /\ table' = [table EXCEPT ![fd] = c]
                          /\ hand' = [hand EXCEPT ![Main] = fd]
    BY <1>6 DEF Accept
  <2>2. hand[Main] = NoFd
    BY <1>0, <1>6 DEF Accept, HandPc, Handling
  <2>3. /\ \A t \in Threads : hand[t] # fd
        /\ \A k \in DOMAIN Jobs : Jobs[k] # fd
    BY <1>1, <2>1 DEF FdExclusive
  <2>4. Main \in Threads /\ \A t \in Threads : hand'[t] = IF t = Main THEN fd ELSE hand[t]
    BY <1>0, <2>1
  <2>5. \A f \in Fds : table'[f] # NoConn <=> f = fd \/ table[f] # NoConn
    BY <1>0, <1>6, <2>1
  <2>6. \A t, u \in Threads : HasFd(t)' /\ t # u => hand'[t] # hand'[u]
    BY <1>0, <1>1, <2>3, <2>4 DEF FdExclusive
  <2>7. /\ \A j, k \in DOMAIN Jobs' : j # k => Jobs'[j] # Jobs'[k]
        /\ \A t \in Threads, k \in DOMAIN Jobs' : Jobs'[k] # hand'[t]
    BY <1>1, <1>5, <2>3, <2>4 DEF FdExclusive
  <2>8. \A f \in Fds : (\E t \in Threads : hand'[t] = f) <=> f = fd \/ \E t \in Threads : hand[t] = f
    BY <1>0, <2>2, <2>4
  <2>9. \A f \in Fds : table'[f] # NoConn <=>
          (\E t \in Threads : hand'[t] = f) \/ (\E k \in DOMAIN Jobs' : Jobs'[k] = f)
    BY <1>1, <1>5, <2>5, <2>8 DEF FdExclusive
  <2>. QED  BY <2>6, <2>7, <2>9 DEF FdExclusive
<1>7. ASSUME NEW t \in Threads, HasFd(t), table' = Closed(t),
             hand' = [hand EXCEPT ![t] = NoFd]
      PROVE  FdExclusive'
  <2>1. hand[t] \in Fds /\ table' = [table EXCEPT ![hand[t]] = NoConn]
    BY <1>0, <1>7 DEF Closed
  <2>2. /\ \A u \in Threads : u # t => hand'[u] = hand[u] /\ hand[u] # hand[t]
        /\ hand'[t] = NoFd
    BY <1>0, <1>1, <1>7 DEF FdExclusive
  <2>3. \A k \in DOMAIN Jobs : Jobs[k] # hand[t]
    BY <1>1 DEF FdExclusive
  <2>4. \A fd \in Fds : fd # hand[t] =>
          (\E u \in Threads : hand'[u] = fd) <=> (\E u \in Threads : hand[u] = fd)
    BY <1>0, <2>2
  <2>5. \A fd \in Fds :
          table'[fd] # NoConn <=> (\E u \in Threads : hand'[u] = fd)
                                  \/ (\E k \in DOMAIN Jobs : Jobs[k] = fd)
    BY <1>0, <1>1, <2>1, <2>2, <2>3, <2>4 DEF FdExclusive
  <2>6. /\ \A u, v \in Threads : HasFd(u)' /\ u # v => hand'[u] # hand'[v]
        /\ \A u \in Threads, k \in DOMAIN Jobs : Jobs[k] # hand'[u]
    BY <1>0, <1>1, <2>1, <2>2, <2>3 DEF FdExclusive
  <2>. QED  BY <1>1, <1>5, <2>5, <2>6 DEF FdExclusive
<1>8. CASE PutDrop
  BY <1>0, <1>7, <1>8 DEF PutDrop, HandPc, Handling
<1>9. ASSUME NEW w \in Workers, Close(w) PROVE FdExclusive'
  BY <1>0, <1>7, <1>9 DEF Close, HandPc, Handling
<1>10. CASE \/ \E w \in Workers : Spawn(w)
            \/ SpawnFails \/ PutLock \/ PutCount \/ PutUnlock \/ HandlerStep
            \/ UNCHANGED vars
  BY <1>2, <1>5, <1>10 DEF Spawn, SpawnFails, PutLock, PutCount, PutUnlock,
     HandlerStep, Exit, Report, vars, net
<1>11. CASE Environment
  BY <1>2, <1>5, <1>11 DEF Environment, Connect, Reset, SigInt, SpuriousWakeup, net
<1>12. ASSUME NEW w \in Workers,
              GetLock(w) \/ GetWait(w) \/ GetDec(w) \/ GetUnlock(w) \/ Tally(w) \/ Write(w)
       PROVE  FdExclusive'
  BY <1>2, <1>5, <1>12 DEF GetLock, GetWait, GetDec, GetUnlock, Tally, Write, net
<1>13. ASSUME NEW t \in Threads, PrintStep(t) PROVE FdExclusive'
  BY <1>2, <1>5, <1>13 DEF PrintStep, PrintTake, PrintOut, PrintDone, net
<1>. QED
  BY <1>5, <1>6, <1>8, <1>9, <1>10, <1>11, <1>12, <1>13 DEF Next, MainStep, WorkerStep

LEMMA InitIInv == Init => IInv
<1>. SUFFICES ASSUME Init PROVE IInv
  OBVIOUS
<1>. USE ServerAssumption DEF Init, Threads
<1>1. TypeOK
  BY DEF TypeOK, MainPc, WorkerPc, Indices
<1>2. LockOwner /\ HandPc
  BY DEF LockOwner, HandPc, HoldsMutex, Handling, HasFd
<1>3. Depth = 0 /\ At(Depth) = 0
  BY DEF Depth, At
<1>4. Ring
  BY <1>3 DEF Ring
<1>5. FdExclusive
  BY <1>3 DEF FdExclusive, HasFd, Jobs
<1>. QED  BY <1>1, <1>2, <1>4, <1>5 DEF IInv

\* The inductive invariant holds in every reachable state.
THEOREM Invariant == Spec => []IInv
<1>1. IInv /\ [Next]_vars => IInv'
  BY TypeStep, OwnerStep, HandStep, RingStep, FdStep DEF IInv
<1>. QED  BY InitIInv, <1>1, PTL DEF Spec

\* Types are kept; in particular the indices of fd[] never leave the array.
THEOREM TypeCorrect == Spec => []TypeOK
<1>1. IInv => TypeOK
  BY DEF IInv
<1>. QED  BY <1>1, Invariant, PTL

\* No descriptor of queue_put, queue_get and worker_main leaks, is shared or
\* is used after its close.
THEOREM FdsExclusive == Spec => []FdExclusive
<1>1. IInv => FdExclusive
  BY DEF IInv
<1>. QED  BY <1>1, Invariant, PTL

-----------------------------------------------------------------------------
(* No lost wakeup. WorkConserving is inductive together with IInv.         *)

\* There are finitely many workers, so Awake can be counted.
LEMMA AwakeFinite ==
  /\ IsFiniteSet(Awake) /\ Cardinality(Awake) \in Nat
  /\ IsFiniteSet(Awake)' /\ Cardinality(Awake)' \in Nat
<1>1. Awake \subseteq Workers /\ Awake' \subseteq Workers
  BY DEF Awake
<1>. QED  BY <1>1, ServerAssumption, FS_Subset, FS_CardinalityType

\* A step that puts nobody to sleep, sends nobody away from the ring and adds
\* no job keeps the balance of jobs and awake workers.
LEMMA BalanceKept ==
  ASSUME WorkConserving, count \in Nat, UNCHANGED count,
         Waiting' \subseteq Waiting, Awake \subseteq Awake'
  PROVE  WorkConserving'
<1>1. Cardinality(Awake) <= Cardinality(Awake')
  BY AwakeFinite, FS_Subset
<1>. QED  BY <1>1, AwakeFinite DEF WorkConserving

\* pthread_cond_signal under the mutex wakes a worker for each job put; a
\* worker only goes to sleep when there is none, and takes one when it leaves.
LEMMA WorkConservingStep == IInv /\ WorkConserving /\ [Next]_vars => WorkConserving'
<1>. SUFFICES ASSUME IInv, WorkConserving, [Next]_vars PROVE WorkConserving'
  OBVIOUS
<1>. USE ServerAssumption DEF Go, Threads
<1>0. pc \in [Threads -> MainPc \cup WorkerPc] /\ count \in Nat
  BY DEF IInv, TypeOK
<1>1. ASSUME UNCHANGED count,
             \A w \in Workers : pc'[w] # pc[w] =>
               pc'[w] # "get_wait"
               /\ pc'[w] \in {"get_lock", "get_relock", "get_check", "get_dec"}
      PROVE  WorkConserving'
  <2>1. Waiting' \subseteq Waiting
    BY <1>1 DEF Waiting
  <2>2. Awake \subseteq Awake'
    BY <1>1 DEF Awake
  <2>. QED  BY <1>0, <1>1, <2>1, <2>2, BalanceKept
<1>2. ASSUME UNCHANGED count,
             \A w \in Workers : pc'[w] # pc[w] =>
               {pc[w], pc'[w]} \cap {"get_wait", "get_lock", "get_relock", "get_check", "get_dec"} = {}
      PROVE  WorkConserving'
  <2>1. Waiting' \subseteq Waiting /\ Awake \subseteq Awake'
    BY <1>2 DEF Waiting, Awake
  <2>. QED  BY <1>0, <1>2, <2>1, BalanceKept
<1>3. CASE PutCount
  <2>1. CASE Waiting = {}
    <3>1. pc' = [pc EXCEPT ![Main] = "put_unlock"]
      BY <1>3, <2>1 DEF PutCount, Signalled
    <3>2. Waiting' = {}
      BY <1>0, <2>1, <3>1 DEF Waiting
    <3>. QED  BY <3>2 DEF WorkConserving
  <2>2. CASE Waiting # {}
    <3>1. PICK w \in Workers :
            /\ pc[w] = "get_wait"
            /\ pc' = [[pc EXCEPT ![Main] = "put_unlock"] EXCEPT ![w] = "get_relock"]
      BY <1>3, <2>2 DEF PutCount, Signalled, Waiting
    <3>2. Awake' = Awake \cup {w} /\ w \notin Awake
      BY <1>0, <3>1 DEF Awake
    <3>3. Cardinality(Awake') = Cardinality(Awake) + 1
      BY <3>2, AwakeFinite, FS_AddElement
    <3>. QED  BY <1>0, <1>3, <2>2, <3>3, AwakeFinite DEF WorkConserving, PutCount
  <2>. QED  BY <2>1, <2>2
<1>4. ASSUME NEW w \in Workers, GetDec(w) PROVE WorkConserving'
  <2>1. /\ count' = count - 1 /\ count > 0
        /\ pc[w] = "get_dec" /\ pc' = [pc EXCEPT ![w] = "get_unlock"]
    BY <1>4 DEF GetDec, IInv, Ring
  <2>2. Waiting' = Waiting
    BY <1>0, <2>1 DEF Waiting
  <2>3. Awake' = Awake \ {w} /\ w \in Awake
    BY <1>0, <2>1 DEF Awake
  <2>4. Cardinality(Awake') = Cardinality(Awake) - 1
    BY <2>3, AwakeFinite, FS_RemoveElement
  <2>. QED  BY <1>0, <2>1, <2>2, <2>4, AwakeFinite DEF WorkConserving
<1>5. ASSUME NEW w \in Workers, GetWait(w) PROVE WorkConserving'
  BY <1>5, AwakeFinite DEF GetWait, WorkConserving, queue
<1>6. ASSUME NEW w \in Workers, Spawn(w) PROVE WorkConserving'
  BY <1>0, <1>2, <1>6 DEF Spawn, queue
<1>7. CASE SpawnFails \/ HandlerStep \/ UNCHANGED vars
  BY <1>1, <1>7 DEF SpawnFails, HandlerStep, Exit, Report, vars, queue
<1>8. CASE \/ \E c \in Conns : Accept(c)
           \/ PutLock \/ PutDrop \/ PutStore \/ PutUnlock
  BY <1>0, <1>1, <1>8 DEF Accept, PutLock, PutDrop, PutStore, PutUnlock, queue
<1>9. CASE Environment
  BY <1>0, <1>1, <1>9 DEF Environment, Connect, Reset, SigInt, SpuriousWakeup, queue
<1>10. ASSUME NEW w \in Workers, GetLock(w) \/ GetTake(w) \/ Close(w)
       PROVE  WorkConserving'
  BY <1>0, <1>1, <1>10 DEF GetLock, GetTake, Close, queue
<1>11. ASSUME NEW w \in Workers, GetUnlock(w) \/ Tally(w) \/ Write(w)
       PROVE  WorkConserving'
  BY <1>0, <1>2, <1>11 DEF GetUnlock, Tally, Write, queue
<1>12. ASSUME NEW t \in Threads, PrintStep(t) PROVE WorkConserving'
  <2>1. CASE PrintTake(t) \/ PrintOut(t)
    BY <1>0, <1>2, <2>1 DEF PrintTake, PrintOut, queue
  <2>2. CASE PrintDone(t)
    BY <1>0, <1>1, <2>2 DEF PrintDone, queue
  <2>. QED  BY <1>12, <2>1, <2>2 DEF PrintStep
<1>. QED
  BY <1>3, <1>4, <1>5, <1>6, <1>7, <1>8, <1>9, <1>10, <1>11, <1>12
     DEF Next, MainStep, WorkerStep

\* While a worker sleeps in queue_get, every pending job has an awake worker
\* on its way to it: one pthread_cond_signal per queue_put is enough.
THEOREM NoLostWakeup == Spec => []WorkConserving
<1>1. Init => WorkConserving
  BY ServerAssumption DEF Init, WorkConserving, Waiting, Threads
<1>2. IInv /\ WorkConserving /\ [Next]_vars => WorkConserving'
  BY WorkConservingStep
<1>. QED  BY <1>1, <1>2, Invariant, PTL DEF Spec

-----------------------------------------------------------------------------
(* The server implements JobQueue.                                         *)

\* Every step is a step of the queue, or changes neither hands nor jobs.
LEMMA QueueStep == IInv /\ [Next]_vars => [JQ!Next]_(JQ!jvars)
<1>. SUFFICES ASSUME IInv, [Next]_vars PROVE [JQ!Next]_(JQ!jvars)
  OBVIOUS
<1>. USE ServerAssumption DEF Go, Threads
<1>a. Depth \in Nat
  BY DepthRange
<1>b. Jobs \in Seq(Fds) /\ Len(Jobs) = Depth
  BY <1>a DEF IInv, Ring, Jobs
<1>0. /\ hand \in [Threads -> Fds \cup {NoFd}]
      /\ pc \in [Threads -> MainPc \cup WorkerPc]
      /\ Depth \in Nat /\ Jobs \in Seq(Fds) /\ Len(Jobs) = Depth
      /\ HandPc
  BY <1>a, <1>b DEF IInv, TypeOK
<1>1. ASSUME UNCHANGED hand, Jobs' = Jobs PROVE UNCHANGED JQ!jvars
  BY <1>1 DEF JQ!jvars
<1>2. CASE PutStore
  <2>1. Jobs' = Append(Jobs, hand[Main]) /\ Len(Jobs) < MaxQueue /\ hand[Main] # NoFd
    BY <1>0, <1>2, StoreAppends
  <2>2. hand' = [hand EXCEPT ![Main] = NoFd]
    BY <1>2 DEF PutStore
  <2>3. JQ!Enqueue
    BY <1>0, <2>1, <2>2 DEF JQ!Enqueue
  <2>. QED  BY <2>3 DEF JQ!Next
<1>3. ASSUME NEW w \in Workers, GetTake(w) PROVE JQ!Next
  <2>1. /\ Jobs # <<>> /\ Jobs' = Tail(Jobs)
        /\ hand' = [hand EXCEPT ![w] = Head(Jobs)]
    BY <1>0, <1>3, TakeTails DEF GetTake
  <2>2. hand[w] = NoFd
    BY <1>0, <1>3 DEF GetTake, HandPc, Handling, HasFd
  <2>3. JQ!Take(w)
    BY <1>0, <2>1, <2>2 DEF JQ!Take
  <2>. QED  BY <2>3 DEF JQ!Next
<1>4. SUFFICES ASSUME Jobs' = Jobs, ~PutStore, \A w \in Workers : ~GetTake(w)
               PROVE  [JQ!Next]_(JQ!jvars)
  BY <1>2, <1>3, JobsFrame
<1>5. ASSUME NEW c \in Conns, Accept(c) PROVE JQ!Next
  <2>1. PICK fd \in Fds : table[fd] = NoConn /\ hand' = [hand EXCEPT ![Main] = fd]
    BY <1>5 DEF Accept
  <2>2. hand[Main] = NoFd
    BY <1>0, <1>5 DEF Accept, HandPc, Handling, HasFd
  <2>3. ~JQ!InUse(fd)
    BY <2>1 DEF JQ!InUse, IInv, FdExclusive
  <2>4. JQ!Arrive(fd)
    BY <1>0, <1>4, <2>1, <2>2, <2>3 DEF JQ!Arrive
  <2>. QED  BY <2>4 DEF JQ!Next
<1>6. CASE PutDrop
  <2>1. pc[Main] = "put_check" /\ \A w \in Workers : pc[w] # "get_dec"
    BY <1>6, Exclusion DEF PutDrop, HoldsMutex
  <2>2. Len(Jobs) = MaxQueue
    BY <1>0, <1>6, <2>1 DEF Depth, PutDrop, Full, IInv, TypeOK
  <2>3. hand[Main] # NoFd /\ hand' = [hand EXCEPT ![Main] = NoFd]
    BY <1>0, <1>6 DEF PutDrop, HandPc, Handling, HasFd
  <2>4. JQ!Refuse
    BY <1>0, <1>4, <2>2, <2>3 DEF JQ!Refuse
  <2>. QED  BY <2>4 DEF JQ!Next
<1>7. ASSUME NEW w \in Workers, Close(w) PROVE JQ!Next
  <2>1. hand[w] # NoFd /\ hand' = [hand EXCEPT ![w] = NoFd]
    BY <1>0, <1>7 DEF Close, HandPc, Handling, HasFd
  <2>2. JQ!Release(w)
    BY <1>0, <1>4, <2>1 DEF JQ!Release
  <2>. QED  BY <2>2 DEF JQ!Next
<1>8. CASE \/ \E w \in Workers : Spawn(w)
           \/ SpawnFails \/ PutLock \/ PutCount \/ PutUnlock \/ HandlerStep
           \/ Environment \/ UNCHANGED vars
  BY <1>1, <1>4, <1>8 DEF Spawn, SpawnFails, PutLock, PutCount, PutUnlock,
     HandlerStep, Exit, Report, Environment, Connect, Reset, SigInt, SpuriousWakeup, vars
<1>9. ASSUME NEW w \in Workers,
             GetLock(w) \/ GetWait(w) \/ GetDec(w) \/ GetUnlock(w) \/ Tally(w) \/ Write(w)
      PROVE  UNCHANGED JQ!jvars
  BY <1>1, <1>4, <1>9 DEF GetLock, GetWait, GetDec, GetUnlock, Tally, Write
<1>10. ASSUME NEW t \in Threads, PrintStep(t) PROVE UNCHANGED JQ!jvars
  BY <1>1, <1>4, <1>10 DEF PrintStep, PrintTake, PrintOut, PrintDone
<1>. QED
  BY <1>4, <1>5, <1>6, <1>7, <1>8, <1>9, <1>10 DEF Next, MainStep, WorkerStep

\* The hand-off of prethreaded.c is a FIFO queue that refuses only when full
\* and gives each descriptor to one worker.
THEOREM Refinement == Spec => RefinesJobQueue
<1>1. Init => JQ!Init
  <2>1. Init => Depth = 0
    BY ServerAssumption DEF Init, Depth, Threads
  <2>. QED  BY <2>1, ServerAssumption DEF Init, JQ!Init, Jobs, Threads
<1>2. IInv /\ [Next]_vars => [JQ!Next]_(JQ!jvars)
  BY QueueStep
<1>. QED  BY <1>1, <1>2, Invariant, PTL DEF Spec, RefinesJobQueue, JQ!Spec
=============================================================================
