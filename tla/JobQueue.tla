------------------------------ MODULE JobQueue ------------------------------
(***************************************************************************)
(* What ch30/prethreaded.c promises of its queue of connected descriptors: *)
(* the main thread offers one descriptor at a time; an offer is queued in  *)
(* order, or refused, and then only when the queue is full; a worker takes *)
(* the oldest one and works on it alone until it releases it.              *)
(* No mutex, no condition variable, no ring: PrethreadedServer has those.  *)
(***************************************************************************)
EXTENDS Naturals, Sequences

CONSTANTS
  Workers,   \* the threads that take jobs
  Fds,       \* the descriptors that may be offered
  NoFd,      \* "no descriptor"
  MaxQueue   \* MAX_QUEUE: how many descriptors may be pending

VARIABLES
  offer,     \* the descriptor the main thread holds, or NoFd
  jobs,      \* the pending descriptors, oldest first
  taken      \* taken[w]: the descriptor worker w holds, or NoFd

jvars == <<offer, jobs, taken>>

InUse(fd) ==
  \/ offer = fd
  \/ \E k \in DOMAIN jobs : jobs[k] = fd
  \/ \E w \in Workers : taken[w] = fd

Init ==
  /\ offer = NoFd
  /\ jobs = <<>>
  /\ taken = [w \in Workers |-> NoFd]

\* accept() returned a descriptor: the kernel never returns one in use.
Arrive(fd) ==
  /\ offer = NoFd /\ ~InUse(fd)
  /\ offer' = fd
  /\ UNCHANGED <<jobs, taken>>

Enqueue ==
  /\ offer # NoFd /\ Len(jobs) < MaxQueue
  /\ jobs' = Append(jobs, offer)
  /\ offer' = NoFd
  /\ UNCHANGED taken

\* The only way to lose a connection: the queue is full.
Refuse ==
  /\ offer # NoFd /\ Len(jobs) = MaxQueue
  /\ offer' = NoFd
  /\ UNCHANGED <<jobs, taken>>

Take(w) ==
  /\ taken[w] = NoFd /\ jobs # <<>>
  /\ taken' = [taken EXCEPT ![w] = Head(jobs)]
  /\ jobs' = Tail(jobs)
  /\ UNCHANGED offer

Release(w) ==
  /\ taken[w] # NoFd
  /\ taken' = [taken EXCEPT ![w] = NoFd]
  /\ UNCHANGED <<offer, jobs>>

Next ==
  \/ \E fd \in Fds : Arrive(fd)
  \/ Enqueue \/ Refuse
  \/ \E w \in Workers : Take(w) \/ Release(w)

Spec == Init /\ [][Next]_jvars
=============================================================================
