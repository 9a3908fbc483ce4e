------------------------ MODULE PreforkedServerProofs ------------------------
(* Proofs about PreforkedServer, for every number of children and clients. *)
EXTENDS PreforkedServer, TLAPS

(***************************************************************************)
(* The inductive invariant. AcceptSerialised and LockNotOrphaned need the  *)
(* exact owner of the mutex and where a child can have died.               *)
(***************************************************************************)

\* The loops' bodies run only below NCHILDREN; connfd is set after accept().
Bodies ==
  /\ parent \in {"assign", "kill"} => next # NChildren
  /\ \A i \in Children : pc[i] \in {"count", "write", "close"} => hand[i] \in Conns

\* The owner of the mutex is the child in the critical section, dead or not.
Owner ==
  /\ ~destroyed => \A i \in Children : mutex = i <=> pc[i] \in Critical
  /\ destroyed => Down /\ mutex = Nobody

\* Nothing but SIGPIPE kills a child before SIGINT and without outside help.
Deaths ==
  kills = 0 /\ ~Down =>
    /\ term = {}
    /\ \A i \in Children :
         /\ child[i] = "none" => pc[i] = "lock"
         /\ child[i] \in {"dead", "reaped"} => pc[i] = "write"

IInv == TypeOK /\ Bodies /\ Owner /\ Deaths

-----------------------------------------------------------------------------
(* Each part of IInv is kept by every step.                                *)

\* Types are kept: every loop tests its index before it uses it.
LEMMA TypeStep == IInv /\ [Next]_vars => TypeOK'
<1>. SUFFICES ASSUME IInv, [Next]_vars PROVE TypeOK'
  OBVIOUS
<1>. USE PreforkAssumption DEF procs, serve, net, final, Children, Nobody, TypeOK, Bodies, Forked, Killed, Alive, Go
<1>0. TypeOK /\ Bodies
  BY DEF IInv
<1>1. CASE Fork
  BY <1>0, <1>1 DEF Fork
<1>2. CASE Assign
  BY <1>0, <1>2 DEF Assign
<1>3. CASE ForkFails
  BY <1>0, <1>3 DEF ForkFails
<1>4. CASE Pause
  BY <1>0, <1>4 DEF Pause
<1>5. CASE SigInt
  BY <1>0, <1>5 DEF SigInt
<1>6. CASE Report
  BY <1>0, <1>6 DEF Report
<1>7. CASE Kill
  <2>1. next' \in 0 .. NChildren /\ parent' \in {"killed", "report"}
    BY <1>0, <1>7 DEF Kill
  <2>2. term' \subseteq Children
    BY <1>0, <1>7 DEF Kill
  <2>. QED  BY <1>0, <1>7, <2>1, <2>2 DEF Kill
<1>8. CASE Destroy
  BY <1>0, <1>8 DEF Destroy
<1>9. ASSUME NEW i \in Children, Wait(i) PROVE TypeOK'
  BY <1>0, <1>9 DEF Wait
<1>10. CASE Exit
  BY <1>0, <1>10 DEF Exit
<1>11. ASSUME NEW c \in Conns, Connect(c) \/ Reset(c) PROVE TypeOK'
  <2>1. CASE Connect(c)
    BY <1>0, <2>1 DEF Connect
  <2>2. CASE Reset(c)
    BY <1>0, <2>2 DEF Reset
  <2>. QED  BY <1>11, <2>1, <2>2
<1>12. ASSUME NEW i \in Children, KillChild(i) PROVE TypeOK'
  BY <1>0, <1>12 DEF KillChild
<1>13. ASSUME NEW i \in Children, Die(i) PROVE TypeOK'
  BY <1>0, <1>13 DEF Die
<1>14. ASSUME NEW i \in Children, Lock(i) PROVE TypeOK'
  BY <1>0, <1>14 DEF Lock, LockOf
<1>15. ASSUME NEW i \in Children, NEW c \in Conns, Accept(i, c) PROVE TypeOK'
  BY <1>0, <1>15 DEF Accept
<1>16. ASSUME NEW i \in Children, AcceptFails(i) PROVE TypeOK'
  BY <1>0, <1>16 DEF AcceptFails
<1>17. ASSUME NEW i \in Children, Unlock(i) PROVE TypeOK'
  BY <1>0, <1>17 DEF Unlock
<1>18. ASSUME NEW i \in Children, Tally(i) PROVE TypeOK'
  BY <1>0, <1>18 DEF Tally
<1>19. ASSUME NEW i \in Children, Write(i) PROVE TypeOK'
  <2>1. child' \in [Children -> {"none", "alive", "dead", "reaped"}]
    BY <1>0, <1>19 DEF Write
  <2>2. pc' \in [Children -> {"lock", "accept", "unlock", "count", "write", "close"}]
    BY <1>0, <1>19 DEF Write
  <2>3. reply' \in [Conns -> Children \cup {Nobody}]
    <3>1. reply' = reply \/ reply' = [reply EXCEPT ![hand[i]] = i]
      BY <1>19 DEF Write
    <3>. QED  BY <1>0, <3>1
  <2>. QED  BY <1>0, <1>19, <2>1, <2>2, <2>3 DEF Write
<1>20. ASSUME NEW i \in Children, Close(i) PROVE TypeOK'
  BY <1>0, <1>20 DEF Close
<1>21. CASE UNCHANGED vars
  BY <1>0, <1>21 DEF vars
<1>. QED
  BY <1>1, <1>2, <1>3, <1>4, <1>5, <1>6, <1>7, <1>8, <1>9, <1>10, <1>11,
     <1>12, <1>13, <1>14, <1>15, <1>16, <1>17, <1>18, <1>19, <1>20, <1>21
     DEF Next, ParentStep, ChildStep, Environment

\* A loop body starts after its test, and a request after its accept().
LEMMA BodiesStep == IInv /\ [Next]_vars => Bodies'
<1>. SUFFICES ASSUME IInv, [Next]_vars PROVE Bodies'
  OBVIOUS
<1>. USE PreforkAssumption DEF procs, serve, net, final, Children, Nobody, TypeOK, Bodies, Forked, Killed, Alive, Go
<1>0. TypeOK /\ Bodies
  BY DEF IInv
<1>1. CASE Fork
  BY <1>0, <1>1 DEF Fork
<1>2. CASE Assign
  BY <1>0, <1>2 DEF Assign
<1>3. CASE ForkFails
  BY <1>0, <1>3 DEF ForkFails
<1>4. CASE Pause
  BY <1>0, <1>4 DEF Pause
<1>5. CASE SigInt
  BY <1>0, <1>5 DEF SigInt
<1>6. CASE Report
  BY <1>0, <1>6 DEF Report
<1>7. CASE Kill
  BY <1>0, <1>7 DEF Kill
<1>8. CASE Destroy
  BY <1>0, <1>8 DEF Destroy
<1>9. ASSUME NEW i \in Children, Wait(i) PROVE Bodies'
  BY <1>0, <1>9 DEF Wait
<1>10. CASE Exit
  BY <1>0, <1>10 DEF Exit
<1>11. ASSUME NEW c \in Conns, Connect(c) \/ Reset(c) PROVE Bodies'
  BY <1>0, <1>11 DEF Connect, Reset
<1>12. ASSUME NEW i \in Children, KillChild(i) PROVE Bodies'
  BY <1>0, <1>12 DEF KillChild
<1>13. ASSUME NEW i \in Children, Die(i) PROVE Bodies'
  BY <1>0, <1>13 DEF Die
<1>14. ASSUME NEW i \in Children, Lock(i) PROVE Bodies'
  BY <1>0, <1>14 DEF Lock, LockOf
<1>15. ASSUME NEW i \in Children, NEW c \in Conns, Accept(i, c) PROVE Bodies'
  BY <1>0, <1>15 DEF Accept
<1>16. ASSUME NEW i \in Children, AcceptFails(i) PROVE Bodies'
  BY <1>0, <1>16 DEF AcceptFails
<1>17. ASSUME NEW i \in Children, Unlock(i) PROVE Bodies'
  BY <1>0, <1>17 DEF Unlock
<1>18. ASSUME NEW i \in Children, Tally(i) PROVE Bodies'
  BY <1>0, <1>18 DEF Tally
<1>19. ASSUME NEW i \in Children, Write(i) PROVE Bodies'
  BY <1>0, <1>19 DEF Write
<1>20. ASSUME NEW i \in Children, Close(i) PROVE Bodies'
  BY <1>0, <1>20 DEF Close
<1>21. CASE UNCHANGED vars
  BY <1>0, <1>21 DEF vars
<1>. QED
  BY <1>1, <1>2, <1>3, <1>4, <1>5, <1>6, <1>7, <1>8, <1>9, <1>10, <1>11,
     <1>12, <1>13, <1>14, <1>15, <1>16, <1>17, <1>18, <1>19, <1>20, <1>21
     DEF Next, ParentStep, ChildStep, Environment

\* Only Lock enters accept(), and both ways out of it release the mutex.
LEMMA OwnerStep == IInv /\ [Next]_vars => Owner'
<1>. SUFFICES ASSUME IInv, [Next]_vars PROVE Owner'
  OBVIOUS
<1>. USE PreforkAssumption DEF procs, serve, net, final, Children, Nobody, TypeOK, Owner, Critical, Down, Alive, Go
<1>0. TypeOK /\ Owner
  BY DEF IInv
<1>1. CASE Fork
  BY <1>0, <1>1 DEF Fork
<1>2. CASE Assign
  BY <1>0, <1>2 DEF Assign
<1>3. CASE ForkFails
  BY <1>0, <1>3 DEF ForkFails
<1>4. CASE Pause
  BY <1>0, <1>4 DEF Pause
<1>5. CASE SigInt
  BY <1>0, <1>5 DEF SigInt
<1>6. CASE Report
  BY <1>0, <1>6 DEF Report
<1>7. CASE Kill
  BY <1>0, <1>7 DEF Kill
<1>8. CASE Destroy
  BY <1>0, <1>8 DEF Destroy
<1>9. ASSUME NEW i \in Children, Wait(i) PROVE Owner'
  BY <1>0, <1>9 DEF Wait
<1>10. CASE Exit
  BY <1>0, <1>10 DEF Exit
<1>11. ASSUME NEW c \in Conns, Connect(c) \/ Reset(c) PROVE Owner'
  BY <1>0, <1>11 DEF Connect, Reset
<1>12. ASSUME NEW i \in Children, KillChild(i) PROVE Owner'
  BY <1>0, <1>12 DEF KillChild
<1>13. ASSUME NEW i \in Children, Die(i) PROVE Owner'
  BY <1>0, <1>13 DEF Die
<1>14. ASSUME NEW i \in Children, Lock(i) PROVE Owner'
  BY <1>0, <1>14 DEF Lock, LockOf
<1>15. ASSUME NEW i \in Children, NEW c \in Conns, Accept(i, c) PROVE Owner'
  BY <1>0, <1>15 DEF Accept
<1>16. ASSUME NEW i \in Children, AcceptFails(i) PROVE Owner'
  BY <1>0, <1>16 DEF AcceptFails
<1>17. ASSUME NEW i \in Children, Unlock(i) PROVE Owner'
  BY <1>0, <1>17 DEF Unlock
<1>18. ASSUME NEW i \in Children, Tally(i) PROVE Owner'
  BY <1>0, <1>18 DEF Tally
<1>19. ASSUME NEW i \in Children, Write(i) PROVE Owner'
  BY <1>0, <1>19 DEF Write
<1>20. ASSUME NEW i \in Children, Close(i) PROVE Owner'
  BY <1>0, <1>20 DEF Close
<1>21. CASE UNCHANGED vars
  BY <1>0, <1>21 DEF vars
<1>. QED
  BY <1>1, <1>2, <1>3, <1>4, <1>5, <1>6, <1>7, <1>8, <1>9, <1>10, <1>11,
     <1>12, <1>13, <1>14, <1>15, <1>16, <1>17, <1>18, <1>19, <1>20, <1>21
     DEF Next, ParentStep, ChildStep, Environment

\* Write is the only step of a child's own that ends it, outside accept().
LEMMA DeathsStep == IInv /\ [Next]_vars => Deaths'
<1>. SUFFICES ASSUME IInv, [Next]_vars PROVE Deaths'
  OBVIOUS
<1>. USE PreforkAssumption DEF procs, serve, net, final, Children, Nobody, TypeOK, Deaths, Down, Alive, Go
<1>0. TypeOK /\ Deaths
  BY DEF IInv
<1>1. CASE Fork
  BY <1>0, <1>1 DEF Fork
<1>2. CASE Assign
  BY <1>0, <1>2 DEF Assign
<1>3. CASE ForkFails
  BY <1>0, <1>3 DEF ForkFails
<1>4. CASE Pause
  BY <1>0, <1>4 DEF Pause
<1>5. CASE SigInt
  BY <1>0, <1>5 DEF SigInt
<1>6. CASE Report
  BY <1>0, <1>6 DEF Report
<1>7. CASE Kill
  BY <1>0, <1>7 DEF Kill
<1>8. CASE Destroy
  BY <1>0, <1>8 DEF Destroy
<1>9. ASSUME NEW i \in Children, Wait(i) PROVE Deaths'
  BY <1>0, <1>9 DEF Wait
<1>10. CASE Exit
  BY <1>0, <1>10 DEF Exit
<1>11. ASSUME NEW c \in Conns, Connect(c) \/ Reset(c) PROVE Deaths'
  BY <1>0, <1>11 DEF Connect, Reset
<1>12. ASSUME NEW i \in Children, KillChild(i) PROVE Deaths'
  BY <1>0, <1>12 DEF KillChild
<1>13. ASSUME NEW i \in Children, Die(i) PROVE Deaths'
  BY <1>0, <1>13 DEF Die
<1>14. ASSUME NEW i \in Children, Lock(i) PROVE Deaths'
  BY <1>0, <1>14 DEF Lock, LockOf
<1>15. ASSUME NEW i \in Children, NEW c \in Conns, Accept(i, c) PROVE Deaths'
  BY <1>0, <1>15 DEF Accept
<1>16. ASSUME NEW i \in Children, AcceptFails(i) PROVE Deaths'
  BY <1>0, <1>16 DEF AcceptFails
<1>17. ASSUME NEW i \in Children, Unlock(i) PROVE Deaths'
  BY <1>0, <1>17 DEF Unlock
<1>18. ASSUME NEW i \in Children, Tally(i) PROVE Deaths'
  BY <1>0, <1>18 DEF Tally
<1>19. ASSUME NEW i \in Children, Write(i) PROVE Deaths'
  BY <1>0, <1>19 DEF Write
<1>20. ASSUME NEW i \in Children, Close(i) PROVE Deaths'
  BY <1>0, <1>20 DEF Close
<1>21. CASE UNCHANGED vars
  BY <1>0, <1>21 DEF vars
<1>. QED
  BY <1>1, <1>2, <1>3, <1>4, <1>5, <1>6, <1>7, <1>8, <1>9, <1>10, <1>11,
     <1>12, <1>13, <1>14, <1>15, <1>16, <1>17, <1>18, <1>19, <1>20, <1>21
     DEF Next, ParentStep, ChildStep, Environment

\* The inductive invariant holds in every reachable state.
THEOREM Invariant == Spec => []IInv
<1>1. Init => IInv
  <2>. SUFFICES ASSUME Init PROVE IInv
    OBVIOUS
  <2>1. TypeOK
    <3>1. destroyed \in BOOLEAN
      BY DEF Init
    <3>2. next \in 0 .. NChildren
      BY PreforkAssumption DEF Init
    <3>3. /\ mutex \in Children \cup {Nobody}
          /\ reply \in [Conns -> Children \cup {Nobody}]
      BY DEF Init
    <3>. QED  BY <3>1, <3>2, <3>3, PreforkAssumption DEF Init, TypeOK
  <2>2. Bodies /\ Deaths
    BY DEF Init, Bodies, Deaths
  <2>3. Owner
    BY DEF Init, Owner, Children, Nobody, Critical
  <2>. QED  BY <2>1, <2>2, <2>3 DEF IInv
<1>2. IInv /\ [Next]_vars => IInv'
  BY TypeStep, BodiesStep, OwnerStep, DeathsStep DEF IInv
<1>. QED  BY <1>1, <1>2, PTL DEF Spec

\* Types are kept; the loops of main() and sig_int() stay inside pids[].
THEOREM TypeCorrect == Spec => []TypeOK
<1>1. IInv => TypeOK
  BY DEF IInv
<1>. QED  BY <1>1, Invariant, PTL

\* The mutex in shared memory serialises accept() until sig_int() destroys it.
THEOREM MutualExclusion == Spec => []AcceptSerialised
<1>1. IInv => AcceptSerialised
  BY DEF IInv, Owner, AcceptSerialised
<1>. QED  BY <1>1, Invariant, PTL

\* A SIGPIPE, the one death that child_main brings on itself, never takes the
\* mutex along.
THEOREM NoOrphanedLock == Spec => []LockNotOrphaned
<1>1. IInv => LockNotOrphaned
  <2>. SUFFICES ASSUME IInv, mutex # Nobody, kills = 0, ~Down
                PROVE  Alive(mutex) /\ pc[mutex] \in Critical
    BY DEF LockNotOrphaned
  <2>1. mutex \in Children /\ pc[mutex] \in Critical
    BY DEF IInv, TypeOK, Owner
  <2>2. child[mutex] \in {"none", "alive", "dead", "reaped"}
    BY <2>1 DEF IInv, TypeOK
  <2>. QED  BY <2>1, <2>2 DEF IInv, Deaths, Alive, Critical
<1>. QED  BY <1>1, Invariant, PTL
=============================================================================
