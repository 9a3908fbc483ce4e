--------------------------- MODULE EventLoopProofs ---------------------------
(* Proofs about EventLoop, for both programs, any table and any clients.   *)
EXTENDS EventLoop, FiniteSetTheorems, SequenceTheorems, WellFoundedInduction, TLAPS

(***************************************************************************)
(* The inductive invariant. A client is in the queue or in the table, once *)
(* (Queued, Slotted, Placed). Some of the Remaining slots were reported by *)
(* select() or poll(): nready counts these, and what is not among them is  *)
(* spurious (Turns). Only the highest slot can be, so the scan meets it    *)
(* last, when nready has run out. While accept() is due, all that is ready *)
(* was reported, and nready is one more (Announced).                       *)
(***************************************************************************)

Queued ==
  /\ \A j, k \in 1 .. Len(queue) : queue[j] = queue[k] => j = k
  /\ \A j \in 1 .. Len(queue) :
       cli[queue[j]] \notin {"idle", "refused"} /\ \A s \in Slots : slot[s] # queue[j]

Slotted ==
  /\ \A s \in Slots : slot[s] # None => s <= maxi /\ cli[slot[s]] \notin {"idle", "refused"}
  /\ \A s, t \in Slots : slot[s] = slot[t] => s = t \/ slot[s] = None

Placed ==
  \A c \in Conns : cli[c] = "open" =>
    (\E j \in 1 .. Len(queue) : queue[j] = c) \/ (\E s \in Slots : slot[s] = c)

Announced ==
  pc = "accept" =>
    /\ i = 1 /\ nready = Cardinality(Remaining) + 1
    /\ \A s \in Slots \cap ready : slot[s] # None /\ Readable(slot[s])

\* What select() or poll() has reported and the loop has not yet handled.
Reported(G) ==
  /\ G \subseteq Remaining /\ Remaining \ G \subseteq Spurious
  /\ nready = Cardinality(G) /\ G # {}
  /\ pc \in {"read", "write"} => i \in G
  /\ \A s \in G : Readable(slot[s]) \/ (pc = "write" /\ s = i)

Turns == pc \in {"scan", "read", "write"} => \E G \in SUBSET Slots : Reported(G)
Ended == pc = "wait" => Remaining = Spurious

Clients == Queued /\ Slotted /\ Placed
Rounds  == Announced /\ Turns /\ Ended
IInv    == TypeOK /\ Clients /\ Rounds

-----------------------------------------------------------------------------
(* Arithmetic and finite sets.                                             *)

\* Min is what its name says.
LEMMA Least ==
  ASSUME NEW S \in SUBSET Nat, S # {}
  PROVE  Min(S) \in S /\ \A x \in S : Min(S) <= x
<1>. DEFINE R == {ss \in Nat \X Nat : ss[1] < ss[2]}
<1>1. OpToRel(<, Nat) = R
  BY DEF OpToRel
<1>2. IsWellFoundedOn(R, Nat)
  BY NatLessThanWellFounded, <1>1
<1>3. PICK x \in S : \A y \in S : ~ (<<y, x>> \in R)
  BY <1>2, WFMin
<1>4. ASSUME NEW y \in S PROVE x <= y
  <2>1. x \in Nat /\ y \in Nat /\ <<y, x>> \notin R
    BY <1>3
  <2>. QED  BY <2>1
<1>. QED  BY <1>4 DEF Min

\* Of two numbers, Min and Max are the lower and the higher.
LEMMA MinMax ==
  ASSUME NEW a \in Nat, NEW b \in Nat
  PROVE  /\ Min({a, b}) \in {a, b} /\ Min({a, b}) <= a /\ Min({a, b}) <= b
         /\ Max({a, b}) \in {a, b} /\ Max({a, b}) >= a /\ Max({a, b}) >= b
<1>1. \E x \in {a, b} : \A y \in {a, b} : x >= y
  OBVIOUS
<1>2. Max({a, b}) \in {a, b} /\ \A y \in {a, b} : Max({a, b}) >= y
  BY <1>1 DEF Max
<1>. QED  BY <1>2, Least

\* Every slot below the free one is taken.
LEMMA FreeSlot ==
  ASSUME slot \in [Slots -> Conns \cup {None}]
  PROVE  /\ Free \in 1 .. MaxSlots + 1
         /\ Free \in Slots => slot[Free] = None
         /\ \A s \in Slots : s < Free => slot[s] # None
         /\ ~Full <=> Free \in Slots
<1>. DEFINE S == {s \in Slots : slot[s] = None} \cup {MaxSlots + 1}
<1>1. S \in SUBSET Nat /\ S # {} /\ S \subseteq 1 .. MaxSlots + 1
  BY LoopAssumption DEF Slots
<1>2. Min(S) \in S /\ \A x \in S : Min(S) <= x
  BY <1>1, Least
<1>3. Free = Min(S)
  BY DEF Free
<1>. HIDE DEF S
<1>4. Free \in S /\ \A x \in S : Free <= x
  BY <1>2, <1>3
<1>. QED  BY <1>4, <1>1, LoopAssumption DEF S, Full, Slots

\* The sets of slots the invariant counts are finite.
LEMMA FiniteSlots ==
  ASSUME NEW G \in SUBSET Slots
  PROVE  IsFiniteSet(G) /\ Cardinality(G) \in Nat /\ (Cardinality(G) = 0 <=> G = {})
<1>1. IsFiniteSet(Slots)
  BY LoopAssumption, FS_Interval DEF Slots
<1>. QED  BY <1>1, FS_Subset, FS_CardinalityType, FS_EmptySet

-----------------------------------------------------------------------------
(* The clients.                                                            *)

\* A client changes nothing of a round, and one that is readable stays so.
LEMMA ClientRound ==
  ASSUME Rounds, UNCHANGED <<loop, pc, table, round>>,
         \A s \in Slots \cap ready : slot[s] # None /\ Readable(slot[s]) => Readable(slot[s])'
  PROVE  Rounds'
<1>1. Remaining' = Remaining /\ Spurious' = Spurious
  BY DEF Remaining, Spurious, table, round, Poll
<1>2. Announced'
  BY <1>1 DEF Rounds, Announced, table, round
<1>3. ASSUME NEW G \in SUBSET Slots, Reported(G) PROVE Reported(G)'
  <2>1. ASSUME NEW s \in G PROVE s \in Slots \cap ready /\ slot[s] # None
    BY <1>3, <2>1 DEF Reported, Remaining
  <2>. QED  BY <1>1, <1>3, <2>1 DEF Reported, table, round
<1>. QED  BY <1>1, <1>2, <1>3 DEF Rounds, Turns, Ended, table, round

\* Whatever a client does, a new one is queued once and no turn is lost.
LEMMA ClientStep ==
  ASSUME IInv, NEW c \in Conns, Client(c)
  PROVE  IInv'
<1>. USE LoopAssumption
<1>1. TypeOK /\ Clients /\ Rounds
  BY DEF IInv
<1>2. CASE Connect(c)
  <2>1. /\ cli[c] = "idle" /\ cli' = [cli EXCEPT ![c] = "open"] /\ queue' = Append(queue, c)
        /\ UNCHANGED <<pc, table, round, data, errors, loop>>
    BY <1>2 DEF Connect
  <2>2. /\ queue \in Seq(Conns)
        /\ cli \in [Conns -> {"idle", "open", "closed", "reset", "broken", "spent", "refused"}]
    BY <1>1 DEF TypeOK
  <2>3. /\ queue' \in Seq(Conns) /\ Len(queue') = Len(queue) + 1 /\ Len(queue) \in Nat
        /\ \A j \in 1 .. Len(queue) : queue'[j] = queue[j] /\ queue[j] \in Conns
        /\ queue'[Len(queue) + 1] = c
    BY <2>1, <2>2, AppendProperties, LenProperties
  <2>4. TypeOK'
    <3>1. queue' # <<>>
      BY <2>3, EmptySeq
    <3>. QED  BY <1>1, <2>1, <2>3, <3>1 DEF TypeOK, table, round, data
  <2>5. \A s \in Slots : slot[s] # c
    BY <1>1, <2>1 DEF Clients, Slotted, TypeOK
  <2>6. \A j \in 1 .. Len(queue) : queue[j] # c
    BY <1>1, <2>1 DEF Clients, Queued
  <2>7. Queued'
    BY <1>1, <2>1, <2>2, <2>3, <2>5, <2>6 DEF Clients, Queued, table
  <2>8. Slotted'
    BY <1>1, <2>1, <2>2 DEF Clients, Slotted, table, TypeOK
  <2>9. Placed'
    <3>1. ASSUME NEW d \in Conns, cli'[d] = "open"
          PROVE  (\E j \in 1 .. Len(queue') : queue'[j] = d) \/ (\E s \in Slots : slot'[s] = d)
      <4>1. CASE d = c
        BY <4>1, <2>3
      <4>2. CASE d # c
        <5>1. (\E j \in 1 .. Len(queue) : queue[j] = d) \/ (\E s \in Slots : slot[s] = d)
          BY <1>1, <2>1, <2>2, <3>1, <4>2 DEF Clients, Placed
        <5>. QED  BY <5>1, <2>1, <2>3 DEF table
      <4>. QED  BY <4>1, <4>2
    <3>. QED  BY <3>1 DEF Placed
  <2>10. Rounds'
    <3>1. \A s \in Slots \cap ready : slot[s] # None /\ Readable(slot[s]) => Readable(slot[s])'
      BY <1>1, <2>1, <2>2 DEF Readable, TypeOK, table, data
    <3>. QED  BY <3>1, <1>1, <2>1, ClientRound
  <2>. QED  BY <2>4, <2>7, <2>8, <2>9, <2>10 DEF IInv, Clients
<1>3. CASE Send(c)
  <2>1. /\ cli[c] = "open" /\ unsent[c] > 0 /\ inbox[c] < InRoom
        /\ unsent' = [unsent EXCEPT ![c] = @ - 1] /\ inbox' = [inbox EXCEPT ![c] = @ + 1]
        /\ UNCHANGED <<pc, table, round, queue, cli, outbox, got, errors, loop>>
    BY <1>3 DEF Send
  <2>2. TypeOK'
    <3>1. unsent' \in [Conns -> Nat] /\ inbox' \in [Conns -> 0 .. InRoom]
      <4>1. unsent[c] \in Nat /\ inbox[c] \in 0 .. InRoom
        BY <1>1 DEF TypeOK
      <4>2. unsent[c] - 1 \in Nat /\ inbox[c] + 1 \in 0 .. InRoom
        BY <2>1, <4>1
      <4>. QED  BY <1>1, <2>1, <4>2 DEF TypeOK
    <3>. QED  BY <1>1, <2>1, <3>1 DEF TypeOK, table, round
  <2>3. Clients'
    BY <1>1, <2>1 DEF Clients, Queued, Slotted, Placed, table
  <2>4. \A s \in Slots \cap ready : slot[s] # None /\ Readable(slot[s]) => Readable(slot[s])'
    BY <1>1, <2>1 DEF Readable, TypeOK, table
  <2>. QED  BY <1>1, <2>1, <2>2, <2>3, <2>4, ClientRound DEF IInv
<1>4. CASE Recv(c)
  <2>1. /\ got' = [got EXCEPT ![c] = @ + outbox[c]] /\ outbox' = [outbox EXCEPT ![c] = 0]
        /\ UNCHANGED <<pc, table, round, queue, cli, unsent, inbox, errors, loop>>
    BY <1>4 DEF Recv
  <2>2. TypeOK'
    <3>2. /\ outbox \in [Conns -> 0 .. OutRoom] /\ got \in [Conns -> Nat] /\ OutRoom \in Nat
          /\ got[c] + outbox[c] \in Nat
      <4>1. outbox \in [Conns -> 0 .. OutRoom] /\ got \in [Conns -> Nat]
        BY <1>1 DEF TypeOK
      <4>2. OutRoom \in Nat
        BY LoopAssumption
      <4>. QED  BY <4>1, <4>2
    <3>1. got' \in [Conns -> Nat] /\ outbox' \in [Conns -> 0 .. OutRoom]
      BY <2>1, <3>2
    <3>3. /\ loop' = loop /\ pc' = pc /\ slot' = slot /\ maxi' = maxi /\ ready' = ready
          /\ nready' = nready /\ i' = i /\ left' = left /\ begun' = begun /\ queue' = queue
          /\ cli' = cli /\ unsent' = unsent /\ inbox' = inbox /\ errors' = errors
      BY <2>1 DEF table, round
    <3>4. TypeOK
      BY <1>1
    <3>5. /\ loop' \in Loops
          /\ pc' \in {"wait", "accept", "scan", "read", "write", "dead"}
          /\ slot' \in [Slots -> Conns \cup {None}] /\ maxi' \in 0 .. MaxSlots
          /\ ready' \subseteq 0 .. MaxSlots /\ nready' \in Int /\ i' \in 1 .. MaxSlots + 1
          /\ left' \in 0 .. InRoom /\ queue' \in Seq(Conns) /\ errors' \in 0 .. MaxErrors
          /\ begun' \in BOOLEAN
          /\ cli' \in [Conns -> {"idle", "open", "closed", "reset", "broken", "spent", "refused"}]
          /\ unsent' \in [Conns -> Nat] /\ inbox' \in [Conns -> 0 .. InRoom]
      BY <3>3, <3>4 DEF TypeOK
    <3>6. /\ pc' \in {"read", "write"} => i' \in Slots /\ slot'[i'] # None
          /\ pc' = "accept" => queue' # <<>>
      BY <3>3, <3>4 DEF TypeOK
    <3>. QED  BY <3>1, <3>5, <3>6 DEF TypeOK
  <2>3. Clients'
    BY <1>1, <2>1 DEF Clients, Queued, Slotted, Placed, table
  <2>4. \A s \in Slots \cap ready : slot[s] # None /\ Readable(slot[s]) => Readable(slot[s])'
    BY <1>1, <2>1 DEF Readable, TypeOK, table
  <2>. QED  BY <1>1, <2>1, <2>2, <2>3, <2>4, ClientRound DEF IInv
<1>5. CASE Leave(c)
  <2>1. PICK how \in {"closed", "reset"} : cli' = [cli EXCEPT ![c] = how]
    BY <1>5 DEF Leave
  <2>2. UNCHANGED <<pc, table, round, queue, data, errors, loop>>
    BY <1>5 DEF Leave
  <2>3. TypeOK'
    BY <1>1, <2>1, <2>2 DEF TypeOK, table, round, data
  <2>4. \A d \in Conns : /\ cli[d] \notin {"idle", "refused"} => cli'[d] \notin {"idle", "refused"}
                         /\ cli'[d] = "open" => cli[d] = "open"
    BY <1>1, <2>1 DEF TypeOK
  <2>5. \A j \in 1 .. Len(queue) : queue[j] \in Conns
    BY <1>1, LenProperties DEF TypeOK
  <2>6. Clients'
    <3>1. Queued'
      BY <1>1, <2>2, <2>4, <2>5 DEF Clients, Queued, table
    <3>2. Slotted'
      BY <1>1, <2>2, <2>4 DEF Clients, Slotted, table, TypeOK
    <3>3. Placed'
      BY <1>1, <2>2, <2>4 DEF Clients, Placed, table
    <3>. QED  BY <3>1, <3>2, <3>3 DEF Clients
  <2>7. \A s \in Slots \cap ready : slot[s] # None /\ Readable(slot[s]) => Readable(slot[s])'
    BY <1>1, <2>1, <2>2 DEF Readable, TypeOK, table, data
  <2>. QED  BY <1>1, <2>2, <2>3, <2>6, <2>7, ClientRound DEF IInv
<1>. QED  BY <1>2, <1>3, <1>4, <1>5 DEF Client

-----------------------------------------------------------------------------
(* The start of a round.                                                   *)

\* A round starts with everything that is ready reported.
LEMMA WaitStep ==
  ASSUME IInv, Wait
  PROVE  IInv'
<1>. USE LoopAssumption
<1>1. TypeOK /\ Clients /\ Rounds
  BY DEF IInv
<1>2. /\ pc = "wait" /\ ReadySlots # {}
      /\ ready' = ReadySlots /\ nready' = Cardinality(ReadySlots) /\ i' = 1
      /\ pc' = IF 0 \in ReadySlots THEN "accept" ELSE "scan"
      /\ UNCHANGED <<slot, maxi, left, begun, queue, cli, unsent, inbox, outbox, got, errors, loop>>
  BY DEF Wait, table, data
<1>. DEFINE G == ReadySlots \ {0}
<1>3. G = {s \in 1 .. maxi : slot[s] # None /\ Readable(slot[s])} /\ G \in SUBSET Slots
  BY <1>1 DEF ReadySlots, TypeOK, Slots
<1>4. ReadySlots \subseteq 0 .. MaxSlots /\ (0 \in ReadySlots => queue # <<>>)
  BY <1>3, <1>1 DEF ReadySlots, TypeOK, Slots
<1>5. /\ IsFiniteSet(G) /\ Cardinality(G) \in Nat /\ (Cardinality(G) = 0 <=> G = {})
      /\ Cardinality(ReadySlots) = IF 0 \in ReadySlots THEN Cardinality(G) + 1 ELSE Cardinality(G)
  <2>1. IsFiniteSet(G) /\ Cardinality(G) \in Nat /\ (Cardinality(G) = 0 <=> G = {})
    BY <1>3, FiniteSlots
  <2>2. Cardinality(G \cup {0}) = Cardinality(G) + 1
    BY <2>1, FS_AddElement
  <2>3. ReadySlots = IF 0 \in ReadySlots THEN G \cup {0} ELSE G
    OBVIOUS
  <2>. QED  BY <2>1, <2>2, <2>3
<1>6. TypeOK'
  <2>1. /\ ready' \subseteq 0 .. MaxSlots /\ nready' \in Int /\ i' \in 1 .. MaxSlots + 1
        /\ pc' \in {"accept", "scan"} /\ (pc' = "accept" => queue # <<>>)
    BY <1>2, <1>4, <1>5
  <2>. QED  BY <1>1, <1>2, <2>1 DEF TypeOK
<1>7. Clients'
  BY <1>1, <1>2 DEF Clients, Queued, Slotted, Placed
<1>8. Remaining' = G
  <2>1. Remaining' = {s \in 1 .. MaxSlots : slot[s] # None /\ s \in ReadySlots}
    BY <1>2 DEF Remaining
  <2>. QED  BY <2>1, <1>3 DEF Slots
<1>9. \A s \in G : Readable(slot[s])' /\ slot'[s] # None
  BY <1>2, <1>3 DEF Readable
<1>10. Announced'
  <2>1. Slots \cap ready' = G
    BY <1>2, <1>3 DEF Slots
  <2>. QED  BY <1>2, <1>5, <1>8, <1>9, <2>1 DEF Announced
<1>11. Turns'
  <2>1. PICK H \in SUBSET Slots : H = G
    BY <1>3
  <2>2. ASSUME pc' = "scan" PROVE Reported(H)'
    <3>1. nready' = Cardinality(H) /\ H # {}
      BY <1>2, <1>5, <2>1, <2>2
    <3>. QED  BY <2>1, <2>2, <3>1, <1>8, <1>9 DEF Reported
  <2>. QED  BY <1>2, <2>2 DEF Turns
<1>12. Ended'
  BY <1>2 DEF Ended
<1>. QED  BY <1>6, <1>7, <1>10, <1>11, <1>12 DEF IInv, Rounds

-----------------------------------------------------------------------------
(* accept().                                                               *)

\* What it reports besides is the highest slot, and only with poll().
LEMMA AcceptRound ==
  ASSUME TypeOK, Announced, pc = "accept", UNCHANGED <<loop, i>>,
         nready' = Counted, pc' = IF Counted <= 0 THEN "wait" ELSE "scan",
         \A s \in Remaining : Readable(slot[s])',
         Remaining' = Remaining \/ (Poll /\ Remaining' = Remaining \cup {maxi'})
  PROVE  Rounds'
<1>0. Remaining \in SUBSET Slots
  <2>1. i \in 1 .. MaxSlots + 1 /\ MaxSlots \in Nat
    BY LoopAssumption DEF TypeOK
  <2>. QED  BY <2>1 DEF Remaining, Slots
<1>1. PICK H \in SUBSET Slots : H = Remaining
  BY <1>0
<1>2. IsFiniteSet(H) /\ Cardinality(H) \in Nat /\ (Cardinality(H) = 0 <=> H = {})
  BY FiniteSlots
<1>3. Counted = Cardinality(H)
  BY <1>1, <1>2 DEF Announced, Counted
<1>4. pc' = "scan" => Reported(H)'
  <2>1. Remaining' \ H \subseteq Spurious'
    BY <1>1 DEF Spurious, Poll
  <2>. QED  BY <2>1, <1>1, <1>2, <1>3 DEF Reported
<1>5. pc' = "wait" => Remaining' = Spurious'
  <2>1. pc' = "wait" => H = {}
    BY <1>2, <1>3
  <2>. QED  BY <2>1, <1>1 DEF Spurious, Poll
<1>. QED  BY <1>4, <1>5 DEF Rounds, Announced, Turns, Ended

\* A full table refuses the client at the head of the queue, another seats it.
LEMMA AcceptStep ==
  ASSUME IInv, Accept
  PROVE  IInv'
<1>. USE LoopAssumption
<1>1. TypeOK /\ Queued /\ Slotted /\ Placed /\ Announced
  BY DEF IInv, Clients, Rounds
<1>2. /\ pc = "accept" /\ queue' = Tail(queue) /\ nready' = Counted
      /\ pc' = IF Counted <= 0 THEN "wait" ELSE "scan"
      /\ UNCHANGED <<i, left, begun, unsent, inbox, outbox, got, errors, loop>>
  BY DEF Accept, data
<1>3. /\ queue \in Seq(Conns) /\ queue # <<>> /\ slot \in [Slots -> Conns \cup {None}]
      /\ cli \in [Conns -> {"idle", "open", "closed", "reset", "broken", "spent", "refused"}]
      /\ maxi \in 0 .. MaxSlots /\ ready \subseteq 0 .. MaxSlots /\ nready \in Int
  BY <1>1, <1>2 DEF TypeOK
<1>. DEFINE c == Head(queue)
<1>4. /\ c \in Conns /\ queue' \in Seq(Conns) /\ Len(queue) \in Nat \ {0}
      /\ Len(queue') = Len(queue) - 1 /\ queue[1] = c
      /\ \A j \in 1 .. Len(queue') : queue'[j] = queue[j + 1]
      /\ \A j \in 1 .. Len(queue) : queue[j] \in Conns
  <2>1. queue[1] = c
    OBVIOUS
  <2>. QED  BY <1>2, <1>3, <2>1, HeadTailProperties, EmptySeq, LenProperties
<1>5. \A s \in Slots : slot[s] # c
  BY <1>1, <1>4 DEF Queued
<1>6. \A j \in 1 .. Len(queue') : queue'[j] # c /\ j + 1 \in 1 .. Len(queue)
  <2>1. ASSUME NEW j \in 1 .. Len(queue') PROVE queue'[j] # c /\ j + 1 \in 1 .. Len(queue)
    <3>1. j + 1 \in 1 .. Len(queue) /\ j + 1 # 1 /\ 1 \in 1 .. Len(queue)
      BY <1>4, <2>1
    <3>. QED  BY <3>1, <1>1, <1>4 DEF Queued
  <2>. QED  BY <2>1
<1>7. \A j \in 1 .. Len(queue) : queue[j] # c => j - 1 \in 1 .. Len(queue') /\ queue'[j - 1] = queue[j]
  BY <1>4
<1>8. \A j, k \in 1 .. Len(queue') : queue'[j] = queue'[k] => j = k
  <2>1. ASSUME NEW j \in 1 .. Len(queue'), NEW k \in 1 .. Len(queue'), queue'[j] = queue'[k]
        PROVE  j = k
    <3>1. queue[j + 1] = queue[k + 1] /\ j + 1 \in 1 .. Len(queue) /\ k + 1 \in 1 .. Len(queue)
      BY <2>1, <1>4, <1>6
    <3>2. j + 1 = k + 1
      BY <3>1, <1>1 DEF Queued
    <3>. QED  BY <3>2
  <2>. QED  BY <2>1
<1>9. \A j \in 1 .. Len(queue') :
        /\ queue'[j] \in Conns \ {c} /\ cli[queue'[j]] \notin {"idle", "refused"}
        /\ \A s \in Slots : slot[s] # queue'[j]
  <2>1. ASSUME NEW j \in 1 .. Len(queue')
        PROVE  /\ queue'[j] \in Conns \ {c} /\ cli[queue'[j]] \notin {"idle", "refused"}
               /\ \A s \in Slots : slot[s] # queue'[j]
    <3>1. j + 1 \in 1 .. Len(queue) /\ queue'[j] = queue[j + 1] /\ queue'[j] # c
      BY <2>1, <1>4, <1>6
    <3>. QED  BY <3>1, <1>1, <1>4 DEF Queued
  <2>. QED  BY <2>1
<1>10. Remaining \subseteq Slots \cap ready /\ \A s \in Remaining : slot[s] # None /\ Readable(slot[s])
  BY <1>1, <1>2 DEF Announced, Remaining, Slots
<1>. HIDE DEF c
<1>11. CASE Full /\ cli' = [cli EXCEPT ![Head(queue)] = "refused"] /\ UNCHANGED <<table, ready>>
  <2>1. cli' = [cli EXCEPT ![c] = "refused"] /\ UNCHANGED <<slot, maxi, ready>>
    BY <1>11 DEF table, c
  <2>2. TypeOK'
    <3>1. cli' \in [Conns -> {"idle", "open", "closed", "reset", "broken", "spent", "refused"}]
      BY <1>3, <1>4, <2>1
    <3>2. nready' \in Int /\ pc' \in {"wait", "scan"}
      BY <1>2, <1>3 DEF Counted
    <3>. QED  BY <1>1, <1>2, <1>4, <2>1, <3>1, <3>2 DEF TypeOK
  <2>3. \A d \in Conns : d # c => cli'[d] = cli[d]
    BY <1>3, <2>1
  <2>4. Queued'
    <3>1. ASSUME NEW j \in 1 .. Len(queue'), NEW k \in 1 .. Len(queue'), queue'[j] = queue'[k]
          PROVE  j = k
      BY <3>1, <1>8
    <3>2. ASSUME NEW j \in 1 .. Len(queue')
          PROVE  cli'[queue'[j]] \notin {"idle", "refused"} /\ \A s \in Slots : slot'[s] # queue'[j]
      BY <3>2, <1>9, <2>1, <2>3
    <3>. QED  BY <3>1, <3>2 DEF Queued
  <2>5. Slotted'
    BY <1>1, <1>3, <1>5, <2>1, <2>3 DEF Slotted
  <2>6. Placed'
    <3>1. \A d \in Conns : cli'[d] = "open" => d # c /\ cli[d] = "open"
      BY <1>3, <1>4, <2>1
    <3>. QED  BY <3>1, <1>1, <1>7, <2>1 DEF Placed
  <2>7. Rounds'
    <3>1. \A s \in Remaining : Readable(slot[s])'
      BY <1>2, <1>3, <1>5, <1>10, <2>1, <2>3 DEF Readable
    <3>2. Remaining' = Remaining
      BY <1>2, <2>1 DEF Remaining
    <3>. QED  BY <3>1, <3>2, <1>1, <1>2, AcceptRound
  <2>. QED  BY <2>2, <2>4, <2>5, <2>6, <2>7 DEF IInv, Clients
<1>12. CASE /\ ~Full /\ slot' = [slot EXCEPT ![Free] = Head(queue)] /\ ready' \in NewReady
            /\ maxi' = Top /\ UNCHANGED cli
  <2>1. /\ Free \in Slots /\ slot[Free] = None
        /\ slot' = [slot EXCEPT ![Free] = c] /\ UNCHANGED cli
    BY <1>3, <1>12, FreeSlot DEF c
  <2>2. maxi' \in {maxi, Free} /\ maxi' >= maxi /\ maxi' >= Free /\ maxi' \in 0 .. MaxSlots
    <3>1. maxi \in Nat /\ Free \in Nat
      BY <1>3, <2>1 DEF Slots
    <3>2. maxi' = Max({maxi, Free})
      BY <1>12 DEF Top
    <3>3. maxi' \in {maxi, Free} /\ maxi' >= maxi /\ maxi' >= Free
      BY <3>1, <3>2, MinMax
    <3>4. Free \in 0 .. MaxSlots
      BY <2>1 DEF Slots
    <3>. QED  BY <3>3, <3>4, <1>3
  <2>3. ready' = ready \/ (ready' = ready \cup {Free} /\ Poll /\ maxi' = Free)
    <3>1. Free > maxi => maxi' = Free
      BY <1>3, <2>1, <2>2 DEF Slots
    <3>. QED  BY <3>1, <1>12 DEF NewReady
  <2>4. /\ slot' \in [Slots -> Conns \cup {None}] /\ slot'[Free] = c
        /\ \A s \in Slots : s # Free => slot'[s] = slot[s]
    BY <1>3, <1>4, <2>1
  <2>5. TypeOK'
    <3>1. nready' \in Int /\ pc' \in {"wait", "scan"}
      BY <1>2, <1>3 DEF Counted
    <3>2. ready' \subseteq 0 .. MaxSlots
      <4>1. Free \in 0 .. MaxSlots
        BY <2>1 DEF Slots
      <4>. QED  BY <4>1, <1>3, <2>3
    <3>. QED  BY <1>1, <1>2, <1>4, <2>1, <2>2, <2>4, <3>1, <3>2 DEF TypeOK
  <2>6. Queued'
    <3>1. ASSUME NEW j \in 1 .. Len(queue'), NEW k \in 1 .. Len(queue'), queue'[j] = queue'[k]
          PROVE  j = k
      BY <3>1, <1>8
    <3>2. ASSUME NEW j \in 1 .. Len(queue')
          PROVE  cli'[queue'[j]] \notin {"idle", "refused"} /\ \A s \in Slots : slot'[s] # queue'[j]
      BY <3>2, <1>6, <1>9, <2>1, <2>4
    <3>. QED  BY <3>1, <3>2 DEF Queued
  <2>7. Slotted'
    <3>1. cli[c] \notin {"idle", "refused"} /\ c # None
      BY <1>1, <1>4 DEF Queued
    <3>. QED  BY <3>1, <1>1, <1>3, <1>5, <2>1, <2>2, <2>4 DEF Slotted, Slots
  <2>8. Placed'
    <3>1. ASSUME NEW d \in Conns, cli'[d] = "open"
          PROVE  (\E j \in 1 .. Len(queue') : queue'[j] = d) \/ (\E s \in Slots : slot'[s] = d)
      <4>1. CASE d = c
        BY <4>1, <2>1, <2>4
      <4>2. CASE d # c /\ \E j \in 1 .. Len(queue) : queue[j] = d
        BY <4>2, <1>7
      <4>3. CASE \E s \in Slots : slot[s] = d
        BY <4>3, <2>1, <2>4
      <4>. QED  BY <4>1, <4>2, <4>3, <3>1, <1>1, <2>1 DEF Placed
    <3>. QED  BY <3>1 DEF Placed
  <2>9. Free \notin ready
    BY <1>1, <1>2, <2>1 DEF Announced
  <2>10. \A s \in Remaining : Readable(slot[s])'
    BY <1>2, <1>10, <2>1, <2>4, <2>9 DEF Readable
  <2>11. Remaining' = Remaining \/ (Poll /\ Remaining' = Remaining \cup {maxi'})
    <3>1. i = 1 /\ i' = 1
      BY <1>1, <1>2 DEF Announced
    <3>2. CASE ready' = ready
      <4>1. Remaining' = {s \in Slots : slot'[s] # None /\ s \in ready}
        BY <3>1, <3>2 DEF Remaining, Slots
      <4>2. Remaining = {s \in Slots : slot[s] # None /\ s \in ready}
        BY <3>1 DEF Remaining, Slots
      <4>. QED  BY <4>1, <4>2, <2>4, <2>9
    <3>3. CASE ready' = ready \cup {Free} /\ Poll /\ maxi' = Free
      <4>1. Remaining' = {s \in Slots : slot'[s] # None /\ s \in ready \cup {Free}}
        BY <3>1, <3>3 DEF Remaining, Slots
      <4>2. Remaining = {s \in Slots : slot[s] # None /\ s \in ready}
        BY <3>1 DEF Remaining, Slots
      <4>3. c # None
        BY <1>4
      <4>. QED  BY <3>3, <4>1, <4>2, <4>3, <2>1, <2>4
    <3>. QED  BY <3>2, <3>3, <2>3
  <2>12. Rounds'
    BY <1>1, <1>2, <2>10, <2>11, AcceptRound
  <2>. QED  BY <2>5, <2>6, <2>7, <2>8, <2>12 DEF IInv, Clients
<1>. QED  BY <1>11, <1>12 DEF Accept

\* A failing accept() leaves its slot free, and the turns as they were.
LEMMA AcceptFailsStep ==
  ASSUME IInv, AcceptFails
  PROVE  IInv'
<1>. USE LoopAssumption
<1>1. TypeOK /\ Clients /\ Announced
  BY DEF IInv, Rounds
<1>2. /\ pc = "accept" /\ errors < MaxErrors /\ errors' = errors + 1 /\ nready' = Counted
      /\ maxi' = (IF Full THEN maxi ELSE Top) /\ ready' \in IF Full THEN {ready} ELSE NewReady
      /\ UNCHANGED <<slot, i, left, begun, queue, cli, unsent, inbox, outbox, got, loop>>
  BY DEF AcceptFails, data
<1>3. /\ slot \in [Slots -> Conns \cup {None}]
      /\ maxi \in 0 .. MaxSlots /\ ready \subseteq 0 .. MaxSlots /\ nready \in Int
  BY <1>1 DEF TypeOK
<1>4. pc' \in {"wait", "scan", "dead"}
  BY DEF AcceptFails
<1>5. ~Full => Free \in Slots /\ slot[Free] = None
  BY <1>3, FreeSlot
<1>6. maxi' \in 0 .. MaxSlots /\ maxi' >= maxi
  <2>1. ~Full => Top \in 0 .. MaxSlots /\ Top >= maxi
    BY <1>3, <1>5, MinMax DEF Top, Slots
  <2>. QED  BY <2>1, <1>2, <1>3
<1>7. ready' = ready \/ (~Full /\ ready' = ready \cup {Free})
  BY <1>2 DEF NewReady
<1>8. TypeOK'
  <2>1. nready' \in Int /\ ready' \subseteq 0 .. MaxSlots
    BY <1>2, <1>3, <1>5, <1>7 DEF Counted, Slots
  <2>2. errors' \in 0 .. MaxErrors
    BY <1>1, <1>2 DEF TypeOK
  <2>. QED  BY <1>1, <1>2, <1>4, <1>6, <2>1, <2>2 DEF TypeOK
<1>9. Clients'
  <2>1. Slotted'
    BY <1>1, <1>2, <1>3, <1>6 DEF Clients, Slotted, Slots
  <2>. QED  BY <2>1, <1>1, <1>2 DEF Clients, Queued, Placed
<1>10. Rounds'
  <2>1. Remaining' = Remaining
    <3>1. i = 1 /\ i' = 1
      BY <1>1, <1>2 DEF Announced
    <3>2. Remaining' = {s \in Slots : slot[s] # None /\ s \in ready'}
      BY <1>2, <3>1 DEF Remaining, Slots
    <3>3. Remaining = {s \in Slots : slot[s] # None /\ s \in ready}
      BY <3>1 DEF Remaining, Slots
    <3>. QED  BY <3>2, <3>3, <1>5, <1>7
  <2>2. \A s \in Remaining : Readable(slot[s])'
    <3>1. \A s \in Remaining : Readable(slot[s])
      BY <1>1, <1>2 DEF Announced, Remaining, Slots
    <3>. QED  BY <3>1, <1>2 DEF Readable
  <2>3. CASE pc' = "dead"
    BY <2>3 DEF Rounds, Announced, Turns, Ended
  <2>4. CASE pc' = IF Counted <= 0 THEN "wait" ELSE "scan"
    BY <2>1, <2>2, <2>4, <1>1, <1>2, AcceptRound
  <2>. QED  BY <2>3, <2>4 DEF AcceptFails
<1>. QED  BY <1>8, <1>9, <1>10 DEF IInv

-----------------------------------------------------------------------------
(* The scan.                                                               *)

\* The scan finds a reported client, for what is spurious comes last.
LEMMA ScanStep ==
  ASSUME IInv, Scan
  PROVE  IInv'
<1>. USE LoopAssumption
<1>1. TypeOK /\ Clients /\ Slotted
  BY DEF IInv, Clients
<1>. DEFINE hits == {s \in ScanRange : slot[s] # None /\ s \in ready}
<1>2. /\ pc = "scan"
      /\ IF hits = {} THEN pc' = "wait" /\ i' = maxi + 1 ELSE pc' = "read" /\ i' = Min(hits)
      /\ UNCHANGED <<slot, maxi, ready, nready, left, begun, queue, cli, unsent, inbox, outbox, got, errors, loop>>
  BY DEF Scan, table, data
<1>3. PICK G \in SUBSET Slots : Reported(G)
  BY <1>2 DEF IInv, Rounds, Turns
<1>4. /\ i \in 1 .. MaxSlots + 1 /\ maxi \in 0 .. MaxSlots
      /\ slot \in [Slots -> Conns \cup {None}]
  BY <1>1 DEF TypeOK
<1>5. Remaining \in SUBSET Slots /\ \A s \in Remaining : s <= maxi /\ s >= i /\ slot[s] # None /\ s \in ready
  BY <1>1, <1>4 DEF Remaining, Slots, Slotted
<1>6. hits = Remaining
  <2>1. \A s \in Remaining : s \in hits
    BY <1>4, <1>5 DEF ScanRange, Slots
  <2>2. \A s \in hits : s \in Remaining
    BY <1>4 DEF ScanRange, Remaining
  <2>. QED  BY <2>1, <2>2
<1>. HIDE DEF hits
<1>7. hits # {} /\ hits \in SUBSET Nat
  <2>1. Remaining # {}
    BY <1>3 DEF Reported
  <2>2. \A s \in Slots : s \in Nat
    BY DEF Slots
  <2>. QED  BY <2>1, <2>2, <1>5, <1>6
<1>8. pc' = "read" /\ i' \in Remaining /\ \A s \in Remaining : i' <= s
  <2>1. Min(hits) \in hits /\ \A s \in hits : Min(hits) <= s
    BY <1>7, Least
  <2>2. pc' = "read" /\ i' = Min(hits)
    BY <1>2, <1>7
  <2>. QED  BY <2>1, <2>2, <1>6
<1>9. i' \in G
  <2>1. PICK g \in G : g \in Remaining
    BY <1>3 DEF Reported
  <2>2. i' \notin G => i' = maxi
    BY <1>3, <1>8 DEF Reported, Spurious
  <2>3. i' <= g /\ g <= maxi /\ g \in Nat /\ maxi \in Nat
    BY <1>4, <1>5, <1>8, <2>1 DEF Slots
  <2>. QED  BY <2>1, <2>2, <2>3
<1>10. TypeOK'
  <2>1. i' \in Slots /\ slot'[i'] # None /\ i' \in 1 .. MaxSlots + 1
    BY <1>2, <1>5, <1>8 DEF Slots
  <2>. QED  BY <1>1, <1>2, <1>8, <2>1 DEF TypeOK
<1>11. Clients'
  BY <1>1, <1>2 DEF Clients, Queued, Slotted, Placed
<1>12. Remaining' = Remaining /\ Spurious' = Spurious
  <2>1. Remaining' = {s \in i' .. MaxSlots : slot[s] # None /\ s \in ready}
    BY <1>2 DEF Remaining
  <2>2. \A s \in Remaining : s \in i' .. MaxSlots
    BY <1>5, <1>8 DEF Slots
  <2>3. \A s \in i' .. MaxSlots : s \in i .. MaxSlots
    BY <1>4, <1>5, <1>8 DEF Slots
  <2>4. Remaining' = Remaining
    BY <1>5, <2>1, <2>2, <2>3 DEF Remaining
  <2>. QED  BY <1>2, <2>4 DEF Spurious, Poll
<1>13. Reported(G)'
  <2>1. \A s \in G : Readable(slot[s])'
    BY <1>2, <1>3 DEF Reported, Readable
  <2>. QED  BY <1>2, <1>3, <1>9, <1>12, <2>1 DEF Reported
<1>14. Rounds'
  BY <1>8, <1>13 DEF Rounds, Announced, Turns, Ended
<1>. QED  BY <1>10, <1>11, <1>14 DEF IInv

-----------------------------------------------------------------------------
(* A ready client.                                                         *)

\* A client that has left may lose its slot, or be left in another way.
LEMMA GoneClients ==
  ASSUME TypeOK, Clients, pc \in {"read", "write"}, UNCHANGED <<queue, maxi>>,
         slot' = slot \/ (cli[slot[i]] # "open" /\ slot' = [slot EXCEPT ![i] = None]),
         cli' = cli \/ \E x \in {"closed", "broken", "spent"} : cli' = [cli EXCEPT ![slot[i]] = x]
  PROVE  Clients'
<1>. USE LoopAssumption
<1>1. /\ i \in Slots /\ slot[i] \in Conns /\ slot \in [Slots -> Conns \cup {None}]
      /\ cli \in [Conns -> {"idle", "open", "closed", "reset", "broken", "spent", "refused"}]
  BY DEF TypeOK
<1>2. \A d \in Conns : /\ cli[d] \notin {"idle", "refused"} => cli'[d] \notin {"idle", "refused"}
                       /\ cli'[d] = "open" => cli[d] = "open"
  BY <1>1
<1>3. \A s \in Slots : slot'[s] = slot[s] \/ (s = i /\ slot'[s] = None)
  BY <1>1
<1>4. \A j \in 1 .. Len(queue) : queue[j] \in Conns
  BY LenProperties DEF TypeOK
<1>5. Queued'
  BY <1>2, <1>3, <1>4 DEF Clients, Queued
<1>6. Slotted'
  <2>1. \A s \in Slots : slot'[s] # None => s <= maxi /\ cli'[slot'[s]] \notin {"idle", "refused"}
    BY <1>1, <1>2, <1>3 DEF Clients, Slotted
  <2>2. \A s, t \in Slots : slot'[s] = slot'[t] => s = t \/ slot'[s] = None
    BY <1>3 DEF Clients, Slotted
  <2>. QED  BY <2>1, <2>2 DEF Slotted
<1>7. Placed'
  <2>1. ASSUME NEW d \in Conns, cli'[d] = "open", NEW s \in Slots, slot[s] = d
        PROVE  slot'[s] = d
    BY <2>1, <1>1, <1>2
  <2>. QED  BY <1>2, <2>1 DEF Clients, Placed
<1>. QED  BY <1>5, <1>6, <1>7 DEF Clients

\* One turn less, and one slot less to look at.
LEMMA HandledRound ==
  ASSUME TypeOK, NEW G \in SUBSET Slots, Reported(G), pc \in {"read", "write"}, Handled,
         UNCHANGED <<loop, maxi, ready>>,
         \A s \in Slots \ {i} : slot'[s] = slot[s],
         \A s \in G \ {i} : Readable(slot[s])'
  PROVE  Rounds'
<1>. USE LoopAssumption
<1>1. /\ i \in Slots /\ i \in G /\ G \subseteq Remaining /\ Remaining \ G \subseteq Spurious
      /\ nready = Cardinality(G)
  BY DEF TypeOK, Reported
<1>2. /\ nready' = nready - 1 /\ i' = i + 1
      /\ pc' = IF nready - 1 <= 0 THEN "wait" ELSE "scan"
  BY DEF Handled
<1>3. PICK H \in SUBSET Slots : H = G \ {i}
  OBVIOUS
<1>4. nready' = Cardinality(H) /\ Cardinality(H) \in Nat /\ (Cardinality(H) = 0 <=> H = {})
  <2>1. IsFiniteSet(G)
    BY FiniteSlots
  <2>2. Cardinality(H) = Cardinality(G) - 1
    BY <2>1, <1>1, <1>3, FS_RemoveElement
  <2>. QED  BY <2>2, <1>1, <1>2, FiniteSlots
<1>5. Remaining' = Remaining \ {i}
  <2>1. Remaining' = {s \in i + 1 .. MaxSlots : slot'[s] # None /\ s \in ready}
    BY <1>2 DEF Remaining
  <2>2. i + 1 .. MaxSlots = (i .. MaxSlots) \ {i}
    BY <1>1 DEF Slots
  <2>3. \A s \in (i .. MaxSlots) \ {i} : slot'[s] = slot[s]
    BY <1>1 DEF Slots
  <2>. QED  BY <2>1, <2>2, <2>3 DEF Remaining
<1>6. Spurious' = Spurious \ {i}
  BY <1>5 DEF Spurious, Poll
<1>7. H \subseteq Remaining' /\ Remaining' \ H \subseteq Spurious' /\ Spurious' \subseteq Remaining'
  <2>1. Spurious \subseteq Remaining
    BY DEF Spurious
  <2>. QED  BY <2>1, <1>1, <1>3, <1>5, <1>6
<1>8. CASE pc' = "wait"
  <2>1. H = {}
    BY <1>8, <1>2, <1>4
  <2>2. Remaining' = Spurious'
    BY <2>1, <1>7
  <2>. QED  BY <1>8, <2>2 DEF Rounds, Announced, Turns, Ended
<1>9. CASE pc' = "scan"
  <2>1. H # {}
    BY <1>9, <1>2, <1>4
  <2>2. Reported(H)'
    BY <1>9, <1>3, <1>4, <1>7, <2>1 DEF Reported
  <2>. QED  BY <1>9, <2>2 DEF Rounds, Announced, Turns, Ended
<1>. QED  BY <1>2, <1>8, <1>9

\* What a handled client changes is seen by its own slot only.
LEMMA OthersReadable ==
  ASSUME TypeOK, Slotted, NEW G \in SUBSET Slots, Reported(G), pc \in {"read", "write"},
         \A s \in Slots \ {i} : slot'[s] = slot[s],
         \A d \in Conns \ {slot[i]} : cli'[d] = cli[d] /\ inbox'[d] = inbox[d]
  PROVE  \A s \in G \ {i} : Readable(slot[s])'
<1>1. ASSUME NEW s \in G, s # i PROVE Readable(slot[s])'
  <2>1. /\ s \in Slots /\ i \in Slots /\ slot[s] # None /\ Readable(slot[s])
        /\ slot \in [Slots -> Conns \cup {None}]
    BY <1>1 DEF TypeOK, Reported, Remaining
  <2>2. slot[s] \in Conns \ {slot[i]} /\ slot'[s] = slot[s]
    BY <1>1, <2>1 DEF Slotted
  <2>. QED  BY <2>1, <2>2 DEF Readable
<1>. QED  BY <1>1

\* The types that handling a client leaves to its action.
LEMMA HandledTypes ==
  ASSUME TypeOK, pc \in {"read", "write"}, Handled,
         slot' \in [Slots -> Conns \cup {None}], left' \in 0 .. InRoom,
         cli' \in [Conns -> {"idle", "open", "closed", "reset", "broken", "spent", "refused"}],
         outbox' \in [Conns -> 0 .. OutRoom], begun' \in BOOLEAN,
         UNCHANGED <<loop, maxi, ready, queue, unsent, inbox, got, errors>>
  PROVE  TypeOK'
<1>1. /\ nready' \in Int /\ i' \in 1 .. MaxSlots + 1 /\ pc' \in {"wait", "scan"}
  BY LoopAssumption DEF TypeOK, Handled, Slots
<1>. QED  BY <1>1 DEF TypeOK

\* A read leaves a buffer to write, or ends the client's turn.
LEMMA ReadStep ==
  ASSUME IInv, ReadData \/ ReadEof \/ ReadError
  PROVE  IInv'
<1>. USE LoopAssumption
<1>1. TypeOK /\ Clients /\ Slotted
  BY DEF IInv, Clients
<1>2. pc = "read" /\ pc \in {"read", "write"}
  BY DEF ReadData, ReadEof, ReadError
<1>3. PICK G \in SUBSET Slots : Reported(G)
  BY <1>2 DEF IInv, Rounds, Turns
<1>4. /\ i \in Slots /\ slot[i] \in Conns /\ slot \in [Slots -> Conns \cup {None}]
      /\ cli \in [Conns -> {"idle", "open", "closed", "reset", "broken", "spent", "refused"}]
      /\ inbox \in [Conns -> 0 .. InRoom] /\ outbox \in [Conns -> 0 .. OutRoom] /\ left \in 0 .. InRoom
  BY <1>1, <1>2 DEF TypeOK
<1>5. CASE ReadData
  <2>1. PICK n \in 1 .. inbox[slot[i]] : inbox' = [inbox EXCEPT ![slot[i]] = @ - n] /\ left' = n
    BY <1>5 DEF ReadData
  <2>2. /\ pc' = "write"
        /\ UNCHANGED <<slot, maxi, ready, nready, i, begun, queue, cli, unsent, outbox, got, errors, loop>>
    BY <1>5 DEF ReadData, table
  <2>3. TypeOK'
    <3>1. inbox[slot[i]] - n \in 0 .. InRoom /\ left' \in 0 .. InRoom
      BY <1>4, <2>1
    <3>2. inbox' \in [Conns -> 0 .. InRoom]
      BY <1>4, <2>1, <3>1
    <3>. QED  BY <1>1, <1>2, <2>2, <3>1, <3>2 DEF TypeOK
  <2>4. Clients'
    BY <1>1, <2>2 DEF Clients, Queued, Slotted, Placed
  <2>5. \A s \in G \ {i} : Readable(slot[s])'
    BY <1>1, <1>2, <1>3, <1>4, <2>1, <2>2, OthersReadable
  <2>6. Remaining' = Remaining /\ Spurious' = Spurious
    BY <2>2 DEF Remaining, Spurious, Poll
  <2>7. Reported(G)'
    BY <1>2, <1>3, <2>2, <2>5, <2>6 DEF Reported
  <2>8. Rounds'
    BY <2>2, <2>7 DEF Rounds, Announced, Turns, Ended
  <2>. QED  BY <2>3, <2>4, <2>8 DEF IInv
<1>6. CASE ReadEof \/ ReadError
  <2>1. Handled /\ UNCHANGED <<maxi, ready, left, begun, queue, unsent, inbox, outbox, got, errors, loop>>
    BY <1>6 DEF ReadEof, ReadError, data
  <2>2. \/ /\ cli[slot[i]] # "open" /\ slot' = [slot EXCEPT ![i] = None] /\ UNCHANGED cli
        \/ /\ cli' = [cli EXCEPT ![slot[i]] = "spent"] /\ UNCHANGED slot
    BY <1>6 DEF ReadEof, ReadError
  <2>3. TypeOK'
    <3>1. begun \in BOOLEAN /\ begun' = begun
      BY <1>1, <2>1 DEF TypeOK
    <3>. QED  BY <1>1, <1>2, <1>4, <2>1, <2>2, <3>1, HandledTypes
  <2>4. Clients'
    BY <1>1, <1>2, <2>1, <2>2, GoneClients
  <2>5. \A s \in Slots \ {i} : slot'[s] = slot[s]
    BY <1>4, <2>2
  <2>6. \A s \in G \ {i} : Readable(slot[s])'
    BY <1>1, <1>2, <1>3, <1>4, <2>1, <2>2, <2>5, OthersReadable
  <2>7. Rounds'
    BY <1>1, <1>2, <1>3, <2>1, <2>5, <2>6, HandledRound
  <2>. QED  BY <2>3, <2>4, <2>7 DEF IInv
<1>. QED  BY <1>5, <1>6

\* A write ends the turn with the last byte of the buffer.
LEMMA WriteStep ==
  ASSUME IInv, Write
  PROVE  IInv'
<1>. USE LoopAssumption
<1>1. TypeOK /\ Clients /\ Slotted
  BY DEF IInv, Clients
<1>2. pc = "write" /\ pc \in {"read", "write"}
  BY DEF Write
<1>3. PICK G \in SUBSET Slots : Reported(G)
  BY <1>2 DEF IInv, Rounds, Turns
<1>4. /\ i \in Slots /\ slot[i] \in Conns /\ slot \in [Slots -> Conns \cup {None}]
      /\ cli \in [Conns -> {"idle", "open", "closed", "reset", "broken", "spent", "refused"}]
      /\ outbox \in [Conns -> 0 .. OutRoom] /\ left \in 0 .. InRoom
  BY <1>1, <1>2 DEF TypeOK
<1>5. PICK n \in 1 .. Min({left, OutRoom - outbox[slot[i]]}) :
        /\ outbox' = [outbox EXCEPT ![slot[i]] = @ + n] /\ left' = left - n
        /\ IF left - n = 0 THEN Handled ELSE UNCHANGED <<nready, i, pc>>
  BY DEF Write, Unwritten
<1>12. begun' \in BOOLEAN
  BY DEF Write
<1>6. UNCHANGED <<slot, maxi, ready, queue, cli, unsent, inbox, got, errors, loop>>
  BY DEF Write, table
<1>7. left' \in 0 .. InRoom /\ outbox' \in [Conns -> 0 .. OutRoom]
  <2>1. left \in Nat /\ OutRoom - outbox[slot[i]] \in Nat /\ outbox[slot[i]] \in Nat
    BY <1>4
  <2>2. /\ Min({left, OutRoom - outbox[slot[i]]}) \in Nat /\ Min({left, OutRoom - outbox[slot[i]]}) <= left
        /\ Min({left, OutRoom - outbox[slot[i]]}) <= OutRoom - outbox[slot[i]]
    BY <2>1, MinMax
  <2>3. n \in Nat /\ n <= left /\ n <= OutRoom - outbox[slot[i]]
    BY <2>1, <2>2
  <2>4. left - n \in 0 .. InRoom /\ outbox[slot[i]] + n \in 0 .. OutRoom
    BY <1>4, <2>1, <2>3
  <2>. QED  BY <1>4, <1>5, <2>4
<1>8. Clients'
  BY <1>1, <1>6 DEF Clients, Queued, Slotted, Placed
<1>9. \A s \in G \ {i} : Readable(slot[s])'
  BY <1>1, <1>2, <1>3, <1>6, OthersReadable
<1>10. CASE Handled
  <2>1. TypeOK'
    BY <1>1, <1>2, <1>4, <1>6, <1>7, <1>10, <1>12, HandledTypes
  <2>2. Rounds'
    BY <1>1, <1>2, <1>3, <1>6, <1>9, <1>10, HandledRound
  <2>. QED  BY <2>1, <2>2, <1>8 DEF IInv
<1>11. CASE UNCHANGED <<nready, i, pc>>
  <2>1. TypeOK'
    BY <1>1, <1>6, <1>7, <1>11, <1>12 DEF TypeOK
  <2>2. Remaining' = Remaining /\ Spurious' = Spurious
    BY <1>6, <1>11 DEF Remaining, Spurious, Poll
  <2>3. Reported(G)'
    BY <1>2, <1>3, <1>6, <1>9, <1>11, <2>2 DEF Reported
  <2>4. Rounds'
    BY <1>2, <1>11, <2>3 DEF Rounds, Announced, Turns, Ended
  <2>. QED  BY <2>1, <2>4, <1>8 DEF IInv
<1>. QED  BY <1>5, <1>10, <1>11

\* A write to a client that has left ends its turn, or the server.
LEMMA WriteToGoneStep ==
  ASSUME IInv, WriteToGone
  PROVE  IInv'
<1>. USE LoopAssumption
<1>1. TypeOK /\ Clients /\ Slotted
  BY DEF IInv, Clients
<1>2. pc = "write" /\ pc \in {"read", "write"}
  BY DEF WriteToGone
<1>3. UNCHANGED <<slot, maxi, ready, queue, unsent, inbox, outbox, got, errors, loop>>
  BY DEF WriteToGone, table, data
<1>4. /\ i \in Slots /\ slot[i] \in Conns /\ slot \in [Slots -> Conns \cup {None}]
      /\ cli \in [Conns -> {"idle", "open", "closed", "reset", "broken", "spent", "refused"}]
      /\ outbox \in [Conns -> 0 .. OutRoom]
  BY <1>1, <1>2 DEF TypeOK
<1>7. begun' \in BOOLEAN
  BY DEF WriteToGone
<1>5. CASE left' = 0 /\ Handled
           /\ (cli' = cli \/ \E x \in {"closed", "broken", "spent"} : cli' = [cli EXCEPT ![slot[i]] = x])
  <2>1. PICK G \in SUBSET Slots : Reported(G)
    BY <1>2 DEF IInv, Rounds, Turns
  <2>2. cli' = cli \/ \E x \in {"closed", "broken", "spent"} : cli' = [cli EXCEPT ![slot[i]] = x]
    BY <1>5
  <2>3. TypeOK'
    <3>1. cli' \in [Conns -> {"idle", "open", "closed", "reset", "broken", "spent", "refused"}]
      BY <1>4, <2>2
    <3>. QED  BY <1>1, <1>2, <1>3, <1>4, <1>5, <1>7, <3>1, HandledTypes
  <2>4. Clients'
    BY <1>1, <1>2, <1>3, <2>2, GoneClients
  <2>5. \A s \in G \ {i} : Readable(slot[s])'
    <3>1. \A d \in Conns \ {slot[i]} : cli'[d] = cli[d]
      BY <1>4, <2>2
    <3>. QED  BY <1>1, <1>2, <1>3, <1>4, <2>1, <3>1, OthersReadable
  <2>6. Rounds'
    BY <1>1, <1>2, <1>3, <1>5, <2>1, <2>5, HandledRound
  <2>. QED  BY <2>3, <2>4, <2>6 DEF IInv
<1>6. CASE pc' = "dead" /\ UNCHANGED <<cli, left, nready, i>>
  <2>1. TypeOK'
    BY <1>1, <1>3, <1>6, <1>7 DEF TypeOK
  <2>2. Clients'
    BY <1>1, <1>3, <1>6 DEF Clients, Queued, Slotted, Placed
  <2>3. Rounds'
    BY <1>6 DEF Rounds, Announced, Turns, Ended
  <2>. QED  BY <2>1, <2>2, <2>3 DEF IInv
<1>. QED  BY <1>5, <1>6 DEF WriteToGone

-----------------------------------------------------------------------------
(* The theorems.                                                           *)

\* The empty table meets the invariant.
LEMMA Initially == Init => IInv
<1>. SUFFICES ASSUME Init PROVE IInv
  OBVIOUS
<1>. USE LoopAssumption
<1>1. queue = <<>> /\ queue \in Seq(Conns) /\ Len(queue) = 0
  BY EmptySeq DEF Init
<1>5. begun \in BOOLEAN
  BY DEF Init
<1>6. ready \subseteq 0 .. MaxSlots /\ loop \in Loops /\ i \in 1 .. MaxSlots + 1 /\ left \in 0 .. InRoom
  BY DEF Init
<1>2. TypeOK
  BY <1>1, <1>5, <1>6 DEF Init, TypeOK
<1>3. Clients
  BY <1>1 DEF Init, Clients, Queued, Slotted, Placed
<1>4. Rounds
  <2>1. Remaining = {}
    BY DEF Init, Remaining
  <2>. QED  BY <2>1 DEF Init, Rounds, Announced, Turns, Ended, Spurious
<1>. QED  BY <1>2, <1>3, <1>4 DEF IInv

\* No step of the loop or of a client breaks it.
LEMMA Inductive == IInv /\ [Next]_vars => IInv'
<1>. SUFFICES ASSUME IInv, [Next]_vars PROVE IInv'
  OBVIOUS
<1>1. CASE Server
  BY <1>1, WaitStep, AcceptStep, AcceptFailsStep, ScanStep, ReadStep, WriteStep, WriteToGoneStep DEF Server
<1>2. ASSUME NEW c \in Conns, Client(c) PROVE IInv'
  BY <1>2, ClientStep
<1>3. CASE UNCHANGED vars
  <2>1. UNCHANGED <<loop, pc, slot, maxi, ready, nready, i, left, begun, queue, cli, unsent, inbox, outbox, got, errors>>
    BY <1>3 DEF vars, table, round, data
  <2>2. TypeOK'
    BY <2>1 DEF IInv, TypeOK
  <2>3. Clients'
    BY <2>1 DEF IInv, Clients, Queued, Slotted, Placed
  <2>4. \A s \in Slots \cap ready : slot[s] # None /\ Readable(slot[s]) => Readable(slot[s])'
    BY <2>1 DEF Readable
  <2>5. Rounds'
    BY <2>1, <2>4, ClientRound DEF IInv, table, round
  <2>. QED  BY <2>2, <2>3, <2>5 DEF IInv
<1>. QED  BY <1>1, <1>2, <1>3 DEF Next

\* The table has each client once, in a slot of the scanned part, and every
\* connected client is in it or waits for accept().
LEMMA TableFollows == IInv => TableExact
<1>. SUFFICES ASSUME IInv, NEW c \in Conns
              PROVE  /\ Cardinality(InTable(c)) <= 1 /\ InTable(c) \subseteq 1 .. maxi
                     /\ cli[c] = "open" => (c \in Waiting <=> InTable(c) = {})
                     /\ cli[c] \in {"idle", "refused"} => InTable(c) = {}
  BY DEF TableExact
<1>1. TypeOK /\ Queued /\ Slotted /\ Placed
  BY DEF IInv, Clients
<1>2. c # None
  BY LoopAssumption
<1>3. Cardinality(InTable(c)) <= 1
  <2>1. CASE InTable(c) = {}
    BY <2>1, FS_EmptySet
  <2>2. CASE InTable(c) # {}
    <3>1. PICK s \in InTable(c) : TRUE
      BY <2>2
    <3>2. InTable(c) = {s}
      BY <3>1, <1>1, <1>2 DEF InTable, Slotted
    <3>. QED  BY <3>2, FS_Singleton
  <2>. QED  BY <2>1, <2>2
<1>4. InTable(c) \subseteq 1 .. maxi
  BY <1>1, <1>2 DEF InTable, Slotted, Slots, TypeOK
<1>5. DOMAIN queue = 1 .. Len(queue)
  BY <1>1, LenProperties DEF TypeOK
<1>6. cli[c] = "open" => (c \in Waiting <=> InTable(c) = {})
  BY <1>1, <1>5 DEF Queued, Placed, InTable, Waiting
<1>7. cli[c] \in {"idle", "refused"} => InTable(c) = {}
  BY <1>1, <1>2 DEF InTable, Slotted
<1>. QED  BY <1>3, <1>4, <1>6, <1>7

\* nready counts the turns that are left.
LEMMA RoundFollows == IInv => RoundExact
<1>. SUFFICES ASSUME IInv PROVE RoundExact
  OBVIOUS
<1>. USE LoopAssumption
<1>1. TypeOK /\ Rounds
  BY DEF IInv
<1>2. ASSUME pc \in {"scan", "read", "write"}
      PROVE  nready \in Cardinality(Remaining) - Cardinality(Spurious) .. Cardinality(Remaining)
  <2>1. PICK G \in SUBSET Slots : Reported(G)
    BY <1>1, <1>2 DEF Rounds, Turns
  <2>2. /\ G \subseteq Remaining /\ Remaining \subseteq G \cup Spurious /\ nready = Cardinality(G)
        /\ Spurious \subseteq Remaining
    BY <2>1 DEF Reported, Spurious
  <2>3. Remaining \in SUBSET Slots
    <3>1. i \in 1 .. MaxSlots + 1
      BY <1>1 DEF TypeOK
    <3>. QED  BY <3>1 DEF Remaining, Slots
  <2>4. /\ IsFiniteSet(Remaining) /\ IsFiniteSet(G) /\ IsFiniteSet(Spurious)
        /\ Cardinality(G) \in Nat /\ Cardinality(Remaining) \in Nat /\ Cardinality(Spurious) \in Nat
    BY <2>2, <2>3, FiniteSlots
  <2>5. Cardinality(G) <= Cardinality(Remaining)
    BY <2>2, <2>4, FS_Subset
  <2>6. /\ IsFiniteSet(G \cup Spurious) /\ Cardinality(G \cup Spurious) \in Nat
        /\ Cardinality(Remaining) <= Cardinality(G \cup Spurious)
    BY <2>2, <2>4, FS_Union, FS_Subset, FS_CardinalityType
  <2>7. Cardinality(G \cup Spurious) <= Cardinality(G) + Cardinality(Spurious)
    <3>1. Cardinality(G \cap Spurious) \in Nat
      BY <2>4, FS_Intersection, FS_CardinalityType
    <3>2. Cardinality(G \cup Spurious) = Cardinality(G) + Cardinality(Spurious) - Cardinality(G \cap Spurious)
      BY <2>4, FS_Union
    <3>. QED  BY <3>1, <3>2, <2>4
  <2>. QED  BY <2>2, <2>4, <2>5, <2>6, <2>7
<1>3. ASSUME pc = "read" PROVE Readable(slot[i])
  BY <1>1, <1>3 DEF Rounds, Turns, Reported
<1>. QED  BY <1>1, <1>2, <1>3 DEF RoundExact, Rounds, Ended

\* Every variable keeps its type: the scan never leaves the table.
THEOREM TypeCorrect == Spec => []TypeOK
<1>1. Init => IInv
  BY Initially
<1>2. IInv /\ [Next]_vars => IInv'
  BY Inductive
<1>3. IInv => TypeOK
  BY DEF IInv
<1>. QED  BY <1>1, <1>2, <1>3, PTL DEF Spec

\* Whatever is accepted, refused or leaves in a round of the select() and the
\* poll() loop, the table has every client once and no ready client's turn is
\* lost.
THEOREM BookkeepingExact == Spec => []Bookkeeping
<1>1. Init => IInv
  BY Initially
<1>2. IInv /\ [Next]_vars => IInv'
  BY Inductive
<1>3. IInv => Bookkeeping
  BY TableFollows, RoundFollows DEF Bookkeeping
<1>. QED  BY <1>1, <1>2, <1>3, PTL DEF Spec

-----------------------------------------------------------------------------
(* The bytes of a client that stays.                                       *)

\* The bytes of c that the loop has read and not written back yet.
Held(c)  == IF pc = "write" /\ slot[i] = c THEN left ELSE 0
Total(c) == unsent[c] + inbox[c] + outbox[c] + got[c] + Held(c)
Stays(c) == cli[c] \in {"idle", "open"}

\* Only ReadData and Write move bytes in the server; the rest of its actions
\* neither do nor hold any for a client that stays.
LEMMA ServerTotal ==
  ASSUME IInv, Server, NEW c \in Conns, Stays(c)'
  PROVE  Stays(c) /\ Total(c)' = Total(c)
<1>1. TypeOK
  BY DEF IInv
<1>2. /\ slot \in [Slots -> Conns \cup {None}] /\ queue \in Seq(Conns) /\ left \in 0 .. InRoom
      /\ cli \in [Conns -> {"idle", "open", "closed", "reset", "broken", "spent", "refused"}]
      /\ unsent[c] \in Nat /\ inbox[c] \in 0 .. InRoom /\ outbox[c] \in 0 .. OutRoom /\ got[c] \in Nat
      /\ inbox \in [Conns -> 0 .. InRoom] /\ outbox \in [Conns -> 0 .. OutRoom]
      /\ {InRoom, OutRoom} \subseteq Nat \ {0}
  <2>1. {InRoom, OutRoom} \subseteq Nat \ {0}
    BY LoopAssumption
  <2>2. /\ slot \in [Slots -> Conns \cup {None}] /\ queue \in Seq(Conns) /\ left \in 0 .. InRoom
        /\ cli \in [Conns -> {"idle", "open", "closed", "reset", "broken", "spent", "refused"}]
    BY <1>1 DEF TypeOK
  <2>3. /\ unsent \in [Conns -> Nat] /\ got \in [Conns -> Nat]
        /\ inbox \in [Conns -> 0 .. InRoom] /\ outbox \in [Conns -> 0 .. OutRoom]
    BY <1>1 DEF TypeOK
  <2>. QED  BY <2>1, <2>2, <2>3
<1>3. pc \in {"read", "write"} => i \in Slots /\ slot[i] \in Conns
  BY <1>1, <1>2 DEF TypeOK
<1>4. CASE pc # "write" /\ pc' # "write" /\ UNCHANGED data /\ (Stays(c)' => Stays(c))
  BY <1>4 DEF Total, Held, data
<1>5. CASE Wait \/ AcceptFails \/ Scan
  BY <1>4, <1>5 DEF Wait, AcceptFails, Scan, Stays
<1>6. CASE Accept
  <2>1. cli' = cli \/ cli' = [cli EXCEPT ![Head(queue)] = "refused"]
    BY <1>6 DEF Accept
  <2>2. Stays(c)' => Stays(c)
    BY <2>1, <1>2 DEF Stays
  <2>. QED  BY <2>2, <1>4, <1>6 DEF Accept
<1>7. CASE ReadEof \/ ReadError
  <2>1. cli' = cli \/ cli' = [cli EXCEPT ![slot[i]] = "spent"]
    BY <1>7 DEF ReadEof, ReadError
  <2>2. Stays(c)' => Stays(c)
    BY <2>1, <1>2 DEF Stays
  <2>3. pc = "read" /\ Handled /\ UNCHANGED data
    BY <1>7 DEF ReadEof, ReadError
  <2>. QED  BY <2>2, <2>3, <1>4 DEF Handled
<1>8. CASE ReadData
  <2>1. PICK n \in 1 .. inbox[slot[i]] : inbox' = [inbox EXCEPT ![slot[i]] = @ - n] /\ left' = n
    BY <1>8 DEF ReadData
  <2>2. /\ pc = "read" /\ pc' = "write" /\ UNCHANGED <<slot, i, cli, unsent, outbox, got>>
    BY <1>8 DEF ReadData, table
  <2>3. Stays(c)
    BY <2>2 DEF Stays
  <2>4. CASE slot[i] = c
    <3>1. n \in Int /\ inbox'[c] = inbox[c] - n
      BY <1>2, <2>1, <2>4
    <3>2. Held(c) = 0 /\ Held(c)' = n
      BY <2>1, <2>2, <2>4 DEF Held
    <3>. QED  BY <1>2, <2>2, <2>3, <3>1, <3>2 DEF Total
  <2>5. CASE slot[i] # c
    <3>1. inbox'[c] = inbox[c] /\ Held(c) = 0 /\ Held(c)' = 0
      BY <1>2, <2>1, <2>2, <2>5 DEF Held
    <3>. QED  BY <2>2, <2>3, <3>1 DEF Total
  <2>. QED  BY <2>4, <2>5
<1>9. CASE Write
  <2>1. PICK n \in 1 .. Min({left, OutRoom - outbox[slot[i]]}) :
          /\ outbox' = [outbox EXCEPT ![slot[i]] = @ + n] /\ left' = left - n
          /\ IF left - n = 0 THEN Handled ELSE UNCHANGED <<nready, i, pc>>
    BY <1>9 DEF Write, Unwritten
  <2>2. pc = "write" /\ UNCHANGED <<slot, cli, unsent, inbox, got>>
    BY <1>9 DEF Write, table
  <2>3. Stays(c)
    BY <2>2 DEF Stays
  <2>4. n \in Int /\ IF left - n = 0 THEN pc' # "write" ELSE pc' = "write" /\ i' = i
    BY <2>1, <2>2 DEF Handled
  <2>5. CASE slot[i] = c
    <3>1. outbox'[c] = outbox[c] + n
      BY <1>2, <2>1, <2>5
    <3>2. Held(c) = left /\ Held(c)' = left - n
      BY <2>1, <2>2, <2>4, <2>5 DEF Held
    <3>3. /\ unsent[c] \in Int /\ inbox[c] \in Int /\ outbox[c] \in Int /\ got[c] \in Int
          /\ left \in Int /\ n \in Int
      BY <1>2, <2>4
    <3>4. unsent'[c] = unsent[c] /\ inbox'[c] = inbox[c] /\ got'[c] = got[c]
      BY <2>2
    <3>. QED  BY <2>3, <3>1, <3>2, <3>3, <3>4 DEF Total
  <2>6. CASE slot[i] # c
    <3>1. outbox'[c] = outbox[c] /\ Held(c) = 0 /\ Held(c)' = 0
      BY <1>2, <2>1, <2>2, <2>4, <2>6 DEF Held
    <3>. QED  BY <2>2, <2>3, <3>1 DEF Total
  <2>. QED  BY <2>5, <2>6
<1>10. CASE WriteToGone
  <2>1. /\ pc' # "write" /\ UNCHANGED data
        /\ cli[slot[i]] \in {"closed", "reset", "broken", "spent"}
        /\ cli' = cli \/ \E x \in {"closed", "broken", "spent"} : cli' = [cli EXCEPT ![slot[i]] = x]
    BY <1>10 DEF WriteToGone, Handled
  <2>2. Stays(c) /\ slot[i] # c
    BY <1>2, <2>1 DEF Stays
  <2>. QED  BY <2>1, <2>2 DEF Total, Held, data
<1>. QED  BY <1>5, <1>6, <1>7, <1>8, <1>9, <1>10 DEF Server

\* A client's own steps move its bytes on, or are its leaving.
LEMMA ClientTotal ==
  ASSUME IInv, NEW d \in Conns, Client(d), NEW c \in Conns, Stays(c)'
  PROVE  Stays(c) /\ Total(c)' = Total(c)
<1>1. TypeOK
  BY DEF IInv
<1>2. /\ unsent \in [Conns -> Nat] /\ got \in [Conns -> Nat]
      /\ inbox \in [Conns -> 0 .. InRoom] /\ outbox \in [Conns -> 0 .. OutRoom]
      /\ cli \in [Conns -> {"idle", "open", "closed", "reset", "broken", "spent", "refused"}]
      /\ left \in 0 .. InRoom /\ {InRoom, OutRoom} \subseteq Nat
  BY <1>1, LoopAssumption DEF TypeOK
<1>3. Held(c)' = Held(c) /\ Held(c) \in Int
  BY <1>2 DEF Client, Connect, Send, Recv, Leave, Held, table, round
<1>4. CASE Connect(d) \/ Leave(d)
  <2>1. \E x \in {"open", "closed", "reset"} :
          /\ cli' = [cli EXCEPT ![d] = x] /\ UNCHANGED data
          /\ x = "open" => cli[d] = "idle"
    BY <1>4 DEF Connect, Leave
  <2>2. Stays(c)
    BY <1>2, <2>1 DEF Stays
  <2>3. UNCHANGED <<unsent, inbox, outbox, got>>
    BY <2>1 DEF data
  <2>. QED  BY <1>3, <2>2, <2>3 DEF Total
<1>5. CASE Send(d)
  <2>1. /\ unsent' = [unsent EXCEPT ![d] = @ - 1] /\ inbox' = [inbox EXCEPT ![d] = @ + 1]
        /\ UNCHANGED <<cli, outbox, got>>
    BY <1>5 DEF Send
  <2>2. Stays(c)
    BY <2>1 DEF Stays
  <2>3. unsent'[c] + inbox'[c] = unsent[c] + inbox[c]
    BY <1>2, <2>1
  <2>4. /\ unsent[c] \in Int /\ inbox[c] \in Int /\ outbox[c] \in Int /\ got[c] \in Int
        /\ unsent'[c] \in Int /\ inbox'[c] \in Int
    BY <1>2, <2>1
  <2>. QED  BY <1>3, <2>1, <2>2, <2>3, <2>4 DEF Total
<1>6. CASE Recv(d)
  <2>1. /\ got' = [got EXCEPT ![d] = @ + outbox[d]] /\ outbox' = [outbox EXCEPT ![d] = 0]
        /\ UNCHANGED <<cli, unsent, inbox>>
    BY <1>6 DEF Recv
  <2>2. Stays(c)
    BY <2>1 DEF Stays
  <2>3. outbox'[c] + got'[c] = outbox[c] + got[c]
    BY <1>2, <2>1
  <2>4. /\ unsent[c] \in Int /\ inbox[c] \in Int /\ outbox[c] \in Int /\ got[c] \in Int
        /\ outbox'[c] \in Int /\ got'[c] \in Int
    BY <1>2, <2>1
  <2>. QED  BY <1>3, <2>1, <2>2, <2>3, <2>4 DEF Total
<1>. QED  BY <1>4, <1>5, <1>6 DEF Client

\* No step changes how many bytes there are of a client that stays.
LEMMA EchoStep == IInv /\ EchoExact /\ [Next]_vars => EchoExact'
<1>. SUFFICES ASSUME IInv, EchoExact, [Next]_vars, NEW c \in Conns, Stays(c)'
              PROVE  Total(c)' = MaxSend[c]
  BY DEF EchoExact, Total, Held, Stays
<1>1. Stays(c) /\ Total(c)' = Total(c)
  <2>1. CASE Server
    BY <2>1, ServerTotal
  <2>2. CASE \E d \in Conns : Client(d)
    BY <2>2, ClientTotal
  <2>3. CASE UNCHANGED vars
    BY <2>3 DEF vars, table, round, data, Stays, Total, Held
  <2>. QED  BY <2>1, <2>2, <2>3 DEF Next
<1>2. Total(c) = MaxSend[c]
  BY <1>1 DEF EchoExact, Total, Held, Stays
<1>. QED  BY <1>1, <1>2

\* Whatever the splits of its reads and writes, and whatever other clients do,
\* no byte of a client that stays is dropped, doubled or sent to another.
THEOREM BytesExact == Spec => []EchoExact
<1>1. Init => IInv
  BY Initially
<1>2. IInv /\ [Next]_vars => IInv'
  BY Inductive
<1>3. Init => EchoExact
  <2>1. SUFFICES ASSUME Init, NEW c \in Conns PROVE Total(c) = MaxSend[c]
    BY DEF EchoExact, Total, Held
  <2>2. MaxSend[c] \in Nat
    BY LoopAssumption
  <2>. QED  BY <2>1, <2>2 DEF Init, Total, Held
<1>. QED  BY <1>1, <1>2, <1>3, EchoStep, PTL DEF Spec
=============================================================================
