------------------------------ MODULE EventLoop ------------------------------
(***************************************************************************)
(* ch6/server_select.c and ch6/server_poll.c: one thread echoes for all    *)
(* clients. A round is select() or poll(), at most one accept(), and a scan*)
(* of the client table that handles the ready clients until nready of them *)
(* have been. Every read() and write() may block, and with it the loop.    *)
(*                                                                         *)
(* A slot stands for its descriptor: none is closed and accepted again in  *)
(* one round, so a bit of rset is as good as its slot. Bytes are counted.  *)
(*                                                                         *)
(* FullLate, TopOnce, CountFull, ScanShort and ShortWrite are              *)
(* wrong variants of the operator that follows them, kept to see that the  *)
(* properties notice them.                                                 *)
(***************************************************************************)
EXTENDS Integers, Sequences, FiniteSetsExt

CONSTANTS
  Conns,     \* the clients
  None,      \* no client: the table's -1
  MaxSlots,  \* FD_SETSIZE; FOPEN_MAX - 1
  Loops,     \* the programs: "select", "poll" or both
  MaxSend,   \* how many bytes each client sends
  InRoom, OutRoom,   \* bytes the kernel buffers for the server and for a client
  MaxErrors  \* bound: how many accept() calls fail

ASSUME LoopAssumption ==
  /\ None \notin Conns /\ Loops \subseteq {"select", "poll"}
  /\ MaxSlots \in Nat \ {0} /\ InRoom \in Nat \ {0} /\ OutRoom \in Nat \ {0}
  /\ MaxSend \in [Conns -> Nat] /\ MaxErrors \in Nat

VARIABLES
  loop,    \* which program it is
  pc,      \* "wait", "accept", "scan", "read", "write" or "dead"
  slot,    \* client[]
  maxi,    \* client_size, maxi: the highest slot ever used
  ready,   \* rset, revents: the slots reported ready; 0 is the listening socket
  nready,
  i,       \* the next slot to look at
  left,    \* bytes of buf still to write to client[i]
  begun,   \* whether the current write() has written some
  queue,   \* completed connections that wait for accept()
  cli,     \* the clients; "reset" and "broken" are a pending ECONNRESET, EPIPE,
           \* "spent" a reset connection whose error has been returned
  unsent, inbox, outbox, got,  \* each client's bytes, on their way round
  errors

Slots == 1 .. MaxSlots
round == <<ready, nready, i, left, begun>>
table == <<slot, maxi>>
data  == <<unsent, inbox, outbox, got>>
vars  == <<loop, pc, table, round, queue, cli, data, errors>>

Poll == loop = "poll"

Init ==
  /\ loop \in Loops
  /\ pc = "wait" /\ slot = [s \in Slots |-> None] /\ maxi = 0
  /\ ready = {} /\ nready = 0 /\ i = 1 /\ left = 0 /\ begun = FALSE
  /\ queue = <<>> /\ cli = [c \in Conns |-> "idle"] /\ errors = 0
  /\ unsent = MaxSend /\ inbox = [c \in Conns |-> 0]
  /\ outbox = [c \in Conns |-> 0] /\ got = [c \in Conns |-> 0]
-----------------------------------------------------------------------------
(* The clients.                                                            *)

Connect(c) ==
  /\ cli[c] = "idle"
  /\ cli' = [cli EXCEPT ![c] = "open"] /\ queue' = Append(queue, c)
  /\ UNCHANGED <<pc, table, round, data, errors, loop>>

Send(c) ==
  /\ cli[c] = "open" /\ unsent[c] > 0 /\ inbox[c] < InRoom
  /\ unsent' = [unsent EXCEPT ![c] = @ - 1] /\ inbox' = [inbox EXCEPT ![c] = @ + 1]
  /\ UNCHANGED <<pc, table, round, queue, cli, outbox, got, errors, loop>>

Recv(c) ==
  /\ cli[c] = "open" /\ outbox[c] > 0
  /\ got' = [got EXCEPT ![c] = @ + outbox[c]] /\ outbox' = [outbox EXCEPT ![c] = 0]
  /\ UNCHANGED <<pc, table, round, queue, cli, unsent, inbox, errors, loop>>

\* A client that closes with bytes it has not read resets.
Leave(c) ==
  /\ cli[c] = "open"
  /\ \E how \in {"closed", "reset"} :
       /\ outbox[c] > 0 => how = "reset"
       /\ cli' = [cli EXCEPT ![c] = how]
  /\ UNCHANGED <<pc, table, round, queue, data, errors, loop>>
-----------------------------------------------------------------------------
(* The loop.                                                               *)

Readable(c) == inbox[c] > 0 \/ cli[c] \in {"closed", "reset", "broken", "spent"}
ReadySlots ==
  {s \in 1 .. maxi : slot[s] # None /\ Readable(slot[s])} \cup (IF queue = <<>> THEN {} ELSE {0})

Wait ==
  /\ pc = "wait" /\ ReadySlots # {}
  /\ ready' = ReadySlots /\ nready' = Cardinality(ReadySlots) /\ i' = 1
  /\ pc' = IF 0 \in ReadySlots THEN "accept" ELSE "scan"
  /\ UNCHANGED <<table, left, begun, queue, cli, data, errors, loop>>

\* The first free slot, or one past the table.
Free == Min({s \in Slots : slot[s] = None} \cup {MaxSlots + 1})
FullLate == Free > MaxSlots + 1
Full     == Free = MaxSlots + 1

TopOnce == IF maxi = 0 THEN Free ELSE maxi
Top     == Max({maxi, Free})

\* What is reported of a client accepted in this round: its bit is clear in
\* rset; in poll()'s array a slot above maxi was never initialised.
NewReady == IF Poll /\ Free > maxi THEN {ready, ready \cup {Free}} ELSE {ready}

\* --nready, and whether the round goes on.
CountFull == IF Full THEN nready ELSE nready - 1
Counted   == nready - 1

Accept ==
  /\ pc = "accept"
  /\ queue' = Tail(queue)
  /\ \/ /\ Full
        /\ cli' = [cli EXCEPT ![Head(queue)] = "refused"]
        /\ UNCHANGED <<table, ready>>
     \/ /\ ~Full
        /\ slot' = [slot EXCEPT ![Free] = Head(queue)]
        /\ ready' \in NewReady
        /\ maxi' = Top
        /\ UNCHANGED cli
  /\ nready' = Counted
  /\ pc' = IF Counted <= 0 THEN "wait" ELSE "scan"
  /\ UNCHANGED <<i, left, begun, data, errors, loop>>

\* accept()'s -1 goes into a slot, which stays free. FD_SET(-1) sets a bit no
\* select() of fewer than 63 descriptors looks at, or aborts a fortified build.
AcceptFails ==
  /\ pc = "accept" /\ errors < MaxErrors
  /\ errors' = errors + 1
  /\ maxi' = IF Full THEN maxi ELSE Top
  /\ ready' \in IF Full THEN {ready} ELSE NewReady
  /\ nready' = Counted
  /\ \/ pc' = IF Counted <= 0 THEN "wait" ELSE "scan"
     \/ ~Poll /\ ~Full /\ pc' = "dead"
  /\ UNCHANGED <<slot, i, left, begun, queue, cli, data, loop>>

ScanShort == i .. maxi - 1
ScanRange == i .. maxi

Scan ==
  /\ pc = "scan"
  /\ LET hits == {s \in ScanRange : slot[s] # None /\ s \in ready}
     IN  IF hits = {} THEN pc' = "wait" /\ i' = maxi + 1
                      ELSE pc' = "read" /\ i' = Min(hits)
  /\ UNCHANGED <<table, ready, nready, left, begun, queue, cli, data, errors, loop>>

\* The client in slot i is done with for this round.
Handled ==
  /\ nready' = nready - 1 /\ i' = i + 1
  /\ pc' = IF nready - 1 <= 0 THEN "wait" ELSE "scan"

ReadData ==
  /\ pc = "read" /\ inbox[slot[i]] > 0
  /\ \E n \in 1 .. inbox[slot[i]] :
       inbox' = [inbox EXCEPT ![slot[i]] = @ - n] /\ left' = n
  /\ pc' = "write"
  /\ UNCHANGED <<table, ready, nready, i, begun, queue, cli, unsent, outbox, got, errors, loop>>

ReadEof ==
  /\ pc = "read" /\ inbox[slot[i]] = 0 /\ cli[slot[i]] \in {"closed", "spent"}
  /\ slot' = [slot EXCEPT ![i] = None]
  /\ Handled
  /\ UNCHANGED <<maxi, ready, left, begun, queue, cli, data, errors, loop>>

\* An error is reported once, and the end of input after it. server_poll.c
\* closes on ECONNRESET; server_select.c writes -1 bytes, to no effect.
ReadError ==
  /\ pc = "read" /\ inbox[slot[i]] = 0 /\ cli[slot[i]] \in {"reset", "broken"}
  /\ IF Poll /\ cli[slot[i]] = "reset"
     THEN slot' = [slot EXCEPT ![i] = None] /\ UNCHANGED cli
     ELSE cli' = [cli EXCEPT ![slot[i]] = "spent"] /\ UNCHANGED slot
  /\ Handled
  /\ UNCHANGED <<maxi, ready, left, begun, queue, data, errors, loop>>

\* What write() leaves to be written; it returns when nothing is.
ShortWrite(n) == 0
Unwritten(n)  == left - n

Write ==
  /\ pc = "write" /\ cli[slot[i]] = "open"
  /\ \E n \in 1 .. Min({left, OutRoom - outbox[slot[i]]}) :
       /\ outbox' = [outbox EXCEPT ![slot[i]] = @ + n]
       /\ left' = Unwritten(n)
       /\ begun' = (Unwritten(n) > 0)
       /\ IF Unwritten(n) = 0 THEN Handled ELSE UNCHANGED <<nready, i, pc>>
  /\ UNCHANGED <<table, ready, queue, cli, unsent, inbox, got, errors, loop>>

\* write() to a client that is gone; the loop ignores what it returns. To one
\* that has closed the bytes go nowhere, and may draw a reset. On a reset
\* connection a write() that has written some returns, the first one after the
\* reset fails with ECONNRESET, and one that finds EPIPE, pending or because
\* the error was returned before, raises SIGPIPE, which ends the server.
WriteToGone ==
  /\ pc = "write"
  /\ \/ /\ cli[slot[i]] = "closed"
        /\ \E after \in {"closed", "broken"} : cli' = [cli EXCEPT ![slot[i]] = after]
        /\ left' = 0 /\ Handled
     \/ /\ begun /\ cli[slot[i]] \in {"reset", "broken"}
        /\ left' = 0 /\ Handled
        /\ UNCHANGED cli
     \/ /\ ~begun /\ cli[slot[i]] = "reset"
        /\ cli' = [cli EXCEPT ![slot[i]] = "spent"]
        /\ left' = 0 /\ Handled
     \/ /\ ~begun /\ cli[slot[i]] \in {"broken", "spent"}
        /\ pc' = "dead"
        /\ UNCHANGED <<cli, left, nready, i>>
  /\ begun' = FALSE
  /\ UNCHANGED <<table, ready, queue, data, errors, loop>>
-----------------------------------------------------------------------------
Server ==
  \/ Wait \/ Accept \/ AcceptFails \/ Scan
  \/ ReadData \/ ReadEof \/ ReadError \/ Write \/ WriteToGone
Client(c) == Connect(c) \/ Send(c) \/ Recv(c) \/ Leave(c)

Next == Server \/ \E c \in Conns : Client(c)
Spec == Init /\ [][Next]_vars

\* The server runs and clients take their echoes; none has to speak or leave.
FairSpec == Spec /\ WF_vars(Server) /\ \A c \in Conns : WF_vars(Recv(c))
-----------------------------------------------------------------------------
\* Every variable has its type; the scan stays inside the table.
TypeOK ==
  /\ loop \in Loops
  /\ pc \in {"wait", "accept", "scan", "read", "write", "dead"}
  /\ slot \in [Slots -> Conns \cup {None}] /\ maxi \in 0 .. MaxSlots
  /\ ready \subseteq 0 .. MaxSlots /\ nready \in Int /\ i \in 1 .. MaxSlots + 1
  /\ left \in 0 .. InRoom /\ queue \in Seq(Conns) /\ errors \in 0 .. MaxErrors
  /\ begun \in BOOLEAN
  /\ cli \in [Conns -> {"idle", "open", "closed", "reset", "broken", "spent", "refused"}]
  /\ unsent \in [Conns -> Nat] /\ got \in [Conns -> Nat]
  /\ inbox \in [Conns -> 0 .. InRoom] /\ outbox \in [Conns -> 0 .. OutRoom]
  /\ pc \in {"read", "write"} => i \in Slots /\ slot[i] # None
  /\ pc = "accept" => queue # <<>>

\* A connection that was accepted and not closed is in one slot, below the end
\* of the scan; none waits for accept() and is in the table.
InTable(c) == {s \in Slots : slot[s] = c}
Waiting    == {queue[k] : k \in DOMAIN queue}
TableExact ==
  \A c \in Conns :
    /\ Cardinality(InTable(c)) <= 1 /\ InTable(c) \subseteq 1 .. maxi
    /\ cli[c] = "open" => (c \in Waiting <=> InTable(c) = {})
    /\ cli[c] \in {"idle", "refused"} => InTable(c) = {}

\* nready is the number of ready clients still to be handled, so the round ends
\* with the last of them and not before: no client's turn is lost. With poll()
\* the slot filled in this round, the last, may pass for ready besides: its
\* revents was never set. No read() blocks for it, or for anyone: nready runs out
\* before the scan gets there.
Remaining == {s \in i .. MaxSlots : slot[s] # None /\ s \in ready}
Spurious  == IF Poll THEN {maxi} \cap Remaining ELSE {}
RoundExact ==
  /\ pc \in {"scan", "read", "write"} =>
       nready \in Cardinality(Remaining) - Cardinality(Spurious) .. Cardinality(Remaining)
  /\ pc = "wait" => Remaining = Spurious
  /\ pc = "read" => Readable(slot[i])

\* The bookkeeping of a round, whatever is accepted, refused, or leaves in it.
Bookkeeping == TableExact /\ RoundExact

\* While a client stays, its bytes are in one place each: nothing is echoed
\* twice, dropped, or sent to another client, whatever the split.
EchoExact ==
  \A c \in Conns : cli[c] \in {"idle", "open"} =>
    unsent[c] + inbox[c] + outbox[c] + got[c]
      + (IF pc = "write" /\ slot[i] = c THEN left ELSE 0) = MaxSend[c]

\* What a client has sent is read, unless it leaves or the server has died: no
\* client's silence, and no write() to a client that reads, stops the others.
Served ==
  \A c \in Conns : cli[c] = "open" /\ inbox[c] > 0 ~>
    inbox[c] = 0 \/ cli[c] # "open" \/ pc = "dead"
=============================================================================
