----------------------------- MODULE MarketFeed ------------------------------
(***************************************************************************)
(* ch21: exchanges that publish numbered price updates to a multicast      *)
(* group, and subscribers on one host that print what they receive, each   *)
(* over IPv4 (exchange_publisher.c, hft_subscriber.c) or IPv6 (_v6.c).     *)
(*                                                                         *)
(* The network loses, repeats and reorders. A datagram that reaches the    *)
(* host is given a number and put into every socket that hears its group   *)
(* and has room; others than the exchanges may send to the group, too.     *)
(* Prices and symbols are left out: pub, run and seq tell updates apart.   *)
(*                                                                         *)
(* Unsigned and AnyType are wrong variants of Short and IsUpdate.          *)
(***************************************************************************)
EXTENDS Integers, Sequences, FiniteSets, Bags
INSTANCE BagsExt

CONSTANTS
  Pubs, Subs,
  Family,      \* of each of them, "v4" or "v6"
  Nobody,      \* who sends what is not from an exchange
  Others,      \* the <<group, type, size>> of what others may send
  SockRoom,    \* datagrams a socket's buffer holds
  Ahead,       \* by how much the exchange's clock may be ahead of the subscriber's
  Word,        \* 2^64
  MaxSeq, MaxRuns, MaxEffort, MaxNow   \* bounds

\* Sizes of datagrams; 0 is less than a header.
Header == 1
Update == 2

Groups == {"v4", "v6"}
Numbers == {MaxSeq, MaxRuns, MaxEffort, MaxNow}

ASSUME FeedAssumption ==
  /\ Family \in [Pubs \cup Subs -> Groups] /\ Nobody \notin Pubs
  /\ Others \subseteq Groups \X {"P", "T"} \X {0, Header, Update}
  /\ \A o \in Others : ~(o[2] = "P" /\ o[3] = Update)
  /\ SockRoom \in Nat \ {0} /\ Ahead \subseteq Nat /\ Numbers \subseteq Nat
  /\ Word \in Nat /\ \A a \in Ahead : Word > 2 * (MaxNow + a)

VARIABLES
  seq, run,     \* seq_num of each exchange, 0 while it is not running; its starts
  air,          \* the bag of datagrams on their way
  ahead, clock, \* the exchange's lead; the subscribers' clock
  arrived,      \* how many datagrams the host has taken
  spot,         \* where each subscriber is: "out", "join" or "recv"
  sock,         \* what waits in its socket
  packet,       \* its buffer
  lines,        \* what this process has printed
  heard,        \* the updates that were put into its socket
  other, copied, fails

exchange   == <<seq, run>>
subscriber == <<spot, sock, packet, lines, heard>>
effort     == <<other, copied, fails>>
feed       == <<exchange, air, ahead, clock, arrived, subscriber, effort>>

\* MaxEffort bounds the other datagrams, the copies and the failures together.
Bounded == other + copied + fails < MaxEffort

Datagram(g, type, size, p, r, k, t) ==
  [group |-> g, type |-> type, size |-> size, pub |-> p, run |-> r, seq |-> k, time |-> t]
Uninitialised == [n |-> 0, m |-> Datagram("v4", "?", 0, Nobody, 0, 0, 0)]

FeedInit ==
  /\ seq = [p \in Pubs |-> 0] /\ run = [p \in Pubs |-> 0]
  /\ air = EmptyBag /\ ahead \in Ahead /\ clock = 0 /\ arrived = 0
  /\ spot = [s \in Subs |-> "out"] /\ sock = [s \in Subs |-> <<>>]
  /\ packet = [s \in Subs |-> Uninitialised]
  /\ lines = [s \in Subs |-> <<>>] /\ heard = [s \in Subs |-> {}]
  /\ other = 0 /\ copied = 0 /\ fails = 0
-----------------------------------------------------------------------------
(* The exchanges.                                                          *)

\* uint64_t seq_num = 1, whatever has been published before.
StartExchange(p) ==
  /\ seq[p] = 0 /\ run[p] < MaxRuns
  /\ seq' = [seq EXCEPT ![p] = 1] /\ run' = [run EXCEPT ![p] = @ + 1]
  /\ UNCHANGED <<air, ahead, clock, arrived, subscriber, effort>>

NextSeq(p) == seq[p] + 1

\* One round of the loop. sendto() may fail, unnoticed: the number is used up.
Publish(p) ==
  /\ 0 < seq[p] /\ seq[p] <= MaxSeq
  /\ air' \in {air, BagAdd(air, Datagram(Family[p], "P", Update, p, run[p], seq[p], clock + ahead))}
  /\ seq' = [seq EXCEPT ![p] = NextSeq(p)]
  /\ UNCHANGED <<run, ahead, clock, arrived, subscriber, effort>>

StopExchange(p) ==
  /\ seq[p] > 0 /\ seq' = [seq EXCEPT ![p] = 0]
  /\ UNCHANGED <<run, air, ahead, clock, arrived, subscriber, effort>>
-----------------------------------------------------------------------------
(* The network and the subscribers' host.                                  *)

\* A trade, a header alone, or less: not a whole update.
SendOther ==
  /\ Bounded /\ other' = other + 1
  /\ \E o \in Others : air' = BagAdd(air, Datagram(o[1], o[2], o[3], Nobody, 0, 0, 0))
  /\ UNCHANGED <<exchange, ahead, clock, arrived, subscriber, copied, fails>>

CopyOne ==
  /\ Bounded /\ copied' = copied + 1
  /\ \E m \in BagToSet(air) : air' = BagAdd(air, m)
  /\ UNCHANGED <<exchange, ahead, clock, arrived, subscriber, other, fails>>

\* Bound to the wildcard address, a socket hears every group that anyone on the
\* host has joined, and one of IPv6 those of IPv4 as well.
Joined(g)   == \E s \in Subs : spot[s] = "recv" /\ Family[s] = g
Hears(s, g) == spot[s] # "out" /\ Joined(g) /\ Family[s] \in {g, "v6"}

Arrive ==
  /\ \E m \in BagToSet(air) :
       LET takers == {s \in Subs : Hears(s, m.group) /\ Len(sock[s]) < SockRoom} IN
       /\ takers # {}
       /\ air' = BagRemove(air, m)
       /\ sock' = [s \in Subs |->
            IF s \in takers THEN Append(sock[s], [n |-> arrived + 1, m |-> m]) ELSE sock[s]]
       /\ heard' = [s \in Subs |->
            IF s \in takers /\ m.pub # Nobody THEN heard[s] \cup {arrived + 1} ELSE heard[s]]
  /\ arrived' = arrived + 1
  /\ UNCHANGED <<exchange, ahead, clock, spot, packet, lines, effort>>

PassTime ==
  /\ clock < MaxNow /\ clock' = clock + 1
  /\ UNCHANGED <<exchange, air, ahead, arrived, subscriber, effort>>
-----------------------------------------------------------------------------
(* The subscribers.                                                        *)

\* socket() and bind(); SO_REUSEADDR lets any number of them have the port.
BindPort(s) ==
  /\ spot[s] = "out" /\ spot' = [spot EXCEPT ![s] = "join"]
  /\ UNCHANGED <<exchange, air, ahead, clock, arrived, sock, packet, lines, heard, effort>>

\* IP_ADD_MEMBERSHIP, IPV6_JOIN_GROUP
Join(s) ==
  /\ spot[s] = "join" /\ spot' = [spot EXCEPT ![s] = "recv"]
  /\ UNCHANGED <<exchange, air, ahead, clock, arrived, sock, packet, lines, heard, effort>>

\* The join fails, or the user ends it: nothing after the loop is ever reached.
Exit(s) ==
  /\ spot[s] # "out" /\ spot' = [spot EXCEPT ![s] = "out"]
  /\ sock' = [sock EXCEPT ![s] = <<>>] /\ packet' = [packet EXCEPT ![s] = Uninitialised]
  /\ lines' = [lines EXCEPT ![s] = <<>>] /\ heard' = [heard EXCEPT ![s] = {}]
  /\ UNCHANGED <<exchange, air, ahead, clock, arrived, effort>>

\* The tests on bytes_received: a signed one, and one that converts -1 to the
\* largest size_t.
Unsigned(n) == n = 0
Short(n)    == n < Header
Whole(n)    == n >= Update \/ n < 0
AnyType(m)  == TRUE
IsUpdate(m) == m.type = "P"

\* What is printed of buffer b when recv() has returned n.
Printed(n, b) ==
  IF ~Short(n) /\ IsUpdate(b.m) /\ Whole(n)
  THEN <<[n |-> b.n, m |-> b.m, latency |-> (clock - b.m.time) % Word, clock |-> clock]>>
  ELSE <<>>

Recv(s) ==
  /\ spot[s] = "recv" /\ sock[s] # <<>>
  /\ LET b == Head(sock[s]) IN
       packet' = [packet EXCEPT ![s] = b] /\ lines' = [lines EXCEPT ![s] = @ \o Printed(b.m.size, b)]
  /\ sock' = [sock EXCEPT ![s] = Tail(@)]
  /\ UNCHANGED <<exchange, air, ahead, clock, arrived, spot, heard, effort>>

\* -1: the buffer keeps what was in it.
RecvFails(s) ==
  /\ spot[s] = "recv" /\ Bounded /\ fails' = fails + 1
  /\ lines' = [lines EXCEPT ![s] = @ \o Printed(-1, packet[s])]
  /\ UNCHANGED <<exchange, air, ahead, clock, arrived, spot, sock, packet, heard, other, copied>>
-----------------------------------------------------------------------------
FeedNext ==
  \/ \E p \in Pubs : StartExchange(p) \/ Publish(p) \/ StopExchange(p)
  \/ SendOther \/ CopyOne \/ Arrive \/ PassTime
  \/ \E s \in Subs : BindPort(s) \/ Join(s) \/ Exit(s) \/ Recv(s) \/ RecvFails(s)

FeedSpec == FeedInit /\ [][FeedNext]_feed
-----------------------------------------------------------------------------
Updates ==
  [group : Groups, type : {"P"}, size : {Update}, pub : Pubs, run : 1 .. MaxRuns,
   seq : 1 .. MaxSeq, time : Nat]

\* Every variable has its type; only whole price updates are printed, whatever
\* else comes to the port.
FeedTypeOK ==
  /\ seq \in [Pubs -> 0 .. MaxSeq + 1] /\ run \in [Pubs -> 0 .. MaxRuns]
  /\ spot \in [Subs -> {"out", "join", "recv"}] /\ clock \in 0 .. MaxNow /\ arrived \in Nat
  /\ \A s \in Subs :
       /\ Len(sock[s]) <= SockRoom /\ heard[s] \subseteq 1 .. arrived
       /\ lines[s] \in Seq([n : 1 .. arrived, m : Updates, latency : 0 .. Word - 1, clock : 0 .. MaxNow])

\* What a subscriber has printed, followed by what waits in its socket, is every
\* update that reached it, once and in the order of arrival: none is skipped,
\* printed again from a buffer that recv() did not fill, or overtaken; so all
\* subscribers of a host print in one order. An update is printed once for each
\* of its copies. And a latency is absurd exactly when the update is read before
\* the time the exchange's clock has put on it.
Order(s) == [i \in DOMAIN (lines[s] \o sock[s]) |-> (lines[s] \o sock[s])[i].n]
Awaits(s) == {i \in DOMAIN sock[s] : sock[s][i].m.pub # Nobody}

Faithful ==
  \A s \in Subs :
    /\ heard[s] = {lines[s][i].n : i \in DOMAIN lines[s]} \cup {sock[s][i].n : i \in Awaits(s)}
    /\ \A i, j \in DOMAIN Order(s) : i < j => Order(s)[i] < Order(s)[j]
    /\ \A m \in {lines[s][i].m : i \in DOMAIN lines[s]} :
         Cardinality({i \in DOMAIN lines[s] : lines[s][i].m = m}) <= 1 + copied
    /\ \A i \in DOMAIN lines[s] :
         lines[s][i].latency > MaxNow <=> lines[s][i].clock < lines[s][i].m.time
=============================================================================
