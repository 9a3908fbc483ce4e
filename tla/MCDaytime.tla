----------------------------- MODULE MCDaytime ------------------------------
(* Daytime, MarketFeed and Queries for TLC, in one run: a behaviour is of   *)
(* one of them, and the variables of the others keep a first value.         *)
(* Daytime: a host with an IPv6 and an IPv4 address and one that is not     *)
(* there; the server's "::" takes both families, its 0.0.0.0 one.           *)
(* MarketFeed: an exchange of IPv4 and a subscriber of each family, and     *)
(* trades that others send.                                                 *)
(* Queries: a host with an interface of each kind, and a second of IPv4.    *)
EXTENDS Daytime, MarketFeed, Queries

CONSTANTS own, lib, any6, any4, v6, v4, down, x4, s4, s6

VARIABLE system

LocalList == <<any6, any4>>
CoverSets == [a \in {any6, any4} |-> IF a = any6 THEN {v6, v4} ELSE {v4}]
RemoteLists == [c \in {own, lib} |-> IF c = own THEN <<down, v4>> ELSE <<v6, down, v4>>]

Families == [x \in {x4, s4, s6} |-> IF x = s6 THEN "v6" ELSE "v4"]
Trades == {<<"v4", "T", Update>>, <<"v4", "P", Header>>}

Interfaces == <<"v4", "v6", "none", "v4">>
RouteLists == {<<>>, <<"DST", "OIF">>, <<"DST", "OIF", "GATEWAY">>}

On(name, A) == system = name /\ A

\* One first state of each.
NoDaytime == ~daemon
NoFeed    == ahead = 0
NoQuery   == asker = "route"

MCInit ==
  /\ Init /\ FeedInit /\ QueriesInit
  /\ \/ On("daytime", NoFeed /\ NoQuery)
     \/ On("feed", NoDaytime /\ NoQuery)
     \/ On("queries", NoDaytime /\ NoFeed)
MCNext ==
  /\ UNCHANGED system
  /\ \/ On("daytime", Next /\ UNCHANGED <<feed, queries>>)
     \/ On("feed", FeedNext /\ UNCHANGED <<vars, queries>>)
     \/ On("queries", QueriesNext /\ UNCHANGED <<vars, feed>>)

\* The fairness of Daytime where it runs; the others have none.
MCFairness ==
  /\ WF_vars(On("daytime", Setup)) /\ WF_vars(On("daytime", Loop))
  /\ \A c \in Clients :
       WF_vars(On("daytime", Trying(c))) /\ WF_vars(On("daytime", Reading(c)))
MCSpec == MCInit /\ [][MCNext]_<<system, vars, feed, queries>> /\ MCFairness
=============================================================================
