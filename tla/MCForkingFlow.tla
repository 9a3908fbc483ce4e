--------------------------- MODULE MCForkingFlow ----------------------------
(* The forking servers and EchoFlow for TLC, in one run: a behaviour is of  *)
(* one of the two, and the variables of the other keep a first value.       *)
EXTENDS ForkServer, EchoFlow

CONSTANTS c1, c2

VARIABLE system

\* Two clients of the SCTP server, or one of a TCP server, which types enough to
\* fill every buffer of both directions.
FlowModes == {[c \in Clients |-> IF c = c1 THEN k[1] ELSE k[2]] :
                k \in {<<"one", "one">>, <<"one", "all">>, <<"all", "all">>, <<"select", "none">>}}
Typing == [k \in Kinds |-> CASE k = "select" -> 11 [] k = "one" -> 2 [] OTHER -> 1]

\* One first state of EchoFlow; ForkServer has no more.
NoFlow == (\A c \in Clients : mode[c] = "one" /\ streams[c] = 1) /\ ~increment

On(name, A) == system = name /\ A

MCInit == Init /\ FlowInit /\ (On("fork", NoFlow) \/ system = "flow")
MCNext ==
  /\ UNCHANGED system
  /\ On("fork", Next /\ UNCHANGED flow) \/ On("flow", FlowNext /\ UNCHANGED vars)

\* The fairness of each where it runs.
MCFairness ==
  /\ WF_vars(On("fork", MainStep)) /\ WF_vars(On("fork", Handler))
  /\ \A k \in Kids : WF_vars(On("fork", KidStep(k)))
  /\ \A c \in Conns : WF_vars(On("fork", SeesClose(c)))
  /\ WF_flow(On("flow", FlowServer))
  /\ \A c \in Clients : WF_flow(On("flow", FlowClient(c)))
MCSpec == MCInit /\ [][MCNext]_<<system, vars, flow>> /\ MCFairness
=============================================================================
