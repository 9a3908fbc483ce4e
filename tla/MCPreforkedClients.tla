------------------------- MODULE MCPreforkedClients -------------------------
(* The preforked server, LockStep and the nonblocking client for TLC, in one*)
(* run: a behaviour is of one of the three, and the variables of the others *)
(* keep a first value.                                                      *)
EXTENDS MCPreforked, MCLockStep, StrCli

VARIABLE system

On(name, A) == system = name /\ A

\* One first state of LockStep; the other two have no more.
NoPair == prog = "echo" /\ ~split

MCInit ==
  /\ Init /\ PairInit /\ CliInit
  /\ \/ \E name \in {"preforked", "strcli"} : On(name, NoPair)
     \/ system = "pair"
MCNext ==
  /\ UNCHANGED system
  /\ \/ On("preforked", Next /\ UNCHANGED <<pair, strcli>>)
     \/ On("pair", PairNext /\ UNCHANGED <<vars, strcli>>)
     \/ On("strcli", CliNext /\ UNCHANGED <<vars, pair>>)

\* The fairness of each where it runs.
MCFairness ==
  /\ WF_vars(On("preforked", ParentStep))
  /\ \A i \in Children :
       WF_vars(On("preforked", ChildStep(i))) /\ WF_vars(On("preforked", Die(i)))
  /\ WF_pair(On("pair", PairClient)) /\ WF_pair(On("pair", Server))
  /\ WF_strcli(On("strcli", Client)) /\ WF_strcli(On("strcli", Echo))
  /\ WF_strcli(On("strcli", Hangup)) /\ WF_strcli(On("strcli", TypeByte))
  /\ WF_strcli(On("strcli", Display))
MCSpec == MCInit /\ [][MCNext]_<<system, vars, pair, strcli>> /\ MCFairness
=============================================================================
