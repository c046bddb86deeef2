------------------------------ MODULE WebServer ------------------------------
(***************************************************************************)
(* What the web server does for each handler, on the threads of its        *)
(* io_context: connections, and who may use them.  The two meet only in    *)
(* that a request is handled while its connection waits (OnRead), and in   *)
(* the cookie it carries: their state is disjoint, and each is looked at   *)
(* by itself.                                                              *)
(***************************************************************************)
EXTENDS Connections, Login

CONSTANT Part    \* what is looked at, of the two below

ASSUME WebServerAssumption == Part \subseteq {"connections", "login"}

VARIABLE part

serverVars == <<part, connectionVars, loginVars>>

Init == part \in Part /\ ConnectionsInit /\ LoginInit

Next ==
  /\ UNCHANGED part
  /\ \/ part = "connections" /\ ConnectionsNext /\ UNCHANGED loginVars
     \/ part = "login" /\ LoginNext /\ UNCHANGED connectionVars

Spec == Init /\ [][Next]_serverVars

TypeOK == part \in Part /\ ConnectionsTypeOK /\ LoginTypeOK
=============================================================================
