------------------------------ MODULE MCOptions ------------------------------
(***************************************************************************)
(* The option loops of tc, ip, bridge and genl for TLC.                    *)
(***************************************************************************)
EXTENDS ArgParser

Tc == INSTANCE TcCommandLines
Ip == INSTANCE IpCommandLines

MCParsers  == Tc!AllParsers @@ Ip!AllParsers
MCBase     == Tc!BaseLines @@ Ip!BaseLines
MCCommands == Tc!CommandNames \cup Ip!CommandNames

\* What both sides define is the same.
ASSUME SharedParsers ==
  \A p \in DOMAIN Tc!AllParsers \cap DOMAIN Ip!AllParsers :
     Tc!AllParsers[p] = Ip!AllParsers[p] /\ Tc!BaseLines[p] = Ip!BaseLines[p]

=============================================================================
