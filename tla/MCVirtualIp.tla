---------------------------- MODULE MCVirtualIp ----------------------------
(* Rows of two protocols, a monitor on the first, two agents.               *)
EXTENDS VirtualIp

CONSTANTS tcp, udp, h1, f1, f2, g1, g2

MCRowOf == [h \in Monitor |-> tcp]
=============================================================================
