--------------------------- MODULE MCAssociation ---------------------------
(* Load balancers on a switch each, members on the second's switch of the   *)
(* first and of the second, routers, and a provider network.                *)
EXTENDS Association, TLC

CONSTANTS lb1, lb2, s1, s2, ext, r1, r2, m1, m2

MCVipSwitch == [lb \in Lb |-> IF lb = lb1 THEN s1 ELSE s2]
MCLbOf == [m \in Member |-> IF m = m1 THEN lb1 ELSE lb2]
MCSwitchOf == [m \in Member |-> s2]
=============================================================================
