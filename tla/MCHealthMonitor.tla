-------------------------- MODULE MCHealthMonitor --------------------------
(* Two pools, the first with two members; the second address is alone in its *)
(* subnet and may have no logical switch port.                              *)
EXTENDS HealthMonitor

CONSTANTS p1, p2, m1, m2, m3, a1, a2, a3, i1, i2, i3, s1, s2

MCPoolOf == [m \in Member |-> IF m = m3 THEN p2 ELSE p1]
MCAddrOf == [m \in Member |-> IF m = m1 THEN a1 ELSE IF m = m2 THEN a2 ELSE a3]
MCIpOf == [a \in Addr |-> IF a = a1 THEN i1 ELSE IF a = a2 THEN i2 ELSE i3]
\* The third member, of the other pool, has the IP address of the first.
MCSharedIpOf == [a \in Addr |-> IF a = a2 THEN i2 ELSE i1]
MCSubnetOf == [i \in Ip |-> IF i = i2 THEN s2 ELSE s1]
MCTexts == [m \in Member |-> {AddrOf[m]}]
=============================================================================
