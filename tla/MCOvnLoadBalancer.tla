------------------------- MODULE MCOvnLoadBalancer -------------------------
(* A load balancer small enough for TLC: one tcp listener that may switch   *)
(* between the tcp pools, and a udp listener that brings a second row.      *)
EXTENDS OvnLoadBalancer, TLC

CONSTANTS tcp, udp, l1, l2, p1, p2, m1, m2, r1, r2

MCProtocolOf == [x \in Listener \cup Pool |-> IF x = l2 THEN udp ELSE tcp]
MCPoolOf == [m \in Member |-> IF m = m2 THEN p2 ELSE p1]

MCRowSymmetry == Permutations(Row)
=============================================================================
