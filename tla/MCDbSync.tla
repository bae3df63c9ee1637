------------------------------ MODULE MCDbSync ------------------------------
(* One listener, one pool and a member: one row.                            *)
EXTENDS DbSync

CONSTANTS tcp, l1, p1, m1, r1

MCProtocolOf == [x \in Listener \cup Pool |-> tcp]
MCPoolOf == [m \in Member |-> p1]
=============================================================================
