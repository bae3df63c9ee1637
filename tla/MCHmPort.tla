------------------------------ MODULE MCHmPort ------------------------------
(* Load balancers with members in one subnet, which are alike, as are its   *)
(* addresses.                                                               *)
EXTENDS HmPort, TLC

CONSTANTS l1, l2, l3, a1, a2, a3, none

MCAlike == Permutations(Lb) \cup Permutations(Address)

\* What HmPort promises it promises until a port that is about to be entered is also
\* about to be deleted: nothing is asked of what follows, which is not explored.
NotRaced == ~raced
=============================================================================
