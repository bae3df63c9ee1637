------------------------- MODULE MCRequestPipeline -------------------------
(* Two API workers, two pools and members that differ in their pool.        *)
EXTENDS RequestPipeline, TLC

CONSTANTS w1, w2, p1, p2, m1, m2, m3

MCPoolOf == [m \in Member |-> IF m = m3 THEN p2 ELSE p1]

\* Two API workers with calls of one status each and every fault; one worker with
\* every call.
MCDeployments ==
    {[workers |-> {w1, w2}, calls |-> {"create", "delete"},
      members |-> Member, faults |-> TRUE],
     [workers |-> {w1}, calls |-> Call,
      members |-> {m1, m2}, faults |-> FALSE]}

MCBatch == {[workers |-> Worker, calls |-> {"batch"},
               members |-> Member, faults |-> FALSE]}

MCWorkerSymmetry == Permutations(Worker)
=============================================================================
