----------------------------- MODULE StatusTree -----------------------------
(***************************************************************************)
(* How _get_current_operating_statuses derives the operating statuses of   *)
(* pools, listeners and the load balancer from neutron:member_status, the  *)
(* map of member statuses in the external_ids of a row.                     *)
(***************************************************************************)
EXTENDS Naturals

\* The statuses a member's entry may have, "none" when there is no entry.
Entry == {"none", "NO_MONITOR", "ONLINE", "OFFLINE", "ERROR"}
Operating == {"ONLINE", "OFFLINE", "DEGRADED", "ERROR"}

\* Mutated: one failed member among others goes unnoticed.
PoolStatusAll(mems, status, up) ==
    LET known == \E m \in DOMAIN status : status[m] # "none"
    IN  IF ~up \/ ~known THEN "OFFLINE"
        ELSE IF mems # {} /\ \A m \in mems : status[m] = "ERROR" THEN "ERROR"
        ELSE "ONLINE"

\* A member without an entry counts as ONLINE; while nobody has an entry every
\* pool is OFFLINE.
PoolStatus(mems, status, up) ==
    LET failed == {m \in mems : status[m] = "ERROR"}
        known  == \E m \in DOMAIN status : status[m] # "none"
    IN  IF ~up \/ ~known THEN "OFFLINE"
        ELSE IF failed # {} /\ failed = mems THEN "ERROR"
        ELSE IF failed # {} THEN "DEGRADED"
        ELSE "ONLINE"

\* A listener over its pools, and the load balancer over its listeners.  What is
\* OFFLINE below does not show above.
WorstOf(below, up) ==
    IF ~up THEN "OFFLINE"
    ELSE IF "ERROR" \in below THEN "ERROR"
    ELSE IF "DEGRADED" \in below THEN "DEGRADED"
    ELSE "ONLINE"
=============================================================================
