---------------------------- MODULE CallService ----------------------------
(***************************************************************************)
(* What Octavia relies on when it hands a call to its provider driver: the *)
(* load balancer is locked (PENDING) from the moment the call is accepted  *)
(* until the provider answers, the provider applies the call in between,   *)
(* and it answers, unless it loses the call; then the lock stays for ever  *)
(* and nothing else happens.  RequestPipeline is the code that is meant to *)
(* keep this promise.                                                      *)
(***************************************************************************)
CONSTANT Member

VARIABLES
    locked,     \* the load balancer is in a PENDING state
    intended,   \* the members the accepted calls amount to
    served,     \* the members the VIP forwards to
    abandoned   \* a call was lost

vars == <<locked, intended, served, abandoned>>

Init == ~locked /\ intended = {} /\ served = {} /\ ~abandoned

\* Only an unlocked load balancer takes a call.
Accept ==
    /\ ~locked
    /\ locked' = TRUE
    /\ intended' \in SUBSET Member
    /\ UNCHANGED <<served, abandoned>>

\* The provider changes what is served to what is intended, while it holds the
\* lock and at one stroke.
Apply ==
    /\ locked /\ ~abandoned
    /\ served # intended
    /\ served' = intended
    /\ UNCHANGED <<locked, intended, abandoned>>

\* An answer before the call is applied would be a lie.
Answer ==
    /\ locked /\ ~abandoned
    /\ served = intended
    /\ locked' = FALSE
    /\ UNCHANGED <<intended, served, abandoned>>

\* Before or after it is applied; a member whose deletion is lost is wanted again.
Abandon ==
    /\ locked /\ ~abandoned
    /\ abandoned' = TRUE
    /\ intended' \in SUBSET Member
    /\ UNCHANGED <<locked, served>>

Next == Accept \/ Apply \/ Answer \/ Abandon

Spec == Init /\ [][Next]_vars /\ WF_vars(Apply) /\ WF_vars(Answer)
=============================================================================
