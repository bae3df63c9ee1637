----------------------- MODULE OvnLoadBalancerHistory -----------------------
(***************************************************************************)
(* The load balancer with a history: whether everything so far was done in *)
(* the usual order.  pool_create is given a listener only by a request     *)
(* that names it, and a resource is created disabled only when a request   *)
(* says so; either may leave what is configured without service.  The      *)
(* history tells such behaviours apart and constrains none of them.        *)
(***************************************************************************)
EXTENDS OvnLoadBalancer

VARIABLE usual   \* no creation so far was disabled, and no pool's named a listener

hvars == <<live, rows, oLb, oListener, oPool, oMember, unanswered, usual>>

\* The states of CreateStates that enable what is created.
Enabled == CreateStates \cap {TRUE}

\* The steps of Next that are of the usual order.
UsualNext ==
    \/ \E up \in Enabled : LbCreate(up)
    \/ \E up \in BOOLEAN : LbUpdate(up)
    \/ \E cascade \in BOOLEAN : LbDelete(cascade)
    \/ \E l \in Listener :
          \/ \E up \in Enabled, dp \in Pool \cup {None} : ListenerCreate(l, up, dp)
          \/ \E up \in Opt(BOOLEAN), dp \in Opt(Pool \cup {None}) :
                ListenerUpdate(l, up, dp)
          \/ ListenerDelete(l)
    \/ \E p \in Pool :
          \/ \E up \in Enabled : PoolCreate(p, up, None)
          \/ \E up \in Opt(BOOLEAN) : PoolUpdate(p, up)
          \/ PoolDelete(p)
    \/ \E m \in Member :
          \/ \E up \in Enabled : MemberCreate(m, up)
          \/ \E up \in Opt(BOOLEAN) : MemberUpdate(m, up)
          \/ MemberDelete(m)

HInit == Init /\ usual = TRUE
HNext == Next /\ usual' = (usual /\ UsualNext)
HSpec == HInit /\ [][HNext]_hvars

\* As long as the usual order is kept, whatever is configured and enabled is
\* forwarded, whatever was updated, disabled, deleted and enabled again since:
\* _frame_vip_ips finds every member of the default pool of every listener.
UsuallyServed == usual => ConfiguredIsServed
=============================================================================
