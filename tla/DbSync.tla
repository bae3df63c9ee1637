------------------------------- MODULE DbSync -------------------------------
(***************************************************************************)
(* octavia-ovn-db-sync-util: do_sync of the driver brings the rows of a    *)
(* load balancer in line with Octavia's records, whatever handlers that    *)
(* failed, or a Northbound database restored without some of its contents, *)
(* have made of them.                                                      *)
(*                                                                         *)
(* The tool reads Octavia's records once and goes through every row with   *)
(* lb_sync, listener_sync, pool_sync and member_sync, each a step here;    *)
(* without any row it calls the handlers that create things.  It runs      *)
(* between the requests of users (nothing in the code sees to that), but   *)
(* may stop after any step.  Its own transactions succeed: the *_sync       *)
(* methods swallow a failure and go on.  What it takes from a set comes in *)
(* any order, in each row anew.  Health monitors are left out.             *)
(***************************************************************************)
EXTENDS OvnLoadBalancer

VARIABLES
    tool,        \* where the tool is and what it has before it
    runs         \* how often in a row the tool went through, counted up to twice

syncVars == <<vars, tool, runs>>

-----------------------------------------------------------------------------
(* A row that was found                                                    *)

\* lb_sync, which gives up without the port of the VIP; vips are not refreshed.
LbSync(row) == IF oLb.vipPort THEN [row EXCEPT !.enabled = oLb.up] ELSE row

RefOf(l) == IF oListener[l].pool = None THEN {} ELSE {<<oListener[l].pool, TRUE>>}

\* Mutated: the other key of the listener is taken for the one that is wanted.
ListenerSyncAny(row, l) ==
    LET known == {k \in row.listeners : k[1] = l}
    IN  IF known = {}
        THEN Refresh(PutListener(row, <<l, oListener[l].up>>, RefOf(l)))
        ELSE Refresh([row EXCEPT !.refs = [k \in ListenerKey |->
                                    IF k \in known THEN RefOf(l) ELSE @[k]]])

\* Mutated: vips are not refreshed.
ListenerSyncStale(row, l) ==
    [PutListener(row, <<l, oListener[l].up>>, RefOf(l))
        EXCEPT !.protocol = ProtocolOf[l]]

\* listener_sync: a key in the other form stays, and the row takes the protocol of
\* the listener, whatever it had.
ListenerSync(row, l) ==
    Refresh([PutListener(row, <<l, oListener[l].up>>, RefOf(l))
                EXCEPT !.protocol = ProtocolOf[l]])

\* Mutated: the keys of the pool are taken out of the listener's value, and none is
\* put in.
PoolSyncDetach(row, p, l) ==
    LET key == <<p, oPool[p].up>>
        emptied == PutPool(row, key, {})
    IN  IF <<l, TRUE>> \in row.listeners
        THEN [emptied EXCEPT !.refs[<<l, TRUE>>] = @ \ {<<p, TRUE>>, <<p, FALSE>>}]
        ELSE emptied

\* pool_sync: the key is emptied; in the value of the listener that Octavia names
\* for the pool its keys give way to the one it should have.  No refresh.
PoolSync(row, p, l) ==
    LET key == <<p, oPool[p].up>>
        emptied == PutPool(row, key, {})
    IN  IF <<l, TRUE>> \in row.listeners
        THEN [emptied EXCEPT !.refs[<<l, TRUE>>] =
                                (@ \ {<<p, TRUE>>, <<p, FALSE>>}) \cup {key}]
        ELSE emptied

\* Mutated: the member is ONLINE, which nobody has seen.
MemberSyncOnline(row, m) ==
    LET key == <<PoolOf[m], oPool[PoolOf[m]].up>>
    IN  SetStatus(Refresh(PutPool(row, key, row.members[key] \cup {m})), m, "ONLINE")

\* member_sync: a refresh for a member that is enabled, then its status, NO_MONITOR
\* for a disabled member too.
MemberSync(row, m) ==
    LET key == <<PoolOf[m], oPool[PoolOf[m]].up>>
        joined == PutPool(row, key, row.members[key] \cup {m})
    IN  SetStatus(IF oMember[m].up THEN Refresh(joined) ELSE joined,
                  m, "NO_MONITOR")

-----------------------------------------------------------------------------
(* The tool                                                                *)

Idle == [phase |-> "idle"]

\* kept is nothing the tool knows: what was owed when it began.
Working ==
    [phase     : {"sync", "make"},
     row       : Row,             \* the row it is at
     todo      : SUBSET Row,      \* rows it has not come to
     listeners : SUBSET Listener, \* what is left for this row
     pools     : SUBSET Pool,
     members   : SUBSET Member,   \* what is left of the pool it is at
     kept      : SUBSET (Row \X Member \X Listener)]

MembersOf(p) == {m \in Member : PoolOf[m] = p /\ Exists(oMember[m])}

\* What Octavia names as the listener of a pool: one it is the default of, if any.
NamedFor(p) == {None} \cup {l \in Listener : oListener[l].pool = p}

Enters(phase, r, todo, kept) ==
    tool' = [phase |-> phase, row |-> r, todo |-> todo,
             listeners |-> {l \in Listener : Exists(oListener[l])},
             pools |-> {p \in Pool : Exists(oPool[p])},
             members |-> {}, kept |-> kept]

Ends(n) == tool' = Idle /\ runs' = n

More == IF runs = 2 THEN 2 ELSE runs + 1

\* m is to be served by l.
Due(m, l) ==
    /\ oLb.up /\ oMember[m].up /\ oPool[PoolOf[m]].up
    /\ oListener[l].up /\ oListener[l].pool = PoolOf[m]

\* What should be served and would be after a refresh of the row.
Owed == {served \in live \X Member \X Listener :
            /\ Due(served[2], served[3])
            /\ served[2] \in FrameVips(rows[served[1]])[served[3]]}

-----------------------------------------------------------------------------
(* Rows are found                                                          *)

\* lb_sync of a row.
SyncRow(r, todo, kept) ==
    /\ rows' = [rows EXCEPT ![r] = LbSync(@)]
    /\ Enters("sync", r, todo, kept)

Begin ==
    /\ tool = Idle
    /\ Exists(oLb)
    /\ \E r \in live :
          SyncRow(r, live \ {r}, Owed)
    /\ UNCHANGED <<live, oLb, oListener, oPool, oMember, unanswered, runs>>

SyncListener(l) ==
    /\ tool.phase = "sync"
    /\ l \in tool.listeners
    /\ rows' = [rows EXCEPT ![tool.row] = ListenerSync(@, l)]
    /\ tool' = [tool EXCEPT !.listeners = @ \ {l}]
    /\ UNCHANGED <<live, oLb, oListener, oPool, oMember, unanswered, runs>>

SyncPool(p) ==
    /\ tool.phase = "sync"
    /\ tool.listeners = {} /\ tool.members = {}
    /\ p \in tool.pools
    /\ \E l \in NamedFor(p) :
          rows' = [rows EXCEPT ![tool.row] = PoolSync(@, p, l)]
    /\ tool' = [tool EXCEPT !.pools = @ \ {p}, !.members = MembersOf(p)]
    /\ UNCHANGED <<live, oLb, oListener, oPool, oMember, unanswered, runs>>

\* (No member is left to be deleted after these: pool_sync has emptied the pool.)
SyncMember(m) ==
    /\ tool.phase = "sync"
    /\ m \in tool.members
    /\ rows' = [rows EXCEPT ![tool.row] = MemberSync(@, m)]
    /\ tool' = [tool EXCEPT !.members = @ \ {m}]
    /\ UNCHANGED <<live, oLb, oListener, oPool, oMember, unanswered, runs>>

\* What _get_current_operating_statuses and Octavia make of a row: ACTIVE, and the
\* load balancer takes calls again.
Reported(record) == IF Exists(record) THEN [record EXCEPT !.prov = "ACTIVE"] ELSE record

AllReported ==
    /\ oLb' = Reported(oLb)
    /\ oListener' = [l \in Listener |-> Reported(oListener[l])]
    /\ oPool' = [p \in Pool |-> Reported(oPool[p])]
    /\ oMember' = [m \in Member |-> Reported(oMember[m])]
    /\ unanswered' = FALSE

Done == tool.listeners = {} /\ tool.pools = {} /\ tool.members = {}

\* The tool ends at a row whose statuses raise; it went through if that was the last.
EndRow ==
    /\ tool.phase = "sync"
    /\ Done
    /\ \/ /\ StatusRaises(rows[tool.row])
          /\ Ends(IF tool.todo = {} THEN More ELSE 0)
          /\ UNCHANGED vars
       \/ /\ ~StatusRaises(rows[tool.row])
          /\ AllReported
          /\ \/ tool.todo = {} /\ Ends(More) /\ UNCHANGED rows
             \/ /\ \E r \in tool.todo : SyncRow(r, tool.todo \ {r}, tool.kept)
                /\ UNCHANGED runs
          /\ UNCHANGED live

-----------------------------------------------------------------------------
(* A load balancer without rows                                            *)

\* lb_create.  Without the VIP port it fails, and so does everything after it.
Make ==
    /\ tool = Idle
    /\ Exists(oLb)
    /\ live = {}
    /\ oLb.vipPort
    /\ \E r \in Row : Put(r, NewRow(NoProtocol, oLb.up)) /\ Enters("make", r, {}, {})
    /\ UNCHANGED <<oLb, oListener, oPool, oMember, unanswered, runs>>

\* listener_create
MakeListener(l) ==
    /\ tool.phase = "make"
    /\ l \in tool.listeners
    /\ \E o \in Obtain(ProtocolOf[l], oListener[l].up) :
          /\ Put(o.id, Refresh(PutListener(o.row, <<l, oListener[l].up>>, RefOf(l))))
          /\ oLb' = [oLb EXCEPT !.vipPort = o.port]
    /\ tool' = [tool EXCEPT !.listeners = @ \ {l}]
    /\ UNCHANGED <<oListener, oPool, oMember, unanswered, runs>>

\* pool_create.  The tool ends with an exception at a pool without members: what
\* it iterates over is Unset.
MakePool(p) ==
    LET key == <<p, oPool[p].up>>
        attached(row, l) == IF <<l, TRUE>> \in row.listeners
                            THEN [row EXCEPT !.refs[<<l, TRUE>>] = @ \cup {key}]
                            ELSE row
    IN  /\ tool.phase = "make"
        /\ tool.listeners = {} /\ tool.members = {}
        /\ p \in tool.pools
        /\ \E o \in Obtain(ProtocolOf[p], oPool[p].up), l \in NamedFor(p) :
              /\ Put(o.id, PutPool(attached(o.row, l), key, {}))
              /\ oLb' = [oLb EXCEPT !.vipPort = o.port]
        /\ IF MembersOf(p) = {} THEN Ends(0)
           ELSE /\ tool' = [tool EXCEPT !.pools = @ \ {p}, !.members = MembersOf(p)]
                /\ UNCHANGED runs
        /\ UNCHANGED <<oListener, oPool, oMember, unanswered>>

\* member_create, which raises when the statuses of the row do.
MakeMember(m) ==
    LET up == oMember[m].up
        made(row, k) == SetStatus(MemberJoined(row, k, m, up), m,
                                  IF up THEN "NO_MONITOR" ELSE "OFFLINE")
    IN  /\ tool.phase = "make"
        /\ m \in tool.members
        /\ \E rk \in PoolRows(PoolOf[m]) :
              LET row == made(rows[rk[1]], rk[2])
              IN  /\ Put(rk[1], row)
                  /\ \/ StatusRaises(row) /\ Ends(0)
                     \/ /\ ~StatusRaises(row)
                        /\ tool' = [tool EXCEPT !.members = @ \ {m}]
                        /\ UNCHANGED runs
        /\ UNCHANGED <<oLb, oListener, oPool, oMember, unanswered>>

\* The status that the tool collected nests those of the handlers, and is nothing
\* Octavia takes.
EndMake ==
    /\ tool.phase = "make"
    /\ Done
    /\ Ends(More)
    /\ UNCHANGED vars

-----------------------------------------------------------------------------

\* The tool is stopped, or a call of its own raises.
Stop == tool # Idle /\ Ends(0) /\ UNCHANGED vars

Sync ==
    \/ Begin
    \/ \E l \in Listener : SyncListener(l) \/ MakeListener(l)
    \/ \E p \in Pool : SyncPool(p) \/ MakePool(p)
    \/ \E m \in Member : SyncMember(m) \/ MakeMember(m)
    \/ EndRow
    \/ Make
    \/ EndMake
    \/ Stop

-----------------------------------------------------------------------------
(* The database loses rows, keys or vips                                   *)

LoseRow(r) ==
    /\ live' = live \ {r}
    /\ rows' = [rows EXCEPT ![r] = BlankRow]

LoseContents(r) ==
    /\ \E L \in SUBSET rows[r].listeners, P \in SUBSET rows[r].pools,
          vips \in {rows[r].vips, BlankRow.vips} :
          rows' = [rows EXCEPT
              ![r].listeners = L,
              ![r].refs = [k \in ListenerKey |-> IF k \in L THEN @[k] ELSE {}],
              ![r].pools = P,
              ![r].members = [k \in PoolKey |-> IF k \in P THEN @[k] ELSE {}],
              ![r].vips = vips]
    /\ UNCHANGED live

Lose ==
    /\ tool = Idle
    /\ \E r \in live : LoseRow(r) \/ LoseContents(r)
    /\ runs' = 0
    /\ UNCHANGED <<oLb, oListener, oPool, oMember, unanswered, tool>>

Handled == tool = Idle /\ Next /\ runs' = 0 /\ UNCHANGED tool

SyncInit == Init /\ tool = Idle /\ runs = 0

SyncNext == Sync \/ Lose \/ Handled

SyncSpec == SyncInit /\ [][SyncNext]_syncVars

-----------------------------------------------------------------------------
(* Properties                                                              *)

\* Every variable keeps its type.
SyncTypeOK == TypeOK /\ tool \in {Idle} \cup Working /\ runs \in 0..2

\* After the tool went through twice everything that is configured and enabled is
\* served, whatever handler failed before, whatever the database had lost, wherever
\* an earlier run stopped and whatever users did meanwhile (_ensure_loadbalancer).
\* Once is not enough: a member that was enabled while its pool had no key is stored
\* OFFLINE still, and member_sync refreshes vips before it corrects that.
SyncServes ==
    tool = Idle /\ runs = 2 /\ oLb.vipPort =>
        \A m \in Member, l \in Listener : Due(m, l) => m \in Backends(l)

\* After the tool went through and reported, what is served exists: nothing that
\* users deleted meanwhile comes back.  (With no listener left nothing refreshes
\* vips, and what was there stays.)
SyncForgets ==
    tool = Idle /\ runs > 0 /\ oLb.prov = "ACTIVE"
    /\ (\E l \in Listener : Exists(oListener[l])) =>
        \A l \in Listener : \A m \in Backends(l) :
            Exists(oListener[l]) /\ Exists(oMember[m])

\* One run is enough for whoever should be served by what Octavia and a row said
\* when it began: pool_sync has emptied pools that were in use, and filled again
\* they are served (or still).
SyncKeepsServing ==
    [][tool # Idle /\ tool' = Idle /\ runs' > 0 =>
          \A served \in tool.kept : served[2] \in Backends(served[3])']_syncVars
=============================================================================
