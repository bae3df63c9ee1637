-------------------------- MODULE OvnLoadBalancer --------------------------
(***************************************************************************)
(* One Octavia load balancer and the rows that stand for it in the        *)
(* Load_Balancer table of the OVN Northbound database, as the request     *)
(* handlers of OvnProviderHelper (ovn_octavia_provider/helper.py) keep    *)
(* them.                                                                   *)
(*                                                                         *)
(* OVN allows one L4 protocol per row, so one load balancer is a set of   *)
(* rows with the same name.  Everything the provider has to remember is   *)
(* in the external_ids map of a row; the vips column, the only one that   *)
(* forwards traffic, is derived from it by _frame_vip_ips and has to be   *)
(* refreshed by every handler that changes what it is derived from.       *)
(*                                                                         *)
(* Handlers run one at a time: Octavia keeps the load balancer immutable  *)
(* until the status of the running request arrives.  (RequestPipeline     *)
(* studies what happens when that is not so.)  Health monitors, floating  *)
(* IPs and the switch and router associations are left to other modules.  *)
(***************************************************************************)
EXTENDS Naturals, FiniteSets

CONSTANTS
    Row,          \* identities (_uuid) of Load_Balancer rows
    Protocol,     \* L4 protocols: tcp, udp, sctp
    Listener, Pool, Member,
    ProtocolOf,   \* protocol of a listener or a pool, fixed at its creation
    PoolOf,       \* pool of a member, fixed at its creation
    NoProtocol,   \* the empty protocol column
    None,         \* no pool, no listener (None in a request)
    Failures,     \* which database calls may raise: "txn": the first
                  \* transaction of a handler, "later": a call after it
    CreateStates, \* the admin_state_up values a resource is created with
    AttachAtPoolCreate  \* whether pool_create may name a listener

ASSUME ConstantsAssumption ==
    /\ ProtocolOf \in [Listener \cup Pool -> Protocol]
    /\ PoolOf \in [Member -> Pool]
    /\ NoProtocol \notin Protocol
    /\ None \notin Pool \cup Listener
    /\ Listener \cap Pool = {}
    /\ Failures \subseteq {"txn", "later"}
    /\ CreateStates \subseteq BOOLEAN
    /\ AttachAtPoolCreate \in BOOLEAN

VARIABLES
    live,        \* rows that exist
    rows,        \* contents of the rows
    oLb, oListener, oPool, oMember,   \* Octavia's own records
    unanswered   \* a handler ended without a status: Octavia waits for ever

vars == <<live, rows, oLb, oListener, oPool, oMember, unanswered>>

-----------------------------------------------------------------------------
(* External ids.  A key is a resource with the state its suffix encodes:  *)
(* <<l, TRUE>> is 'listener_<l>', <<l, FALSE>> is 'listener_<l>:D'.  The   *)
(* value '<port>:<pool keys>' of a listener is the set of pool keys        *)
(* written after its port; <<None, TRUE>> is the text 'pool_None'.         *)

ListenerKey == Listener \X BOOLEAN
PoolKey     == Pool \X BOOLEAN
PoolRef     == (Pool \cup {None}) \X BOOLEAN
MemberStatus == {"none", "NO_MONITOR", "OFFLINE", "ERROR"}

RowContents ==
    [protocol  : Protocol \cup {NoProtocol},
     enabled   : BOOLEAN,
     listeners : SUBSET ListenerKey,
     refs      : [ListenerKey -> SUBSET PoolRef],
     pools     : SUBSET PoolKey,
     members   : [PoolKey -> SUBSET Member],
     status    : [Member -> MemberStatus],
     vips      : [Listener -> SUBSET Member]]

NewRow(proto, up) ==
    [protocol |-> proto, enabled |-> up,
     listeners |-> {}, refs |-> [k \in ListenerKey |-> {}],
     pools |-> {}, members |-> [k \in PoolKey |-> {}],
     status |-> [m \in Member |-> "none"],
     vips |-> [l \in Listener |-> {}]]

BlankRow == NewRow(NoProtocol, FALSE)

\* A listener is routed when its value names exactly one pool key, without
\* suffix, and that key exists: _extract_listener_key_value gives up otherwise.
Routes(row, l, k) ==
    /\ <<l, TRUE>> \in row.listeners
    /\ k \in row.pools
    /\ k[2]
    /\ row.refs[<<l, TRUE>>] = {k}

\* Mutated: the stored OFFLINE status is not consulted.
FrameVipsOffline(row) ==
    [l \in Listener |->
        {m \in Member : /\ row.enabled
                        /\ \E k \in PoolKey : /\ Routes(row, l, k)
                                              /\ m \in row.members[k]}]

FrameVips(row) ==
    [l \in Listener |->
        {m \in Member : /\ row.enabled
                        /\ row.status[m] # "OFFLINE"
                        /\ \E k \in PoolKey : /\ Routes(row, l, k)
                                              /\ m \in row.members[k]}]

Refresh(row) == [row EXCEPT !.vips = FrameVips(row)]

IsEmpty(row) == row.listeners = {} /\ row.pools = {}

PutListener(row, k, refs) ==
    [row EXCEPT !.listeners = @ \cup {k}, !.refs[k] = refs]

\* Mutated: the value of every other key is lost with the key.
DropListenerValues(row, k) ==
    [row EXCEPT !.listeners = @ \ {k},
                !.refs = [x \in ListenerKey \ {k} |-> @[x]]]

DropListener(row, k) ==
    [row EXCEPT !.listeners = @ \ {k}, !.refs[k] = {}]

PutPool(row, k, mems) ==
    [row EXCEPT !.pools = @ \cup {k}, !.members[k] = mems]

\* Mutated: the key stays, with an empty value.
DropPoolMembers(row, k) == [row EXCEPT !.members[k] = {}]

DropPool(row, k) ==
    [row EXCEPT !.pools = @ \ {k}, !.members[k] = {}]

\* Mutated: listeners keep naming the pool.
DetachNothing(row, p) == row

\* Every listener whose value mentions pool p is left with its port alone.
DetachPool(row, p) ==
    [row EXCEPT !.refs = [k \in ListenerKey |->
        IF \E b \in BOOLEAN : <<p, b>> \in @[k] THEN {} ELSE @[k]]]

-----------------------------------------------------------------------------
(* What the handlers make of a row.  A request may leave out a field: it is *)
(* then {}, and {x} when x was given.                                      *)

Opt(S) == {{}} \cup {{x} : x \in S}
Given(opt, old) == IF opt = {} THEN old ELSE CHOOSE x \in opt : TRUE

\* listener_update: the key follows admin_state_up; a default pool is always
\* written under its plain key, and clearing it (None) writes 'pool_None'.
ListenerMoved(row, k, up, dp) ==
    Refresh(PutListener(DropListener(row, k), <<k[1], Given(up, k[2])>>,
                        IF dp = {} THEN row.refs[k]
                                   ELSE {<<Given(dp, None), TRUE>>}))

\* Mutated: vips are not refreshed.
PoolSwitchedStale(row, old, new) ==
    DropPool(PutPool(row, new, row.members[old]), old)

\* pool_update: the members move to the key of the new admin state.
PoolSwitched(row, old, new) ==
    Refresh(DropPool(PutPool(row, new, row.members[old]), old))

\* _add_member: a member created disabled joins without a refresh.
MemberJoined(row, k, m, up) ==
    LET joined == PutPool(row, k, row.members[k] \cup {m})
    IN  IF up THEN Refresh(joined) ELSE joined

\* _remove_member
MemberLeft(row, k, m) ==
    IF m \in row.members[k]
    THEN Refresh(PutPool(row, k, row.members[k] \ {m})) ELSE row

\* Mutated: the entry of a deleted member stays.
ForgetNothing(row, m) == row

\* _update_external_ids_member_status, setting and deleting.
SetStatus(row, m, status) == [row EXCEPT !.status[m] = status]
Forget(row, m) == [row EXCEPT !.status[m] = "none"]

-----------------------------------------------------------------------------
(* Finding and writing rows.                                               *)

\* _find_ovn_lbs with a protocol: a lone row without protocol serves any.
FindRow(proto) ==
    {r \in live : \/ rows[r].protocol = proto
                  \/ live = {r} /\ rows[r].protocol = NoProtocol}

\* Mutated: the row that has no protocol yet is taken before the one for proto
\* is looked for, and a new row is made even when there is one.
ObtainNew(proto, up) ==
    LET unset == {r \in live : rows[r].protocol = NoProtocol}
    IN  IF unset # {}
        THEN {[id |-> r, row |-> [rows[r] EXCEPT !.protocol = proto],
               port |-> oLb.vipPort] : r \in unset}
        ELSE {[id |-> r, row |-> NewRow(proto, up), port |-> oLb.vipPort] :
                r \in IF live = {} THEN {} ELSE Row \ live}

\* lb_create on behalf of a listener or a pool, whose state becomes the row's
\* 'enabled'.  On a late failure it deletes the VIP port and returns a status
\* that nobody reads.
NewRows(proto, up) ==
    {[id |-> r, row |-> NewRow(proto, up), port |-> port] :
        r \in IF live = {} THEN {} ELSE Row \ live,
        port \in IF "later" \in Failures THEN {oLb.vipPort, FALSE}
                                         ELSE {oLb.vipPort}}

\* _get_or_create_ovn_lb: the row for proto, the row that has no protocol yet,
\* or a new row.
Obtain(proto, up) ==
    LET same  == {r \in live : rows[r].protocol = proto}
        unset == {r \in live : rows[r].protocol = NoProtocol}
    IN  IF same # {}
        THEN {[id |-> r, row |-> rows[r], port |-> oLb.vipPort] : r \in same}
        ELSE IF unset # {}
        THEN {[id |-> r, row |-> [rows[r] EXCEPT !.protocol = proto],
               port |-> oLb.vipPort] : r \in unset}
        ELSE NewRows(proto, up)

Put(r, row) ==
    /\ live' = live \cup {r}
    /\ rows' = [rows EXCEPT ![r] = row]

\* _clean_lb_if_empty: when nothing is left the last row goes back to no
\* protocol and any other row is deleted.  left is what the handler believes
\* to be left.
PutOrClean(r, row, left) ==
    IF ~IsEmpty(left) THEN Put(r, row)
    ELSE IF live = {r} THEN Put(r, [row EXCEPT !.protocol = NoProtocol])
    ELSE /\ live' = live \ {r}
         /\ rows' = [rows EXCEPT ![r] = BlankRow]

\* The rows that hold a pool, under its plain key first.
PoolRows(p) ==
    LET holding(b) == {r \in live : <<p, b>> \in rows[r].pools}
    IN  IF holding(TRUE) # {} THEN holding(TRUE) \X {<<p, TRUE>>}
                              ELSE holding(FALSE) \X {<<p, FALSE>>}

\* _get_current_operating_statuses asks Octavia for the ids it cuts out of the
\* keys of the row.  One with the ':D' suffix is unknown there, the answer is
\* None and the handler raises.
StatusRaises(row) ==
    \/ \E k \in row.listeners : ~k[2] \/ oListener[k[1]].prov = "ABSENT"
    \/ \E k \in row.pools : ~k[2] \/ oPool[k[1]].prov = "ABSENT"

-----------------------------------------------------------------------------
(* Octavia's records.  A resource the handler answered for is ACTIVE or in *)
(* ERROR; its admin state and default pool are what the user asked for,    *)
(* whatever became of the request.  A member in ERROR because its deletion *)
(* failed is told apart: pool_delete of the driver asks for that first.    *)

Prov == {"ABSENT", "ACTIVE", "ERROR", "DELETE_ERROR"}
LbRecord       == [prov : Prov, up : BOOLEAN, vipPort : BOOLEAN]
ListenerRecord == [prov : Prov, up : BOOLEAN, pool : Pool \cup {None}]
ChildRecord    == [prov : Prov, up : BOOLEAN]
AbsentLb       == [prov |-> "ABSENT", up |-> FALSE, vipPort |-> FALSE]
AbsentListener == [prov |-> "ABSENT", up |-> FALSE, pool |-> None]
AbsentChild    == [prov |-> "ABSENT", up |-> FALSE]

Exists(record) == record.prov # "ABSENT"

\* Octavia hands a request to the provider only while the load balancer is
\* ACTIVE and no earlier request is waiting for its status.
Mutable == oLb.prov = "ACTIVE" /\ ~unanswered

\* Ids are never used again, so the id of a new resource occurs in no row.
UnusedListener(l) == /\ ~Exists(oListener[l])
                     /\ \A r \in live, b \in BOOLEAN :
                           <<l, b>> \notin rows[r].listeners
UnusedPool(p) == /\ ~Exists(oPool[p])
                 /\ \A r \in live, b \in BOOLEAN :
                       /\ <<p, b>> \notin rows[r].pools
                       /\ \A k \in ListenerKey : <<p, b>> \notin rows[r].refs[k]
UnusedMember(m) == /\ ~Exists(oMember[m])
                   /\ \A r \in live, k \in PoolKey : m \notin rows[r].members[k]

Init ==
    /\ live = {}
    /\ rows = [r \in Row |-> BlankRow]
    /\ oLb = AbsentLb
    /\ oListener = [l \in Listener |-> AbsentListener]
    /\ oPool = [p \in Pool |-> AbsentChild]
    /\ oMember = [m \in Member |-> AbsentChild]
    /\ unanswered = FALSE

-----------------------------------------------------------------------------
(* Load balancer                                                           *)

\* The VIP port exists by the time of the request; the handler deletes it when
\* it reports ERROR.
LbCreate(up) ==
    /\ oLb = AbsentLb
    /\ ~unanswered
    /\ \/ /\ \E r \in Row : Put(r, NewRow(NoProtocol, up))
          /\ oLb' = [prov |-> "ACTIVE", up |-> up, vipPort |-> TRUE]
       \/ /\ "txn" \in Failures
          /\ oLb' = [prov |-> "ERROR", up |-> up, vipPort |-> FALSE]
          /\ UNCHANGED <<live, rows>>
       \/ /\ "later" \in Failures
          /\ \E r \in Row : Put(r, NewRow(NoProtocol, up))
          /\ oLb' = [prov |-> "ERROR", up |-> up, vipPort |-> FALSE]
    /\ UNCHANGED <<oListener, oPool, oMember, unanswered>>

\* Only rows whose 'enabled' differs are written; each is a transaction, and a
\* failure leaves the rows after it as they were.
LbUpdate(up) ==
    LET differing == {r \in live : rows[r].enabled # up}
    IN  /\ Mutable
        /\ \E done \in SUBSET differing :
              /\ done = differing \/ "txn" \in Failures
              /\ rows' = [r \in Row |->
                    IF r \in done
                    THEN Refresh([rows[r] EXCEPT !.enabled = up])
                    ELSE rows[r]]
              /\ oLb' = [oLb EXCEPT !.up = up,
                            !.prov = IF done = differing THEN "ACTIVE"
                                                         ELSE "ERROR"]
        /\ UNCHANGED <<live, oListener, oPool, oMember, unanswered>>

\* A cascading deletion first deletes the members of each row, as member_delete
\* does.  That stops at a row whose statuses cannot be computed, after one member.
Shed(row) ==
    LET listed == UNION {row.members[k] : k \in row.pools}
    IN  [row EXCEPT !.members = [k \in PoolKey |-> {}],
                    !.status = [m \in Member |->
                                   IF m \in listed THEN "none" ELSE @[m]]]

OneGone(row) ==
    UNION {{[row EXCEPT !.members[k] = @ \ {m}, !.status[m] = "none"] :
               m \in row.members[k]} : k \in row.pools}

Blocked(row) == StatusRaises(row) /\ \E k \in row.pools : row.members[k] # {}

\* Listeners and pools are noted as DELETED while the keys of the row are walked
\* over, in no particular order; members go with their pool.
Keyed(row) == {k[1] : k \in row.listeners \cup row.pools}
PassedBefore(row) == {k[1] : k \in row.listeners}
                     \cup {k[1] : k \in {x \in row.pools : row.members[x] = {}}}

\* How a row may be left by a deletion that stops at it, and what of it was noted.
Stopped(row, cascade) ==
    IF cascade /\ Blocked(row)
    THEN {[row |-> one, noted |-> noted] :
             one \in OneGone(row), noted \in SUBSET PassedBefore(row)}
    ELSE IF "txn" \in Failures
    THEN {[row |-> IF cascade THEN Shed(row) ELSE row, noted |-> Keyed(row)]}
    ELSE {}

\* Mutated: one row is looked for and deleted.
OneRowGoes ==
    \E r \in live : live' = live \ {r} /\ rows' = [rows EXCEPT ![r] = BlankRow]

AllRowsGo == live' = {} /\ rows' = [r \in Row |-> BlankRow]

RowsGoUntil(done, r, row) ==
    /\ live' = live \ done
    /\ rows' = [d \in Row |-> IF d \in done THEN BlankRow
                              ELSE IF d = r THEN Refresh(row) ELSE rows[d]]

\* The status of a deletion that failed still says DELETED of what was noted.
DeletionFails(noted) ==
    /\ oLb' = [oLb EXCEPT !.prov = "ERROR"]
    /\ oListener' = [l \in Listener |->
          IF l \in noted THEN AbsentListener
          ELSE IF oListener[l].pool \in noted
          THEN [oListener[l] EXCEPT !.pool = None] ELSE oListener[l]]
    /\ oPool' = [p \in Pool |-> IF p \in noted THEN AbsentChild ELSE oPool[p]]
    /\ oMember' = [m \in Member |->
          IF PoolOf[m] \in noted THEN AbsentChild ELSE oMember[m]]

\* Without cascade Octavia refuses while there are children (so that there is
\* nothing to note).  With "later" the VIP port could not be deleted.
LbDelete(cascade) ==
    LET passable(S) == \A d \in S : cascade => ~Blocked(rows[d])
        noted(S) == UNION {Keyed(rows[d]) : d \in S}
    IN  /\ oLb.prov # "ABSENT"
        /\ ~unanswered
        /\ cascade \/ ( /\ \A l \in Listener : ~Exists(oListener[l])
                        /\ \A p \in Pool : ~Exists(oPool[p]) )
        /\ \/ /\ passable(live)
              /\ AllRowsGo
              /\ "later" \in Failures /\ DeletionFails(noted(live))
           \/ /\ passable(live)
              /\ AllRowsGo
              /\ oLb' = AbsentLb
              /\ oListener' = [l \in Listener |-> AbsentListener]
              /\ oPool' = [p \in Pool |-> AbsentChild]
              /\ oMember' = [m \in Member |-> AbsentChild]
           \/ \E done \in SUBSET live : \E r \in live \ done :
              \E stop \in Stopped(rows[r], cascade) :
              /\ passable(done)
              /\ RowsGoUntil(done, r, stop.row)
              /\ DeletionFails(noted(done) \cup stop.noted)
        /\ UNCHANGED unanswered

-----------------------------------------------------------------------------
(* Listeners                                                               *)

\* What remains to be done when the row could not be found or made: nothing is
\* caught, no status is sent.  If lb_create was at work the VIP port is gone.
ObtainFails(proto) ==
    /\ "txn" \in Failures
    /\ \A r \in live : rows[r].protocol # proto
    /\ unanswered' = TRUE
    /\ oLb' \in IF \E r \in live : rows[r].protocol = NoProtocol
                THEN {oLb} ELSE {oLb, [oLb EXCEPT !.vipPort = FALSE]}
    /\ UNCHANGED <<live, rows>>

ListenerCreate(l, up, dp) ==
    LET key == <<l, up>>
        ref == IF dp = None THEN {} ELSE {<<dp, TRUE>>}
        record(prov) == [prov |-> prov, up |-> up, pool |-> dp]
    IN  /\ Mutable
        /\ UnusedListener(l)
        /\ dp # None => Exists(oPool[dp]) /\ ProtocolOf[dp] = ProtocolOf[l]
        /\ \/ \E o \in Obtain(ProtocolOf[l], up) :
                /\ \/ /\ Put(o.id, Refresh(PutListener(o.row, key, ref)))
                      /\ oListener' = [oListener EXCEPT ![l] = record("ACTIVE")]
                   \/ /\ "txn" \in Failures
                      /\ Put(o.id, o.row)
                      /\ oListener' = [oListener EXCEPT ![l] = record("ERROR")]
                /\ oLb' = [oLb EXCEPT !.vipPort = o.port]
                /\ UNCHANGED unanswered
           \/ /\ ObtainFails(ProtocolOf[l])
              /\ oListener' = [oListener EXCEPT ![l] = record("ACTIVE")]
        /\ UNCHANGED <<oPool, oMember>>

\* Only the plain key of the listener is looked for.
ListenerDelete(l) ==
    LET key == <<l, TRUE>>
        found == {r \in FindRow(ProtocolOf[l]) : key \in rows[r].listeners}
        gone == oListener' = [oListener EXCEPT ![l] = AbsentListener]
    IN  /\ Mutable
        /\ Exists(oListener[l])
        /\ \/ /\ found = {}
              /\ gone
              /\ UNCHANGED <<live, rows>>
           \/ \E r \in found :
              LET row == DropListener(rows[r], key)
              IN  PutOrClean(r, Refresh(row), row) /\ gone
           \/ /\ found # {}
              /\ "txn" \in Failures
              /\ oListener' = [oListener EXCEPT ![l].prov = "ERROR"]
              /\ UNCHANGED <<live, rows>>
        /\ UNCHANGED <<oLb, oPool, oMember, unanswered>>

\* up and dp are optional.
ListenerUpdate(l, up, dp) ==
    LET found == FindRow(ProtocolOf[l])
        present(row) == {k \in {<<l, TRUE>>, <<l, FALSE>>} : k \in row.listeners}
        asked(prov) == [oListener EXCEPT ![l] =
            [prov |-> prov, up |-> Given(up, @.up), pool |-> Given(dp, @.pool)]]
    IN  /\ Mutable
        /\ Exists(oListener[l])
        /\ \A p \in dp \ {None} :
              Exists(oPool[p]) /\ ProtocolOf[p] = ProtocolOf[l]
        /\ \/ /\ found = {}                 \* "That is a problem"
              /\ oListener' = asked("ERROR")
              /\ oLb' = [oLb EXCEPT !.prov = "ERROR"]
              /\ UNCHANGED <<live, rows>>
           \/ \E r \in found :
              LET keys == present(rows[r])
                  k == IF <<l, TRUE>> \in keys THEN <<l, TRUE>> ELSE <<l, FALSE>>
              IN  /\ \/ /\ keys # {} /\ (up # {} \/ dp # {})
                        /\ Put(r, ListenerMoved(rows[r], k, up, dp))
                        /\ oListener' = asked("ACTIVE")
                     \/ /\ keys = {} \/ (up = {} /\ dp = {})
                        /\ oListener' = asked("ACTIVE")
                        /\ UNCHANGED <<live, rows>>
                     \/ /\ keys # {} /\ (up # {} \/ dp # {})
                        /\ "txn" \in Failures
                        /\ oListener' = asked("ERROR")
                        /\ UNCHANGED <<live, rows>>
                  /\ UNCHANGED oLb
        /\ UNCHANGED <<oPool, oMember, unanswered>>

-----------------------------------------------------------------------------
(* Pools                                                                   *)

\* With a listener the pool becomes its default: the key is appended to the
\* listener's value, if the listener has its plain key.  vips are not refreshed.
PoolCreate(p, up, l) ==
    LET key == <<p, up>>
        lkey == <<l, TRUE>>
        attached(row) == IF l # None /\ lkey \in row.listeners
                         THEN [row EXCEPT !.refs[lkey] = @ \cup {key}] ELSE row
        record(prov) == [prov |-> prov, up |-> up]
    IN  /\ Mutable
        /\ UnusedPool(p)
        /\ l # None => /\ AttachAtPoolCreate
                       /\ Exists(oListener[l])
                       /\ oListener[l].pool = None
                       /\ ProtocolOf[l] = ProtocolOf[p]
        /\ \/ \E o \in Obtain(ProtocolOf[p], up) :
                /\ \/ /\ Put(o.id, PutPool(attached(o.row), key, {}))
                      /\ oPool' = [oPool EXCEPT ![p] = record("ACTIVE")]
                   \/ /\ "txn" \in Failures
                      /\ Put(o.id, o.row)
                      /\ oPool' = [oPool EXCEPT ![p] = record("ERROR")]
                /\ oLb' = [oLb EXCEPT !.vipPort = o.port]
                /\ UNCHANGED unanswered
           \/ /\ ObtainFails(ProtocolOf[p])
              /\ oPool' = [oPool EXCEPT ![p] = record("ACTIVE")]
        /\ oListener' = [k \in Listener |->
              IF k = l THEN [oListener[k] EXCEPT !.pool = p] ELSE oListener[k]]
        /\ UNCHANGED oMember

\* The driver asks for the deletion of the members first, so they are gone or
\* their deletion failed.  The plain key goes, then the listeners are detached, then the
\* suffixed key goes; whether the row is empty is decided on a copy of the
\* external_ids from which only the plain key was taken.
PoolDelete(p) ==
    LET found == FindRow(ProtocolOf[p])
        plain(row) == IF <<p, TRUE>> \in row.pools
                      THEN Refresh(DropPool(row, <<p, TRUE>>)) ELSE row
        believed(row) == DetachPool(plain(row), p)
        gone == /\ oPool' = [oPool EXCEPT ![p] = AbsentChild]
                /\ oListener' = [l \in Listener |->
                      IF oListener[l].pool = p
                      THEN [oListener[l] EXCEPT !.pool = None] ELSE oListener[l]]
                /\ oMember' = [m \in Member |->
                      IF PoolOf[m] = p THEN AbsentChild ELSE oMember[m]]
    IN  /\ Mutable
        /\ Exists(oPool[p])
        /\ \A m \in Member : PoolOf[m] = p =>
              oMember[m].prov \in {"ABSENT", "DELETE_ERROR"}
        /\ \/ found = {} /\ gone /\ UNCHANGED <<live, rows>>
           \/ \E r \in found :
              /\ PutOrClean(r, DropPool(believed(rows[r]), <<p, FALSE>>),
                            believed(rows[r]))
              /\ gone
           \/ /\ found # {}
              /\ "txn" \in Failures
              /\ oPool' = [oPool EXCEPT ![p].prov = "ERROR"]
              /\ UNCHANGED <<live, rows, oListener, oMember>>
        /\ UNCHANGED <<oLb, unanswered>>

\* up is optional: a request that only sets session persistence is carried out
\* and then reported as an ERROR, for the status wants an admin_state_up.
PoolUpdate(p, up) ==
    LET found == FindRow(ProtocolOf[p])
        old == <<p, ~Given(up, TRUE)>>
        new == <<p, Given(up, TRUE)>>
        asked(prov) == [oPool EXCEPT ![p] = [prov |-> prov, up |-> Given(up, @.up)]]
    IN  /\ Mutable
        /\ Exists(oPool[p])
        /\ \/ /\ found = {}
              /\ oPool' = asked("ERROR")
              /\ oLb' = [oLb EXCEPT !.prov = "ERROR"]
              /\ UNCHANGED <<live, rows>>
           \/ \E r \in found :
              /\ UNCHANGED oLb
              /\ \/ /\ up # {} /\ old \in rows[r].pools
                    /\ Put(r, PoolSwitched(rows[r], old, new))
                    /\ oPool' = asked("ACTIVE")
                 \/ /\ up # {} /\ old \notin rows[r].pools
                    /\ oPool' = asked("ACTIVE")
                    /\ UNCHANGED <<live, rows>>
                 \/ /\ up = {} \/ ("txn" \in Failures /\ old \in rows[r].pools)
                    /\ oPool' = asked("ERROR")
                    /\ UNCHANGED <<live, rows>>
        /\ UNCHANGED <<oListener, oMember, unanswered>>

-----------------------------------------------------------------------------
(* Members                                                                 *)

\* The last step of every member handler: the statuses of the whole row are
\* computed and sent.  When that raises nothing is sent.
Report(row, m, record) ==
    /\ unanswered' = StatusRaises(row)
    /\ oMember' = [oMember EXCEPT ![m] = record]

\* The pool is in no row: the handler trips over the missing row at its end.
MemberRowMissing(m, record) ==
    /\ PoolRows(PoolOf[m]) = {}
    /\ unanswered' = TRUE
    /\ oMember' = [oMember EXCEPT ![m] = record]
    /\ UNCHANGED <<live, rows>>

\* The OFFLINE status of a member created disabled, written after it joined, is
\* what keeps it out of the next refresh.  A failure shows in the member's
\* status only.
MemberCreate(m, up) ==
    LET record == [prov |-> "ACTIVE", up |-> up]
        marked(row, status) == SetStatus(row, m, IF up THEN status ELSE "OFFLINE")
    IN  /\ Mutable
        /\ UnusedMember(m)
        /\ Exists(oPool[PoolOf[m]])
        /\ \/ MemberRowMissing(m, record)
           \/ \E rk \in PoolRows(PoolOf[m]) :
              LET joined == MemberJoined(rows[rk[1]], rk[2], m, up)
                  row == rows[rk[1]]
                  Ends(row1) == Put(rk[1], row1) /\ Report(row1, m, record)
              IN  \/ Ends(marked(joined, "NO_MONITOR"))
                  \/ "txn" \in Failures /\ Ends(marked(row, "ERROR"))
                  \/ "later" \in Failures /\ Ends(marked(joined, "ERROR"))
        /\ UNCHANGED <<oLb, oListener, oPool>>

\* The status of the member is forgotten even when its removal failed.
MemberDelete(m) ==
    LET failed == [oMember[m] EXCEPT !.prov = "DELETE_ERROR"]
    IN  /\ Mutable
        /\ Exists(oMember[m])
        /\ \/ MemberRowMissing(m, oMember[m])
           \/ \E rk \in PoolRows(PoolOf[m]) :
              LET row == rows[rk[1]]
                  k == rk[2]
                  left == MemberLeft(row, k, m)
              IN  \/ /\ Put(rk[1], Forget(left, m))
                     /\ Report(left, m, AbsentChild)
                  \/ /\ "txn" \in Failures /\ m \in row.members[k]
                     /\ Put(rk[1], Forget(row, m))
                     /\ Report(row, m, failed)
                  \/ /\ "later" \in Failures /\ m \in row.members[k]
                     /\ Put(rk[1], Forget(left, m))
                     /\ Report(row, m, failed)
        /\ UNCHANGED <<oLb, oListener, oPool>>

\* The status is written first; vips are refreshed, in a transaction of its own,
\* only if the stored status changed from or to OFFLINE.
MemberUpdate(m, up) ==
    LET status(row) == SetStatus(row, m, IF Given(up, TRUE) THEN "NO_MONITOR"
                                                            ELSE "OFFLINE")
        toggled(row) == (row.status[m] = "OFFLINE") = Given(up, TRUE)
        asked(prov) == [prov |-> prov, up |-> Given(up, oMember[m].up)]
    IN  /\ Mutable
        /\ Exists(oMember[m])
        /\ \/ MemberRowMissing(m, asked("ACTIVE"))
           \/ \E rk \in PoolRows(PoolOf[m]) :
              LET r == rk[1]
                  row == rows[r]
              IN  \/ /\ up = {}
                     /\ Put(r, row) /\ Report(row, m, asked("ACTIVE"))
                  \/ /\ up # {} /\ toggled(row)
                     /\ Put(r, Refresh(status(row)))
                     /\ Report(row, m, asked("ACTIVE"))
                  \/ /\ up # {} /\ ~toggled(row)
                     /\ Put(r, status(row)) /\ Report(row, m, asked("ACTIVE"))
                  \/ /\ up # {} /\ toggled(row) /\ "later" \in Failures
                     /\ Put(r, status(row)) /\ Report(row, m, asked("ERROR"))
        /\ UNCHANGED <<oLb, oListener, oPool>>

-----------------------------------------------------------------------------
Next ==
    \/ \E up \in CreateStates : LbCreate(up)
    \/ \E up \in BOOLEAN : LbUpdate(up)
    \/ \E cascade \in BOOLEAN : LbDelete(cascade)
    \/ \E l \in Listener :
          \/ \E up \in CreateStates, dp \in Pool \cup {None} :
                ListenerCreate(l, up, dp)
          \/ \E up \in Opt(BOOLEAN), dp \in Opt(Pool \cup {None}) :
                ListenerUpdate(l, up, dp)
          \/ ListenerDelete(l)
    \/ \E p \in Pool :
          \/ \E up \in CreateStates, l \in Listener \cup {None} :
                PoolCreate(p, up, l)
          \/ \E up \in Opt(BOOLEAN) : PoolUpdate(p, up)
          \/ PoolDelete(p)
    \/ \E m \in Member :
          \/ \E up \in CreateStates : MemberCreate(m, up)
          \/ \E up \in Opt(BOOLEAN) : MemberUpdate(m, up)
          \/ MemberDelete(m)

Spec == Init /\ [][Next]_vars

-----------------------------------------------------------------------------
(* What the rows promise                                                   *)

ServiceUp == oLb.prov = "ACTIVE" /\ oLb.up

\* The backends the VIP forwards a listener's port to, in whichever row.
Backends(l) == UNION {rows[r].vips[l] : r \in live}

\* Every variable keeps its type: the shape of a Load_Balancer row and of
\* Octavia's records.
TypeOK ==
    /\ live \subseteq Row
    /\ rows \in [Row -> RowContents]
    /\ oLb \in LbRecord
    /\ oListener \in [Listener -> ListenerRecord]
    /\ oPool \in [Pool -> ChildRecord]
    /\ oMember \in [Member -> ChildRecord]
    /\ unanswered \in BOOLEAN

\* Two rows of one load balancer carry different protocols and neither is
\* without one: _find_ovn_lbs reads lb.protocol[0] of each row and returns the
\* first that matches.
ProtocolsDistinct ==
    \A r, s \in live : r # s =>
        /\ rows[r].protocol # NoProtocol
        /\ rows[r].protocol # rows[s].protocol

\* A load balancer that is gone, or that never was, has no row left to forward
\* anything (lb_delete walks over the rows of every protocol).
DeletedLeavesNothing == oLb.prov = "ABSENT" => live = {}

\* A listener or a pool has at most one key: never plain and suffixed at once,
\* never in two rows, and only in a row of its protocol (listener_update and
\* pool_update move keys, _get_or_create_ovn_lb chooses the row).
OneKey ==
    \A r \in live :
        /\ \A k \in rows[r].listeners :
              /\ <<k[1], ~k[2]>> \notin rows[r].listeners
              /\ rows[r].protocol = ProtocolOf[k[1]]
        /\ \A k \in rows[r].pools :
              /\ <<k[1], ~k[2]>> \notin rows[r].pools
              /\ rows[r].protocol = ProtocolOf[k[1]]

\* The vips column is what _frame_vip_ips makes of the external_ids: no handler
\* changes one of its inputs and forgets the refresh.
VipsFresh == \A r \in live : rows[r].vips = FrameVips(rows[r])

\* Whatever is forwarded was configured and is enabled: listener_delete,
\* pool_delete, member_delete and every disabling take effect on the VIP.  (Not so
\* once lb_delete failed: it reports children DELETED whose row it left behind.)
ServedIsConfigured ==
    oLb.prov = "ACTIVE" => \A l \in Listener : \A m \in Backends(l) :
        /\ oListener[l].up
        /\ oListener[l].pool = PoolOf[m]
        /\ oPool[PoolOf[m]].up
        /\ oMember[m].up

\* Whatever is configured and enabled is forwarded.
ConfiguredIsServed ==
    ServiceUp /\ ~unanswered =>
        \A m \in Member, l \in Listener :
            /\ oMember[m].up
            /\ oPool[PoolOf[m]].up
            /\ oListener[l].up
            /\ oListener[l].pool = PoolOf[m]
            => m \in Backends(l)

\* pool_delete leaves neither the pool's key nor a listener that names it (in a
\* load balancer whose deletion did not fail).
DeletedPoolForgotten ==
    oLb.prov = "ACTIVE" =>
        \A r \in live, p \in Pool, b \in BOOLEAN : ~Exists(oPool[p]) =>
            /\ <<p, b>> \notin rows[r].pools
            /\ \A k \in rows[r].listeners : <<p, b>> \notin rows[r].refs[k]

\* neutron:member_status has an entry for members Octavia knows, in the row
\* that holds their pool: every entry is reported to Octavia with the rest (in a
\* load balancer whose deletion did not fail).
MemberStatusBelongs ==
    oLb.prov = "ACTIVE" =>
        \A r \in live, m \in Member : rows[r].status[m] # "none" =>
            /\ Exists(oMember[m])
            /\ \E b \in BOOLEAN : <<PoolOf[m], b>> \in rows[r].pools

-----------------------------------------------------------------------------
(* What a comment says, and the code does not do                           *)

\* "It is important to report the status to octavia" (lb_create).
EveryRequestAnswered == ~unanswered
=============================================================================
