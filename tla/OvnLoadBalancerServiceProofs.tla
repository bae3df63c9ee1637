-------------------- MODULE OvnLoadBalancerServiceProofs --------------------
(***************************************************************************)
(* What the VIP forwards while no database call fails.  The inductive      *)
(* invariant adds two facts to KInv of OvnLoadBalancerProofs:              *)
(*   - VipsFresh: the vips column is what _frame_vip_ips would make of the *)
(*     row now, though not every handler refreshes it;                     *)
(*   - Agreement: the keys of the rows agree with Octavia's records.  A    *)
(*     plain key means enabled, a listener names its default pool or none, *)
(*     a member stands under the key of its pool, and a member that is     *)
(*     disabled has the status OFFLINE.                                    *)
(* VipsFresh alone is not inductive: pool_create may append a pool to the  *)
(* value of a listener without a refresh because the listener had none,    *)
(* and member_delete may drop an OFFLINE status because the member left.   *)
(***************************************************************************)
EXTENDS OvnLoadBalancerProofs

ListenersAgree(row, listeners) ==
    \A k \in row.listeners :
        /\ Exists(listeners[k[1]]) =>
              \A x \in row.refs[k] : x[1] \in {None, listeners[k[1]].pool}
        /\ k[2] => Exists(listeners[k[1]]) /\ listeners[k[1]].up

PoolsAgree(row, pools) == \A k \in row.pools : k[2] => pools[k[1]].up

MembersAgree(row, members) ==
    \A k \in row.pools : \A m \in row.members[k] :
        /\ PoolOf[m] = k[1]
        /\ Exists(members[m])
        /\ row.status[m] # "OFFLINE" => members[m].up

Agrees(row, listeners, pools, members) ==
    /\ ListenersAgree(row, listeners)
    /\ PoolsAgree(row, pools)
    /\ MembersAgree(row, members)

Agreement == oLb.prov = "ACTIVE" =>
    \A r \in live : Agrees(rows[r], oListener, oPool, oMember)

SInv == KInv /\ Agreement /\ VipsFresh

-----------------------------------------------------------------------------
(* Freshness of a row                                                      *)

Fresh(row) == row.vips = FrameVips(row)

\* What _frame_vip_ips decides of listener l and member m.
Serves(row, l, m) ==
    /\ row.enabled
    /\ row.status[m] # "OFFLINE"
    /\ \E k \in PoolKey : Routes(row, l, k) /\ m \in row.members[k]

LEMMA FrameVipsServes ==
    ASSUME NEW a, NEW b,
           \A l \in Listener, m \in Member : Serves(a, l, m) <=> Serves(b, l, m)
    PROVE  FrameVips(a) = FrameVips(b)
BY DEF FrameVips, Serves

\* A row whose vips nobody touched stays fresh if nothing they say changed.
LEMMA StaysFresh ==
    ASSUME NEW row, Fresh(row), NEW new, new.vips = row.vips,
           \A l \in Listener, m \in Member : Serves(new, l, m) <=> Serves(row, l, m)
    PROVE  Fresh(new)
BY FrameVipsServes DEF Fresh

\* Everything the vips are derived from.
SameInputs(a, b) ==
    SameRecords(a, b) /\ a.members = b.members /\ a.enabled = b.enabled

LEMMA SameServes ==
    ASSUME NEW a, NEW b, SameInputs(a, b), NEW l, NEW m
    PROVE  Serves(a, l, m) <=> Serves(b, l, m)
BY DEF SameInputs, SameRecords, Serves, Routes

LEMMA RefreshFresh ==
    ASSUME NEW row \in RowContents
    PROVE  Fresh(Refresh(row)) /\ SameInputs(Refresh(row), row)
<1>. DEFINE new == Refresh(row)
<1>1. SameInputs(new, row) /\ new.vips = FrameVips(row)
  BY DEF Refresh, RowContents, SameInputs, SameRecords
<1>. HIDE DEF new
<1>2. FrameVips(new) = FrameVips(row)
  BY <1>1, SameServes, FrameVipsServes
<1>. QED  BY <1>1, <1>2 DEF Fresh, new

LEMMA FreshNewRow ==
    ASSUME NEW proto, NEW up
    PROVE  Fresh(NewRow(proto, up))
<1>. DEFINE new == NewRow(proto, up)
<1>1. new.listeners = {} /\ new.vips = [l \in Listener |-> {}]
  BY DEF NewRow
<1>2. \A l \in Listener, m \in Member : ~Serves(new, l, m)
  <2>. HIDE DEF new
  <2>. QED  BY <1>1 DEF Serves, Routes
<1>3. FrameVips(new) = [l \in Listener |-> {}]
  <2>. HIDE DEF new
  <2>. QED  BY <1>2 DEF FrameVips, Serves
<1>. QED  BY <1>1, <1>3 DEF Fresh

-----------------------------------------------------------------------------
(* Agreement of a row                                                      *)

LEMMA AgreesSame ==
    ASSUME NEW a, NEW b, SameRecords(a, b), a.members = b.members,
           NEW L, NEW P, NEW M, Agrees(b, L, P, M)
    PROVE  Agrees(a, L, P, M)
BY DEF SameRecords, Agrees, ListenersAgree, PoolsAgree, MembersAgree

LEMMA AgreesNewRow ==
    ASSUME NEW proto, NEW up, NEW L, NEW P, NEW M
    PROVE  Agrees(NewRow(proto, up), L, P, M)
BY DEF NewRow, Agrees, ListenersAgree, PoolsAgree, MembersAgree

\* Records of resources that the row does not mention may change.
LEMMA ListenersAgreeStill ==
    ASSUME NEW row, NEW L, NEW L2, ListenersAgree(row, L),
           \A k \in row.listeners : L2[k[1]] = L[k[1]]
    PROVE  ListenersAgree(row, L2)
BY DEF ListenersAgree

LEMMA PoolsAgreeStill ==
    ASSUME NEW row, NEW P, NEW P2, PoolsAgree(row, P),
           \A k \in row.pools : P2[k[1]] = P[k[1]]
    PROVE  PoolsAgree(row, P2)
BY DEF PoolsAgree

LEMMA MembersAgreeStill ==
    ASSUME NEW row, NEW M, NEW M2, MembersAgree(row, M),
           \A k \in row.pools : \A m \in row.members[k] : M2[m] = M[m]
    PROVE  MembersAgree(row, M2)
BY DEF MembersAgree

-----------------------------------------------------------------------------
(* What the operators make of the other columns                            *)

LEMMA PutListenerRest ==
    ASSUME NEW row \in RowContents, NEW k, NEW refs
    PROVE  PutListener(row, k, refs).members = row.members
BY DEF PutListener, RowContents

LEMMA DropListenerRest ==
    ASSUME NEW row \in RowContents, NEW k
    PROVE  DropListener(row, k).members = row.members
BY DEF DropListener, RowContents

LEMMA PutPoolRest ==
    ASSUME NEW row \in RowContents, NEW k \in PoolKey, NEW mems
    PROVE  LET new == PutPool(row, k, mems)
           IN  /\ new.members[k] = mems
               /\ \A x \in PoolKey \ {k} : new.members[x] = row.members[x]
               /\ new.enabled = row.enabled /\ new.vips = row.vips
BY DEF PutPool, RowContents

LEMMA DropPoolRest ==
    ASSUME NEW row \in RowContents, NEW k \in PoolKey
    PROVE  LET new == DropPool(row, k)
           IN  /\ \A x \in PoolKey \ {k} : new.members[x] = row.members[x]
               /\ new.members[k] = {}
               /\ new.enabled = row.enabled /\ new.vips = row.vips
BY DEF DropPool, RowContents

LEMMA DetachPoolRest ==
    ASSUME NEW row \in RowContents, NEW p
    PROVE  LET new == DetachPool(row, p)
           IN  /\ new.members = row.members
               /\ new.enabled = row.enabled /\ new.vips = row.vips
BY DEF DetachPool, RowContents

LEMMA SetStatusRest ==
    ASSUME NEW row \in RowContents, NEW m \in Member, NEW status
    PROVE  LET new == SetStatus(row, m, status)
           IN  /\ new.pools = row.pools /\ new.listeners = row.listeners
               /\ new.refs = row.refs /\ new.members = row.members
               /\ new.enabled = row.enabled /\ new.vips = row.vips
               /\ new.status[m] = status
               /\ \A x \in Member \ {m} : new.status[x] = row.status[x]
BY DEF SetStatus, RowContents

LEMMA ForgetIsSetStatus ==
    ASSUME NEW row, NEW m
    PROVE  Forget(row, m) = SetStatus(row, m, "none")
BY DEF Forget, SetStatus

-----------------------------------------------------------------------------
(* Writing rows                                                            *)

LEMMA FreshNext ==
    ASSUME \A r \in live' : Fresh(rows'[r])
    PROVE  VipsFresh'
BY DEF VipsFresh, Fresh, FrameVips, Routes

LEMMA PutServes ==
    ASSUME RowsOK, VipsFresh, NEW r \in Row, NEW row, Put(r, row), Fresh(row),
           NEW L, NEW P, NEW M, Agrees(row, L, P, M),
           \A s \in live \ {r} : Agrees(rows[s], L, P, M)
    PROVE  VipsFresh' /\ \A s \in live' : Agrees(rows'[s], L, P, M)
<1>1. /\ live' = live \cup {r} /\ rows'[r] = row
      /\ \A s \in live \ {r} : rows'[s] = rows[s]
  BY DEF Put, RowsOK
<1>2. \A s \in live' : Fresh(rows'[s])
  BY <1>1 DEF VipsFresh, Fresh
<1>. QED  BY <1>1, <1>2, FreshNext

LEMMA PutOrCleanServes ==
    ASSUME RowsOK, VipsFresh, NEW r \in live, NEW row \in RowContents, NEW left,
           PutOrClean(r, row, left), Fresh(row),
           NEW L, NEW P, NEW M, Agrees(row, L, P, M),
           \A s \in live \ {r} : Agrees(rows[s], L, P, M)
    PROVE  VipsFresh' /\ \A s \in live' : Agrees(rows'[s], L, P, M)
<1>. r \in Row
  BY DEF RowsOK
<1>1. CASE Put(r, row)
  BY <1>1, PutServes
<1>2. CASE Put(r, [row EXCEPT !.protocol = NoProtocol])
  <2>. DEFINE clean == [row EXCEPT !.protocol = NoProtocol]
  <2>1. SameInputs(clean, row) /\ clean.vips = row.vips
    BY DEF SameInputs, SameRecords, RowContents
  <2>. HIDE DEF clean
  <2>2. Fresh(clean) /\ Agrees(clean, L, P, M)
    BY <2>1, SameServes, StaysFresh, AgreesSame DEF SameInputs
  <2>. QED  BY <1>2, <2>2, PutServes DEF clean
<1>3. CASE live' = live \ {r} /\ rows' = [rows EXCEPT ![r] = BlankRow]
  <2>1. \A s \in live' : s \in live \ {r} /\ rows'[s] = rows[s]
    BY <1>3 DEF RowsOK
  <2>2. VipsFresh'
    BY <2>1, FreshNext DEF VipsFresh, Fresh
  <2>. QED  BY <2>1, <2>2
<1>. QED  BY <1>1, <1>2, <1>3 DEF PutOrClean

LEMMA UnchangedFresh ==
    ASSUME VipsFresh, UNCHANGED <<live, rows>>
    PROVE  VipsFresh'
BY FreshNext DEF VipsFresh, Fresh

\* What a handler may rely on.
LEMMA ActiveServes ==
    ASSUME SInv, oLb.prov = "ACTIVE"
    PROVE  /\ KInv /\ IInv /\ RowsOK /\ OctaviaOK /\ VipsFresh
           /\ \A r \in live :
                 /\ r \in Row /\ rows[r] \in RowContents
                 /\ RowKeysOK(rows[r])
                 /\ Known(rows[r], KnownPools, KnownMembers)
                 /\ Fresh(rows[r])
                 /\ Agrees(rows[r], oListener, oPool, oMember)
BY ActiveKnows DEF SInv, Agreement, VipsFresh, Fresh

\* The row _get_or_create_ovn_lb returns: the inputs of an old row, or none.
LEMMA ObtainInputs ==
    ASSUME SInv, oLb.prov = "ACTIVE", NEW proto \in Protocol, NEW up \in BOOLEAN,
           NEW o \in Obtain(proto, up)
    PROVE  /\ Fresh(o.row) /\ Agrees(o.row, oListener, oPool, oMember)
           /\ \/ o.id \in live /\ SameInputs(o.row, rows[o.id])
              \/ o.row = NewRow(proto, up)
<1>1. \/ /\ o.id \in live
         /\ o.row \in {rows[o.id], [rows[o.id] EXCEPT !.protocol = proto]}
      \/ o.row = NewRow(proto, up)
  <2>. DEFINE same  == {r \in live : rows[r].protocol = proto}
              unset == {r \in live : rows[r].protocol = NoProtocol}
  <2>1. CASE same # {}
    BY <2>1 DEF Obtain
  <2>2. CASE same = {} /\ unset # {}
    BY <2>2 DEF Obtain
  <2>3. CASE same = {} /\ unset = {}
    <3>. DEFINE fresh == IF live = {} THEN {} ELSE Row \ live
                ports == IF "later" \in Failures THEN {oLb.vipPort, FALSE}
                                                 ELSE {oLb.vipPort}
    <3>1. o \in NewRows(proto, up)
      BY <2>3 DEF Obtain
    <3>2. NewRows(proto, up) = {[id |-> r, row |-> NewRow(proto, up), port |-> port] :
                                   r \in fresh, port \in ports}
      BY DEF NewRows
    <3>. HIDE DEF fresh, ports
    <3>. QED  BY <3>1, <3>2
  <2>. QED  BY <2>1, <2>2, <2>3
<1>2. ASSUME o.id \in live,
             o.row \in {rows[o.id], [rows[o.id] EXCEPT !.protocol = proto]}
      PROVE  /\ Fresh(o.row) /\ Agrees(o.row, oListener, oPool, oMember)
             /\ SameInputs(o.row, rows[o.id])
  <2>. DEFINE old == rows[o.id]
  <2>1. /\ old \in RowContents /\ Fresh(old)
        /\ Agrees(old, oListener, oPool, oMember)
    BY <1>2, ActiveServes
  <2>2. o.row \in {old, [old EXCEPT !.protocol = proto]}
    BY <1>2
  <2>. HIDE DEF old
  <2>3. SameInputs(o.row, old) /\ o.row.vips = old.vips
    BY <2>1, <2>2 DEF RowContents, SameInputs, SameRecords
  <2>4. Fresh(o.row) /\ Agrees(o.row, oListener, oPool, oMember)
    BY <2>1, <2>3, SameServes, StaysFresh, AgreesSame DEF SameInputs
  <2>. QED  BY <2>3, <2>4 DEF old
<1>. QED  BY <1>1, <1>2, FreshNewRow, AgreesNewRow

\* A handler that writes no row, when what the rows mention agrees as before.
LEMMA NothingPutServes ==
    ASSUME SInv, oLb.prov = "ACTIVE", UNCHANGED <<live, rows>>,
           \A s \in live : Agrees(rows[s], oListener', oPool', oMember')
    PROVE  Agreement' /\ VipsFresh'
BY ActiveServes, UnchangedFresh DEF Agreement

\* A handler that writes one row.
LEMMA OnePutServes ==
    ASSUME SInv, oLb.prov = "ACTIVE", NEW r \in Row, NEW row, Put(r, row),
           Fresh(row), Agrees(row, oListener', oPool', oMember'),
           \A s \in live \ {r} : Agrees(rows[s], oListener', oPool', oMember')
    PROVE  Agreement' /\ VipsFresh'
BY ActiveServes, PutServes DEF Agreement

\* A handler that writes one row and cleans up.
LEMMA OneCleanServes ==
    ASSUME SInv, oLb.prov = "ACTIVE", NEW r \in live, NEW row \in RowContents,
           NEW left, PutOrClean(r, row, left),
           Fresh(row), Agrees(row, oListener', oPool', oMember'),
           \A s \in live \ {r} : Agrees(rows[s], oListener', oPool', oMember')
    PROVE  Agreement' /\ VipsFresh'
BY ActiveServes, PutOrCleanServes DEF Agreement

-----------------------------------------------------------------------------
(* The handlers keep it                                                    *)

LEMMA LbCreateServes ==
    ASSUME SInv, NEW up \in BOOLEAN, LbCreate(up)
    PROVE  Agreement' /\ VipsFresh'
<1>1. RowsOK /\ VipsFresh /\ live = {}
  BY DEF SInv, KInv, IInv, LbCreate, DeletedLeavesNothing, AbsentLb
<1>2. \/ \E r \in Row : Put(r, NewRow(NoProtocol, up))
      \/ UNCHANGED <<live, rows>>
  BY DEF LbCreate
<1>3. CASE \E r \in Row : Put(r, NewRow(NoProtocol, up))
  <2>1. PICK r \in Row : Put(r, NewRow(NoProtocol, up))
    BY <1>3
  <2>. QED  BY <1>1, <2>1, FreshNewRow, AgreesNewRow, PutServes DEF Agreement
<1>. QED  BY <1>1, <1>2, <1>3, UnchangedFresh DEF Agreement

LEMMA LbUpdateServes ==
    ASSUME SInv, NEW up \in BOOLEAN, LbUpdate(up)
    PROVE  Agreement' /\ VipsFresh'
<1>1. oLb.prov = "ACTIVE" /\ UNCHANGED <<live, oListener, oPool, oMember>>
  BY DEF LbUpdate, Mutable
<1>2. ASSUME NEW r \in live
      PROVE  Fresh(rows'[r]) /\ Agrees(rows'[r], oListener, oPool, oMember)
  <2>. DEFINE old == rows[r]
              new == [old EXCEPT !.enabled = up]
  <2>1. /\ old \in RowContents /\ Fresh(old)
        /\ Agrees(old, oListener, oPool, oMember)
    BY <1>1, ActiveServes
  <2>2. rows'[r] = old \/ rows'[r] = Refresh(new)
    BY <1>1, ActiveServes DEF LbUpdate
  <2>. HIDE DEF old
  <2>3. /\ new \in RowContents /\ SameRecords(new, old)
        /\ new.members = old.members
    BY <2>1 DEF RowContents, SameRecords
  <2>. HIDE DEF new
  <2>4. /\ Fresh(Refresh(new))
        /\ Agrees(Refresh(new), oListener, oPool, oMember)
    BY <2>1, <2>3, RefreshFresh, AgreesSame DEF SameInputs
  <2>. QED  BY <2>1, <2>2, <2>4
<1>. QED  BY <1>1, <1>2, FreshNext DEF Agreement

LEMMA LbDeleteServes ==
    ASSUME SInv, NEW cascade \in BOOLEAN, LbDelete(cascade)
    PROVE  Agreement' /\ VipsFresh'
<1>1. live' = {} \/ \E noted : DeletionFails(noted)
  BY DEF LbDelete, AllRowsGo
<1>2. ASSUME NEW noted, DeletionFails(noted)
      PROVE  oLb'.prov = "ERROR"
  BY <1>2 DEF DeletionFails, SInv, KInv, IInv, OctaviaOK, LbRecord
<1>3. ASSUME NEW done \in SUBSET live, NEW r \in live \ done,
             NEW stop \in Stopped(rows[r], cascade), RowsGoUntil(done, r, stop.row)
      PROVE  VipsFresh'
  <2>1. rows[r] \in RowContents
    BY LiveRowOK DEF SInv, KInv, IInv
  <2>2. Fresh(Refresh(stop.row))
    BY <2>1, StoppedKeeps, RefreshFresh
  <2>3. ASSUME NEW d \in live'
        PROVE  Fresh(rows'[d])
    <3>1. d \in live \ done /\ d \in Row
      BY <1>3 DEF RowsGoUntil, SInv, KInv, IInv, RowsOK
    <3>2. rows'[d] = IF d = r THEN Refresh(stop.row) ELSE rows[d]
      BY <1>3, <3>1 DEF RowsGoUntil
    <3>. QED  BY <2>2, <3>1, <3>2 DEF SInv, VipsFresh, Fresh
  <2>. QED  BY <2>3, FreshNext
<1>4. VipsFresh'
  <2>1. AllRowsGo => VipsFresh'
    BY FreshNext DEF AllRowsGo
  <2>. QED  BY <1>3, <2>1 DEF LbDelete
<1>. QED  BY <1>1, <1>2, <1>4 DEF Agreement

LEMMA ListenerCreateServes ==
    ASSUME SInv, Failures = {}, NEW l \in Listener, NEW up \in CreateStates,
           NEW dp \in Pool \cup {None}, ListenerCreate(l, up, dp)
    PROVE  Agreement' /\ VipsFresh'
<1>. DEFINE key == <<l, up>>
            ref == IF dp = None THEN {} ELSE {<<dp, TRUE>>}
            record == [prov |-> "ACTIVE", up |-> up, pool |-> dp]
<1>1. /\ oLb.prov = "ACTIVE" /\ UNCHANGED <<oPool, oMember>>
      /\ oListener' = [oListener EXCEPT ![l] = record]
  BY DEF ListenerCreate, Mutable, ObtainFails
<1>2. up \in BOOLEAN /\ key \in ListenerKey /\ ref \in SUBSET PoolRef
      /\ ProtocolOf[l] \in Protocol
  <2>1. up \in BOOLEAN /\ ProtocolOf[l] \in Protocol
    BY ConstantsAssumption
  <2>2. <<dp, TRUE>> \in PoolRef
    BY DEF PoolRef
  <2>. QED  BY <2>1, <2>2 DEF ListenerKey
<1>3. /\ Exists(record) /\ record.up = up /\ record.pool = dp
      /\ \A x \in ref : x[1] = dp
  <2>1. \A x \in ref : x[1] = dp
    <3>1. CASE dp = None
      BY <3>1
    <3>2. CASE dp # None
      <4>1. ref = {<<dp, TRUE>>}
        BY <3>2
      <4>. HIDE DEF ref
      <4>. QED  BY <4>1
    <3>. QED  BY <3>1, <3>2
  <2>. QED  BY <2>1 DEF Exists
<1>4. \A x \in Listener : oListener'[x] = IF x = l THEN record ELSE oListener[x]
  BY <1>1, ActiveServes DEF OctaviaOK
<1>. HIDE DEF record
\* A row without a key of the new listener agrees as before.
<1>5. ASSUME NEW row \in RowContents, \A b \in BOOLEAN : <<l, b>> \notin row.listeners,
             Agrees(row, oListener, oPool, oMember)
      PROVE  Agrees(row, oListener', oPool', oMember')
  <2>1. \A k \in row.listeners : k[1] \in Listener /\ k[1] # l
    BY <1>5 DEF RowContents, ListenerKey
  <2>2. ListenersAgree(row, oListener')
    BY <1>4, <1>5, <2>1, ListenersAgreeStill DEF Agrees
  <2>. QED  BY <1>1, <1>5, <2>2 DEF Agrees
<1>6. ASSUME NEW s \in live
      PROVE  Agrees(rows[s], oListener', oPool', oMember')
  BY <1>1, <1>5, ActiveServes DEF ListenerCreate, UnusedListener
<1>7. ASSUME NEW o \in Obtain(ProtocolOf[l], up)
      PROVE  LET new == Refresh(PutListener(o.row, key, ref))
             IN  /\ o.id \in Row /\ Fresh(new)
                 /\ Agrees(new, oListener', oPool', oMember')
  <2>. DEFINE put == PutListener(o.row, key, ref)
  <2>1. o.id \in Row /\ o.row \in RowContents
    BY <1>1, <1>2, ActiveServes, ObtainOK
  <2>2. \A b \in BOOLEAN : <<l, b>> \notin o.row.listeners
    BY <1>1, <1>2, ActiveServes, ObtainOK DEF ListenerCreate, UnusedListener
  <2>3. Agrees(o.row, oListener', oPool', oMember')
    BY <1>1, <1>2, <1>5, <2>1, <2>2, ObtainInputs
  <2>4. /\ put \in RowContents
        /\ put.pools = o.row.pools /\ put.status = o.row.status
        /\ put.members = o.row.members
        /\ put.listeners = o.row.listeners \cup {key}
        /\ put.refs[key] = ref
        /\ \A x \in ListenerKey \ {key} : put.refs[x] = o.row.refs[x]
    <3>. HIDE DEF key, ref
    <3>. QED  BY <1>2, <2>1, PutListenerGives, PutListenerRecords, PutListenerRest
  <2>. HIDE DEF put
  <2>5. ListenersAgree(put, oListener')
    <3>1. o.row.listeners \subseteq ListenerKey
      BY <2>1 DEF RowContents
    <3>2. ASSUME NEW k \in put.listeners
          PROVE  /\ Exists(oListener'[k[1]]) =>
                       \A x \in put.refs[k] : x[1] \in {None, oListener'[k[1]].pool}
                 /\ k[2] => Exists(oListener'[k[1]]) /\ oListener'[k[1]].up
      <4>1. CASE k = key
        <5>1. k[1] = l /\ k[2] = up /\ oListener'[l] = record
          BY <1>4, <4>1
        <5>. HIDE DEF ref
        <5>. QED  BY <1>3, <2>4, <4>1, <5>1
      <4>2. CASE k # key
        <5>1. k \in o.row.listeners /\ put.refs[k] = o.row.refs[k]
          BY <2>4, <3>1, <4>2
        <5>. QED  BY <2>3, <5>1 DEF Agrees, ListenersAgree
      <4>. QED  BY <4>1, <4>2
    <3>. QED  BY <3>2 DEF ListenersAgree
  <2>6. Agrees(put, oListener', oPool', oMember')
    BY <2>3, <2>4, <2>5 DEF Agrees, PoolsAgree, MembersAgree
  <2>7. /\ Fresh(Refresh(put))
        /\ Agrees(Refresh(put), oListener', oPool', oMember')
    BY <2>4, <2>6, RefreshFresh, AgreesSame DEF SameInputs
  <2>. QED  BY <2>1, <2>7 DEF put
<1>8. PICK o \in Obtain(ProtocolOf[l], up) :
         Put(o.id, Refresh(PutListener(o.row, key, ref)))
  BY DEF ListenerCreate, ObtainFails
<1>. HIDE DEF key, ref
<1>. QED  BY <1>1, <1>6, <1>7, <1>8, OnePutServes

LEMMA ListenerDeleteServes ==
    ASSUME SInv, Failures = {}, NEW l \in Listener, ListenerDelete(l)
    PROVE  Agreement' /\ VipsFresh'
<1>. DEFINE key == <<l, TRUE>>
            found == {r \in FindRow(ProtocolOf[l]) : key \in rows[r].listeners}
<1>1. /\ oLb.prov = "ACTIVE" /\ UNCHANGED <<oPool, oMember>>
      /\ oListener' = [oListener EXCEPT ![l] = AbsentListener]
      /\ ProtocolOf[l] \in Protocol
  BY ConstantsAssumption DEF ListenerDelete, Mutable
<1>2. \A x \in Listener :
         oListener'[x] = IF x = l THEN AbsentListener ELSE oListener[x]
  BY <1>1, ActiveServes DEF OctaviaOK
\* A suffixed key of the listener may stay: it says disabled.
<1>3. ASSUME NEW row \in RowContents, key \notin row.listeners,
             Agrees(row, oListener, oPool, oMember)
      PROVE  Agrees(row, oListener', oPool', oMember')
  <2>1. ASSUME NEW k \in row.listeners
        PROVE  /\ Exists(oListener'[k[1]]) =>
                     \A x \in row.refs[k] : x[1] \in {None, oListener'[k[1]].pool}
               /\ k[2] => Exists(oListener'[k[1]]) /\ oListener'[k[1]].up
    <3>1. k \in ListenerKey /\ k[1] \in Listener /\ k = <<k[1], k[2]>>
          /\ k[2] \in BOOLEAN
      BY DEF RowContents, ListenerKey
    <3>2. CASE k[1] = l
      <4>1. k[2] = FALSE
        BY <1>3, <3>1, <3>2
      <4>. QED  BY <1>2, <3>2, <4>1 DEF Exists, AbsentListener
    <3>3. CASE k[1] # l
      BY <1>2, <1>3, <3>1, <3>3 DEF Agrees, ListenersAgree
    <3>. QED  BY <3>2, <3>3
  <2>2. ListenersAgree(row, oListener')
    BY <2>1 DEF ListenersAgree
  <2>. QED  BY <1>1, <1>3, <2>2 DEF Agrees
<1>4. ASSUME NEW s \in live, key \in rows[s].listeners
      PROVE  s \in FindRow(ProtocolOf[l])
  <2>1. RowKeysOK(rows[s])
    BY <1>1, ActiveServes
  <2>. QED  BY <1>4, <2>1 DEF FindRow, RowKeysOK
<1>5. CASE found = {} /\ UNCHANGED <<live, rows>>
  <2>1. \A s \in live : Agrees(rows[s], oListener', oPool', oMember')
    BY <1>1, <1>3, <1>4, <1>5, ActiveServes
  <2>. HIDE DEF found
  <2>. QED  BY <1>1, <1>5, <2>1, NothingPutServes
<1>6. ASSUME NEW r \in found,
             PutOrClean(r, Refresh(DropListener(rows[r], key)),
                        DropListener(rows[r], key))
      PROVE  Agreement' /\ VipsFresh'
  <2>. DEFINE row == DropListener(rows[r], key)
  <2>1. /\ r \in live /\ rows[r] \in RowContents /\ RowKeysOK(rows[r])
        /\ Agrees(rows[r], oListener, oPool, oMember) /\ RowsOK
    BY <1>1, FindRowLive, ActiveServes
  <2>2. /\ row \in RowContents
        /\ row.pools = rows[r].pools /\ row.status = rows[r].status
        /\ row.members = rows[r].members
        /\ row.listeners = rows[r].listeners \ {key}
        /\ \A x \in ListenerKey \ {key} : row.refs[x] = rows[r].refs[x]
    <3>1. key \in ListenerKey
      BY DEF ListenerKey
    <3>. HIDE DEF key
    <3>. QED  BY <2>1, <3>1, DropListenerGives, DropListenerRecords, DropListenerRest
  <2>3. PutOrClean(r, Refresh(row), row)
    BY <1>6
  <2>. HIDE DEF row
  <2>4. Agrees(row, oListener, oPool, oMember)
    <3>1. rows[r].listeners \subseteq ListenerKey
      BY <2>1 DEF RowContents
    <3>2. ListenersAgree(row, oListener)
      BY <2>1, <2>2, <3>1 DEF Agrees, ListenersAgree
    <3>. QED  BY <2>1, <2>2, <3>2 DEF Agrees, PoolsAgree, MembersAgree
  <2>5. Agrees(row, oListener', oPool', oMember')
    BY <1>3, <2>2, <2>4
  <2>6. /\ Refresh(row) \in RowContents /\ Fresh(Refresh(row))
        /\ Agrees(Refresh(row), oListener', oPool', oMember')
    BY <2>2, <2>5, RefreshKeeps, RefreshFresh, AgreesSame DEF SameInputs
  <2>7. ASSUME NEW s \in live \ {r}
        PROVE  Agrees(rows[s], oListener', oPool', oMember')
    <3>1. key \notin rows[s].listeners
      <4>1. SUFFICES ASSUME key \in rows[s].listeners PROVE FALSE
        OBVIOUS
      <4>2. rows[s].protocol = ProtocolOf[l]
        BY <1>1, <4>1, ActiveServes DEF RowKeysOK
      <4>. QED  BY <1>1, <2>1, <4>2, FoundAlone
    <3>. QED  BY <1>1, <1>3, <3>1, ActiveServes
  <2>. QED  BY <1>1, <2>1, <2>3, <2>6, <2>7, OneCleanServes
<1>. QED  BY <1>5, <1>6 DEF ListenerDelete

LEMMA ListenerUpdateServes ==
    ASSUME SInv, Failures = {}, NEW l \in Listener, NEW up \in Opt(BOOLEAN),
           NEW dp \in Opt(Pool \cup {None}), ListenerUpdate(l, up, dp)
    PROVE  Agreement' /\ VipsFresh'
<1>. DEFINE found == FindRow(ProtocolOf[l])
            record == [prov |-> "ACTIVE", up |-> Given(up, oListener[l].up),
                       pool |-> Given(dp, oListener[l].pool)]
<1>1. /\ oLb.prov = "ACTIVE" /\ UNCHANGED <<oPool, oMember>>
      /\ Exists(oListener[l]) /\ ProtocolOf[l] \in Protocol
  BY ConstantsAssumption DEF ListenerUpdate, Mutable
\* Only the records of the listener change.
<1>2. ASSUME NEW row \in RowContents, \A b \in BOOLEAN : <<l, b>> \notin row.listeners,
             oListener' = [oListener EXCEPT ![l] = record],
             Agrees(row, oListener, oPool, oMember)
      PROVE  Agrees(row, oListener', oPool', oMember')
  <2>1. \A k \in row.listeners : k[1] \in Listener /\ k[1] # l
    BY <1>2 DEF RowContents, ListenerKey
  <2>2. \A x \in Listener \ {l} : oListener'[x] = oListener[x]
    BY <1>1, <1>2, ActiveServes DEF OctaviaOK
  <2>3. ListenersAgree(row, oListener')
    BY <1>2, <2>1, <2>2, ListenersAgreeStill DEF Agrees
  <2>. QED  BY <1>1, <1>2, <2>3 DEF Agrees
<1>3. ASSUME NEW s \in live, NEW r \in found, s # r,
             oListener' = [oListener EXCEPT ![l] = record]
      PROVE  Agrees(rows[s], oListener', oPool', oMember')
  <2>1. /\ RowsOK /\ rows[s] \in RowContents /\ RowKeysOK(rows[s])
        /\ Agrees(rows[s], oListener, oPool, oMember)
    BY <1>1, ActiveServes
  <2>2. rows[s].protocol # ProtocolOf[l]
    BY <1>1, <1>3, <2>1, FoundAlone
  <2>3. \A b \in BOOLEAN : <<l, b>> \notin rows[s].listeners
    BY <2>1, <2>2 DEF RowKeysOK
  <2>. QED  BY <1>2, <1>3, <2>1, <2>3
\* The key moves with the record.
<1>4. ASSUME NEW r \in found, NEW k \in rows[r].listeners, k[1] = l,
             Put(r, ListenerMoved(rows[r], k, up, dp)),
             oListener' = [oListener EXCEPT ![l] = record]
      PROVE  Agreement' /\ VipsFresh'
  <2>. DEFINE moved == <<k[1], Given(up, k[2])>>
              refs == IF dp = {} THEN rows[r].refs[k] ELSE {<<Given(dp, None), TRUE>>}
              dropped == DropListener(rows[r], k)
              put == PutListener(dropped, moved, refs)
  <2>1. /\ r \in Row /\ rows[r] \in RowContents /\ RowKeysOK(rows[r])
        /\ Agrees(rows[r], oListener, oPool, oMember)
        /\ k \in ListenerKey
    BY <1>1, FindRowLive, ActiveServes DEF RowContents
  <2>2. moved \in ListenerKey /\ moved[1] = l /\ moved[2] = Given(up, k[2])
    <3>1. Given(up, k[2]) \in BOOLEAN
      BY <2>1 DEF ListenerKey, Opt, Given
    <3>. QED  BY <1>4, <3>1 DEF ListenerKey
  <2>3. refs \in SUBSET PoolRef
    <3>1. Given(dp, None) \in Pool \cup {None}
      BY DEF Opt, Given
    <3>2. <<Given(dp, None), TRUE>> \in PoolRef
      BY <3>1 DEF PoolRef
    <3>3. rows[r].refs[k] \in SUBSET PoolRef
      BY <2>1 DEF RowContents
    <3>. QED  BY <3>2, <3>3
  <2>4. oListener'[l] = record
        /\ \A x \in Listener \ {l} : oListener'[x] = oListener[x]
    BY <1>1, <1>4, ActiveServes DEF OctaviaOK
  <2>5. \A x \in refs : x[1] \in {None, oListener'[l].pool}
    <3>1. oListener'[l].pool = Given(dp, oListener[l].pool)
      BY <2>4
    <3>2. CASE dp = {}
      <4>1. Given(dp, oListener[l].pool) = oListener[l].pool
        BY <3>2 DEF Given
      <4>. QED  BY <1>1, <1>4, <2>1, <3>1, <3>2, <4>1 DEF Agrees, ListenersAgree
    <3>3. CASE dp # {}
      <4>1. PICK p \in Pool \cup {None} : dp = {p}
        BY <3>3 DEF Opt
      <4>2. refs = {<<p, TRUE>>} /\ Given(dp, oListener[l].pool) = p
        BY <4>1 DEF Given
      <4>. HIDE DEF refs
      <4>. QED  BY <3>1, <4>2
    <3>. QED  BY <3>2, <3>3
  <2>6. moved[2] => Exists(oListener'[l]) /\ oListener'[l].up
    <3>1. Exists(oListener'[l]) /\ oListener'[l].up = Given(up, oListener[l].up)
      BY <2>4 DEF Exists
    <3>2. CASE up = {}
      BY <1>4, <2>1, <2>2, <3>1, <3>2 DEF Given, Agrees, ListenersAgree
    <3>3. CASE up # {}
      BY <2>2, <3>1, <3>3 DEF Given
    <3>. QED  BY <3>2, <3>3
  <2>7. /\ dropped \in RowContents
        /\ dropped.pools = rows[r].pools /\ dropped.status = rows[r].status
        /\ dropped.members = rows[r].members
        /\ dropped.listeners = rows[r].listeners \ {k}
        /\ \A x \in ListenerKey \ {k} : dropped.refs[x] = rows[r].refs[x]
    BY <2>1, DropListenerGives, DropListenerRecords, DropListenerRest
  <2>8. /\ put \in RowContents
        /\ put.pools = dropped.pools /\ put.status = dropped.status
        /\ put.members = dropped.members
        /\ put.listeners = dropped.listeners \cup {moved}
        /\ put.refs[moved] = refs
        /\ \A x \in ListenerKey \ {moved} : put.refs[x] = dropped.refs[x]
    <3>. HIDE DEF dropped, moved, refs
    <3>. QED  BY <2>2, <2>3, <2>7, PutListenerGives, PutListenerRecords,
                 PutListenerRest
  <2>9. ListenersAgree(put, oListener')
    <3>. HIDE DEF put, dropped, refs, moved, record
    <3>1. rows[r].listeners \subseteq ListenerKey
      BY <2>1 DEF RowContents
    <3>2. ASSUME NEW y \in put.listeners
          PROVE  /\ Exists(oListener'[y[1]]) =>
                       \A x \in put.refs[y] : x[1] \in {None, oListener'[y[1]].pool}
                 /\ y[2] => Exists(oListener'[y[1]]) /\ oListener'[y[1]].up
      <4>1. CASE y = moved
        BY <2>2, <2>5, <2>6, <2>8, <4>1
      <4>2. CASE y # moved
        <5>1. /\ y \in rows[r].listeners \ {k} /\ y \in ListenerKey
              /\ put.refs[y] = rows[r].refs[y]
          BY <2>7, <2>8, <3>1, <4>2
        <5>2. y[1] # l
          <6>1. y = <<y[1], y[2]>> /\ k = <<k[1], k[2]>>
                /\ y[2] \in BOOLEAN /\ k[2] \in BOOLEAN
            BY <2>1, <5>1 DEF ListenerKey
          <6>2. <<k[1], ~k[2]>> \notin rows[r].listeners
            BY <2>1 DEF RowKeysOK
          <6>. QED  BY <1>4, <5>1, <6>1, <6>2
        <5>3. oListener'[y[1]] = oListener[y[1]]
          BY <2>4, <5>1, <5>2 DEF ListenerKey
        <5>. QED  BY <2>1, <5>1, <5>3 DEF Agrees, ListenersAgree
      <4>. QED  BY <4>1, <4>2
    <3>. QED  BY <3>2 DEF ListenersAgree
  <2>10. ListenerMoved(rows[r], k, up, dp) = Refresh(put)
    BY DEF ListenerMoved
  <2>. HIDE DEF put, dropped, refs, moved, record
  <2>11. Agrees(put, oListener', oPool', oMember')
    BY <1>1, <2>1, <2>7, <2>8, <2>9 DEF Agrees, PoolsAgree, MembersAgree
  <2>12. Fresh(Refresh(put)) /\ Agrees(Refresh(put), oListener', oPool', oMember')
    BY <2>8, <2>11, RefreshFresh, AgreesSame DEF SameInputs
  <2>13. \A s \in live \ {r} : Agrees(rows[s], oListener', oPool', oMember')
    BY <1>3, <1>4 DEF record
  <2>. QED  BY <1>1, <1>4, <2>1, <2>10, <2>12, <2>13, OnePutServes
\* No row has a key of it, or nothing was asked for.
<1>5. ASSUME UNCHANGED <<live, rows>>, oListener' = [oListener EXCEPT ![l] = record],
             NEW r \in found,
             \/ \A b \in BOOLEAN : <<l, b>> \notin rows[r].listeners
             \/ up = {} /\ dp = {}
      PROVE  Agreement' /\ VipsFresh'
  <2>1. r \in live
    BY FindRowLive
  <2>2. Agrees(rows[r], oListener', oPool', oMember')
    <3>1. rows[r] \in RowContents /\ Agrees(rows[r], oListener, oPool, oMember)
      BY <1>1, <2>1, ActiveServes
    <3>2. CASE \A b \in BOOLEAN : <<l, b>> \notin rows[r].listeners
      BY <1>2, <1>5, <3>1, <3>2
    <3>3. CASE up = {} /\ dp = {}
      <4>1. record.up = oListener[l].up /\ record.pool = oListener[l].pool
            /\ Exists(record)
        BY <3>3 DEF Given, Exists
      <4>2. \A x \in Listener : /\ oListener'[x].up = oListener[x].up
                                /\ oListener'[x].pool = oListener[x].pool
                                /\ Exists(oListener'[x]) <=> Exists(oListener[x])
        <5>1. oListener'[l] = record
              /\ \A x \in Listener \ {l} : oListener'[x] = oListener[x]
          BY <1>1, <1>5, ActiveServes DEF OctaviaOK
        <5>. HIDE DEF record
        <5>. QED  BY <1>1, <4>1, <5>1
      <4>3. \A k \in rows[r].listeners : k[1] \in Listener
        BY <3>1 DEF RowContents, ListenerKey
      <4>4. ListenersAgree(rows[r], oListener')
        BY <3>1, <4>2, <4>3 DEF Agrees, ListenersAgree
      <4>. QED  BY <1>1, <3>1, <4>4 DEF Agrees
    <3>. QED  BY <1>5, <3>2, <3>3
  <2>3. \A s \in live : Agrees(rows[s], oListener', oPool', oMember')
    BY <1>3, <1>5, <2>2
  <2>. QED  BY <1>1, <1>5, <2>3, NothingPutServes
<1>6. CASE oLb' = [oLb EXCEPT !.prov = "ERROR"] /\ UNCHANGED <<live, rows>>
  <2>1. oLb'.prov = "ERROR"
    BY <1>1, <1>6, ActiveServes DEF OctaviaOK, LbRecord
  <2>. QED  BY <1>1, <1>6, <2>1, ActiveServes, UnchangedFresh DEF Agreement
<1>. QED
  <2>1. \/ oLb' = [oLb EXCEPT !.prov = "ERROR"] /\ UNCHANGED <<live, rows>>
        \/ \E r \in found :
              /\ oListener' = [oListener EXCEPT ![l] = record]
              /\ \/ \E k \in rows[r].listeners :
                       k[1] = l /\ Put(r, ListenerMoved(rows[r], k, up, dp))
                 \/ /\ UNCHANGED <<live, rows>>
                    /\ \/ \A b \in BOOLEAN : <<l, b>> \notin rows[r].listeners
                       \/ up = {} /\ dp = {}
    BY DEF ListenerUpdate
  <2>. HIDE DEF found, record
  <2>. QED  BY <1>4, <1>5, <1>6, <2>1

LEMMA PoolCreateServes ==
    ASSUME SInv, Failures = {}, NEW p \in Pool, NEW up \in CreateStates,
           NEW l \in Listener \cup {None}, PoolCreate(p, up, l)
    PROVE  Agreement' /\ VipsFresh'
<1>. DEFINE key == <<p, up>>
            lkey == <<l, TRUE>>
            attached(row) == IF l # None /\ lkey \in row.listeners
                             THEN [row EXCEPT !.refs[lkey] = @ \cup {key}] ELSE row
            record == [prov |-> "ACTIVE", up |-> up]
<1>1. /\ oLb.prov = "ACTIVE" /\ oMember' = oMember
      /\ oPool' = [oPool EXCEPT ![p] = record]
      /\ l # None => Exists(oListener[l]) /\ oListener[l].pool = None
  BY DEF PoolCreate, Mutable, ObtainFails
<1>2. up \in BOOLEAN /\ ProtocolOf[p] \in Protocol /\ key \in PoolKey
      /\ key \in PoolRef /\ (l # None => l \in Listener)
  <2>1. up \in BOOLEAN /\ ProtocolOf[p] \in Protocol
    BY ConstantsAssumption
  <2>. QED  BY <2>1 DEF PoolKey, PoolRef
<1>3. \A x \in Pool : oPool'[x] = IF x = p THEN record ELSE oPool[x]
  BY <1>1, ActiveServes DEF OctaviaOK
\* The listener had no pool, and its key names none.
<1>4. ASSUME NEW x \in Listener
      PROVE  /\ oListener'[x].up = oListener[x].up
             /\ Exists(oListener'[x]) <=> Exists(oListener[x])
             /\ x # l => oListener'[x].pool = oListener[x].pool
             /\ x = l => oListener'[x].pool = p /\ oListener[x].pool = None
  <2>1. oListener[x] \in ListenerRecord
    BY <1>1, ActiveServes DEF OctaviaOK
  <2>2. oListener'[x] = IF x = l THEN [oListener[x] EXCEPT !.pool = p] ELSE oListener[x]
    BY DEF PoolCreate
  <2>3. None \notin Listener
    BY ConstantsAssumption
  <2>. QED  BY <1>1, <2>1, <2>2, <2>3 DEF ListenerRecord, Exists
\* A row without a key of the new pool agrees as before.
<1>5. ASSUME NEW row \in RowContents, \A b \in BOOLEAN : <<p, b>> \notin row.pools,
             Agrees(row, oListener, oPool, oMember)
      PROVE  Agrees(row, oListener', oPool', oMember')
  <2>1. \A k \in row.pools : k[1] \in Pool /\ k[1] # p
    BY <1>5 DEF RowContents, PoolKey
  <2>2. PoolsAgree(row, oPool')
    BY <1>3, <1>5, <2>1, PoolsAgreeStill DEF Agrees
  <2>3. ListenersAgree(row, oListener')
    <3>1. \A k \in row.listeners : k[1] \in Listener
      BY DEF RowContents, ListenerKey
    <3>2. ASSUME NEW k \in row.listeners
          PROVE  /\ Exists(oListener'[k[1]]) =>
                       \A x \in row.refs[k] : x[1] \in {None, oListener'[k[1]].pool}
                 /\ k[2] => Exists(oListener'[k[1]]) /\ oListener'[k[1]].up
      <4>1. /\ Exists(oListener[k[1]]) =>
                  \A x \in row.refs[k] : x[1] \in {None, oListener[k[1]].pool}
            /\ k[2] => Exists(oListener[k[1]]) /\ oListener[k[1]].up
        BY <1>5 DEF Agrees, ListenersAgree
      <4>. QED  BY <1>4, <3>1, <4>1
    <3>. QED  BY <3>2 DEF ListenersAgree
  <2>. QED  BY <1>1, <1>5, <2>2, <2>3 DEF Agrees
<1>6. ASSUME NEW s \in live
      PROVE  Agrees(rows[s], oListener', oPool', oMember')
  BY <1>1, <1>5, ActiveServes DEF PoolCreate, UnusedPool
<1>7. ASSUME NEW o \in Obtain(ProtocolOf[p], up)
      PROVE  LET new == PutPool(attached(o.row), key, {})
             IN  /\ o.id \in Row /\ Fresh(new)
                 /\ Agrees(new, oListener', oPool', oMember')
  <2>. DEFINE old == o.row
              row == attached(old)
              put == PutPool(row, key, {})
  <2>1. o.id \in Row /\ old \in RowContents
        /\ \A b \in BOOLEAN : <<p, b>> \notin old.pools
    BY <1>1, <1>2, ActiveServes, ObtainOK DEF PoolCreate, UnusedPool
  <2>2. Fresh(old) /\ Agrees(old, oListener, oPool, oMember)
    BY <1>1, <1>2, ObtainInputs
  <2>3. Agrees(old, oListener', oPool', oMember')
    BY <1>5, <2>1, <2>2
  <2>. HIDE DEF old
  <2>4. /\ row \in RowContents
        /\ row.pools = old.pools /\ row.status = old.status
        /\ row.listeners = old.listeners /\ row.members = old.members
        /\ row.enabled = old.enabled /\ row.vips = old.vips
        /\ \A k \in ListenerKey :
              \/ row.refs[k] = old.refs[k]
              \/ /\ k = lkey /\ l # None /\ lkey \in old.listeners
                 /\ row.refs[k] = old.refs[k] \cup {key}
    <3>1. CASE l # None /\ lkey \in old.listeners
      <4>1. lkey \in ListenerKey
        BY <2>1, <3>1 DEF RowContents
      <4>2. row = [old EXCEPT !.refs[lkey] = @ \cup {key}]
        BY <3>1
      <4>. HIDE DEF lkey, key, row
      <4>. QED  BY <1>2, <2>1, <3>1, <4>1, <4>2 DEF RowContents
    <3>2. CASE ~(l # None /\ lkey \in old.listeners)
      <4>1. row = old
        BY <3>2
      <4>. HIDE DEF row
      <4>. QED  BY <2>1, <4>1
    <3>. QED  BY <3>1, <3>2
  <2>. HIDE DEF row
  <2>5. /\ put.pools = row.pools \cup {key}
        /\ put.status = row.status /\ put.refs = row.refs
        /\ put.listeners = row.listeners
        /\ put.members[key] = {}
        /\ \A x \in PoolKey \ {key} : put.members[x] = row.members[x]
        /\ put.enabled = row.enabled /\ put.vips = row.vips
    <3>. HIDE DEF key
    <3>. QED  BY <1>2, <2>4, PutPoolRecords, PutPoolRest
  <2>. HIDE DEF put
  <2>6. old.listeners \subseteq ListenerKey /\ old.pools \subseteq PoolKey
    BY <2>1 DEF RowContents
  <2>7. lkey \in old.listeners /\ l # None => \A x \in old.refs[lkey] : x[1] = None
    <3>1. lkey[1] = l
      OBVIOUS
    <3>. HIDE DEF lkey
    <3>. QED  BY <1>1, <2>2, <3>1 DEF Agrees, ListenersAgree
  <2>8. key \notin old.pools
    BY <1>2, <2>1
  <2>9. ListenersAgree(put, oListener')
    <3>1. lkey[1] = l /\ key[1] = p
      OBVIOUS
    <3>2. l # None => oListener'[l].pool = p
      BY <1>2, <1>4
    <3>. HIDE DEF lkey, key
    <3>3. ASSUME NEW k \in put.listeners
          PROVE  /\ Exists(oListener'[k[1]]) =>
                       \A x \in put.refs[k] : x[1] \in {None, oListener'[k[1]].pool}
                 /\ k[2] => Exists(oListener'[k[1]]) /\ oListener'[k[1]].up
      <4>1. k \in old.listeners /\ k \in ListenerKey
        BY <2>4, <2>5, <2>6
      <4>2. \A x \in put.refs[k] : \/ x \in old.refs[k]
                                   \/ x = key /\ k = lkey /\ l # None
        BY <2>4, <2>5, <4>1
      <4>. QED  BY <2>3, <3>1, <3>2, <4>1, <4>2 DEF Agrees, ListenersAgree
    <3>. QED  BY <3>3 DEF ListenersAgree
  <2>10. PoolsAgree(put, oPool')
    <3>1. key[2] => oPool'[key[1]].up
      BY <1>3
    <3>. HIDE DEF key
    <3>. QED  BY <2>3, <2>4, <2>5, <3>1 DEF Agrees, PoolsAgree
  <2>11. MembersAgree(put, oMember')
    <3>. HIDE DEF key
    <3>. QED  BY <2>3, <2>4, <2>5, <2>6 DEF Agrees, MembersAgree
  <2>12. ASSUME NEW x \in Listener, NEW m \in Member
         PROVE  Serves(put, x, m) <=> Serves(old, x, m)
    <3>. DEFINE xkey == <<x, TRUE>>
    <3>0. xkey \in ListenerKey
      BY DEF ListenerKey
    <3>. HIDE DEF key, lkey
    <3>1. ASSUME NEW k \in PoolKey, Routes(old, x, k), m \in old.members[k]
          PROVE  Routes(put, x, k) /\ m \in put.members[k]
      <4>1. k \in old.pools /\ k # key /\ xkey \in old.listeners
            /\ old.refs[xkey] = {k} /\ k[2]
        BY <2>8, <3>1 DEF Routes
      <4>2. k[1] # None
        BY <4>1, ConstantsAssumption DEF PoolKey
      <4>3. put.refs[xkey] = {k}
        BY <2>4, <2>5, <2>7, <3>0, <4>1, <4>2
      <4>. QED  BY <2>4, <2>5, <3>1, <4>1, <4>3 DEF Routes
    <3>2. ASSUME NEW k \in PoolKey, Routes(put, x, k), m \in put.members[k]
          PROVE  Routes(old, x, k) /\ m \in old.members[k]
      <4>1. k # key /\ k \in old.pools /\ m \in old.members[k]
        BY <2>4, <2>5, <3>2 DEF Routes
      <4>2. put.refs[xkey] = {k} /\ xkey \in old.listeners /\ k[2]
        BY <2>4, <2>5, <3>2 DEF Routes
      <4>3. old.refs[xkey] = {k}
        <5>1. \/ put.refs[xkey] = old.refs[xkey]
              \/ put.refs[xkey] = old.refs[xkey] \cup {key}
          BY <2>4, <2>5, <3>0
        <5>2. key \notin put.refs[xkey]
          BY <4>1, <4>2
        <5>. QED  BY <4>2, <5>1, <5>2
      <4>. QED  BY <4>1, <4>2, <4>3 DEF Routes
    <3>. QED  BY <2>4, <2>5, <3>1, <3>2 DEF Serves
  <2>13. Fresh(put)
    BY <2>2, <2>4, <2>5, <2>12, StaysFresh
  <2>. QED  BY <2>1, <2>9, <2>10, <2>11, <2>13 DEF put, row, old, Agrees
<1>8. PICK o \in Obtain(ProtocolOf[p], up) :
         Put(o.id, PutPool(attached(o.row), key, {}))
  BY DEF PoolCreate, ObtainFails
<1>. HIDE DEF key, attached
<1>. QED  BY <1>1, <1>6, <1>7, <1>8, OnePutServes

LEMMA PoolUpdateServes ==
    ASSUME SInv, Failures = {}, NEW p \in Pool, NEW up \in Opt(BOOLEAN),
           PoolUpdate(p, up)
    PROVE  Agreement' /\ VipsFresh'
<1>. DEFINE found == FindRow(ProtocolOf[p])
            to == Given(up, TRUE)
            old == <<p, ~to>>
            fresh == <<p, to>>
<1>1. /\ oLb.prov = "ACTIVE" /\ UNCHANGED <<oListener, oMember>>
      /\ to \in BOOLEAN /\ ProtocolOf[p] \in Protocol
  <2>1. to \in BOOLEAN
    BY DEF Opt, Given
  <2>2. /\ oLb.prov = "ACTIVE" /\ UNCHANGED <<oListener, oMember>>
        /\ ProtocolOf[p] \in Protocol
    BY ConstantsAssumption DEF PoolUpdate, Mutable
  <2>. QED  BY <2>1, <2>2
<1>2. /\ old \in PoolKey /\ fresh \in PoolKey /\ old # fresh
      /\ old[1] = p /\ fresh[1] = p /\ fresh[2] = to
  BY <1>1 DEF PoolKey
<1>3. \A q \in Pool \ {p} : oPool'[q] = oPool[q]
  BY <1>1, ActiveServes DEF PoolUpdate, OctaviaOK
<1>4. oPool'[p].up = Given(up, oPool[p].up)
  <2>1. PICK prov \in {"ACTIVE", "ERROR"} :
           oPool' = [oPool EXCEPT ![p] = [prov |-> prov, up |-> Given(up, @.up)]]
    BY DEF PoolUpdate
  <2>. QED  BY <1>1, <2>1, ActiveServes DEF OctaviaOK
<1>5. ASSUME NEW s \in live, NEW r \in found, s # r
      PROVE  Agrees(rows[s], oListener', oPool', oMember')
  <2>1. /\ RowsOK /\ rows[s] \in RowContents /\ RowKeysOK(rows[s])
        /\ Agrees(rows[s], oListener, oPool, oMember)
    BY <1>1, ActiveServes
  <2>2. rows[s].protocol # ProtocolOf[p]
    BY <1>1, <1>5, <2>1, FoundAlone
  <2>3. \A k \in rows[s].pools : k[1] \in Pool /\ k[1] # p
    BY <2>1, <2>2 DEF RowKeysOK, RowContents, PoolKey
  <2>4. PoolsAgree(rows[s], oPool')
    BY <1>3, <2>1, <2>3, PoolsAgreeStill DEF Agrees
  <2>. QED  BY <1>1, <2>1, <2>4 DEF Agrees
<1>6. ASSUME NEW r \in found, old \in rows[r].pools, up # {},
             Put(r, PoolSwitched(rows[r], old, fresh))
      PROVE  Agreement' /\ VipsFresh'
  <2>. DEFINE put == PutPool(rows[r], fresh, rows[r].members[old])
              left == DropPool(put, old)
  <2>1. /\ r \in Row /\ rows[r] \in RowContents /\ RowKeysOK(rows[r])
        /\ Agrees(rows[r], oListener, oPool, oMember)
    BY <1>1, FindRowLive, ActiveServes
  <2>. HIDE DEF old, fresh, to
  <2>0. rows[r].members[old] \in SUBSET Member
    BY <1>2, <2>1 DEF RowContents
  <2>2. /\ put \in RowContents
        /\ put.pools = rows[r].pools \cup {fresh}
        /\ put.status = rows[r].status /\ put.refs = rows[r].refs
        /\ put.listeners = rows[r].listeners
        /\ put.members[fresh] = rows[r].members[old]
        /\ \A x \in PoolKey \ {fresh} : put.members[x] = rows[r].members[x]
    BY <1>2, <2>0, <2>1, PutPoolGives, PutPoolRecords, PutPoolRest
  <2>3. /\ left \in RowContents
        /\ left.pools = (rows[r].pools \cup {fresh}) \ {old}
        /\ left.status = rows[r].status /\ left.refs = rows[r].refs
        /\ left.listeners = rows[r].listeners
        /\ left.members[fresh] = rows[r].members[old]
        /\ \A x \in PoolKey \ {fresh, old} : left.members[x] = rows[r].members[x]
    <3>. HIDE DEF put
    <3>. QED  BY <1>2, <2>2, DropPoolGives, DropPoolRecords, DropPoolRest
  <2>4. PoolSwitched(rows[r], old, fresh) = Refresh(left)
    BY DEF PoolSwitched
  <2>. HIDE DEF left, put
  <2>5. \A k \in left.pools : k = fresh \/ (k \in rows[r].pools /\ k # fresh /\ k # old
                                            /\ k[1] \in Pool /\ k[1] # p)
    <3>1. rows[r].pools \subseteq PoolKey
      BY <2>1 DEF RowContents
    <3>2. ASSUME NEW k \in rows[r].pools, k # fresh, k # old
          PROVE  k[1] \in Pool /\ k[1] # p
      BY <1>1, <3>1, <3>2 DEF PoolKey, old, fresh
    <3>. QED  BY <2>3, <3>2
  <2>6. PoolsAgree(left, oPool')
    <3>1. oPool'[p].up = to
      BY <1>4, <1>6 DEF Given, to
    <3>. QED  BY <1>2, <1>3, <2>1, <2>5, <3>1 DEF Agrees, PoolsAgree
  <2>7. MembersAgree(left, oMember')
    <3>1. ASSUME NEW k \in left.pools, NEW m \in left.members[k]
          PROVE  /\ PoolOf[m] = k[1]
                 /\ Exists(oMember[m])
                 /\ left.status[m] # "OFFLINE" => oMember[m].up
      <4>1. CASE k = fresh
        BY <1>2, <1>6, <2>1, <2>3, <3>1, <4>1 DEF Agrees, MembersAgree
      <4>2. CASE k # fresh
        <5>1. k \in rows[r].pools /\ m \in rows[r].members[k]
          BY <2>1, <2>3, <2>5, <3>1, <4>2 DEF RowContents
        <5>. QED  BY <2>1, <2>3, <5>1 DEF Agrees, MembersAgree
      <4>. QED  BY <4>1, <4>2
    <3>. QED  BY <1>1, <3>1 DEF MembersAgree
  <2>8. Agrees(left, oListener', oPool', oMember')
    BY <1>1, <2>1, <2>3, <2>6, <2>7 DEF Agrees, ListenersAgree
  <2>9. Fresh(Refresh(left)) /\ Agrees(Refresh(left), oListener', oPool', oMember')
    BY <2>3, <2>8, RefreshFresh, AgreesSame DEF SameInputs
  <2>10. \A s \in live \ {r} : Agrees(rows[s], oListener', oPool', oMember')
    BY <1>5, <1>6
  <2>. QED  BY <1>1, <1>6, <2>1, <2>4, <2>9, <2>10, OnePutServes
\* The pool has the key asked for already, or nothing is known to be asked for.
<1>7. ASSUME NEW r \in found, UNCHANGED <<live, rows>>,
             up # {} => old \notin rows[r].pools
      PROVE  Agreement' /\ VipsFresh'
  <2>1. /\ r \in live /\ rows[r] \in RowContents
        /\ Agrees(rows[r], oListener, oPool, oMember)
    BY <1>1, FindRowLive, ActiveServes
  <2>2. ASSUME NEW k \in rows[r].pools, k[2]
        PROVE  oPool'[k[1]].up
    <3>1. oPool[k[1]].up /\ k[1] \in Pool /\ k = <<k[1], k[2]>> /\ k[2] \in BOOLEAN
      <4>1. oPool[k[1]].up
        BY <2>1, <2>2 DEF Agrees, PoolsAgree
      <4>2. k \in PoolKey
        BY <2>1 DEF RowContents
      <4>. QED  BY <4>1, <4>2 DEF PoolKey
    <3>2. CASE k[1] # p
      BY <1>3, <3>1, <3>2
    <3>3. CASE k[1] = p /\ up = {}
      BY <1>4, <3>1, <3>3 DEF Given
    <3>4. CASE k[1] = p /\ up # {}
      <4>1. to = TRUE
        BY <1>1, <1>7, <2>2, <3>1, <3>4
      <4>. QED  BY <1>4, <3>4, <4>1 DEF Given
    <3>. QED  BY <3>2, <3>3, <3>4
  <2>3. PoolsAgree(rows[r], oPool')
    BY <2>2 DEF PoolsAgree
  <2>4. Agrees(rows[r], oListener', oPool', oMember')
    BY <1>1, <2>1, <2>3 DEF Agrees
  <2>5. \A s \in live : Agrees(rows[s], oListener', oPool', oMember')
    BY <1>5, <1>7, <2>4
  <2>. QED  BY <1>1, <1>7, <2>5, NothingPutServes
<1>8. CASE oLb' = [oLb EXCEPT !.prov = "ERROR"] /\ UNCHANGED <<live, rows>>
  <2>1. oLb'.prov = "ERROR"
    BY <1>1, <1>8, ActiveServes DEF OctaviaOK, LbRecord
  <2>. QED  BY <1>1, <1>8, <2>1, ActiveServes, UnchangedFresh DEF Agreement
<1>. QED
  <2>1. \/ oLb' = [oLb EXCEPT !.prov = "ERROR"] /\ UNCHANGED <<live, rows>>
        \/ \E r \in found :
              \/ /\ up # {} /\ old \in rows[r].pools
                 /\ Put(r, PoolSwitched(rows[r], old, fresh))
              \/ /\ UNCHANGED <<live, rows>>
                 /\ up # {} => old \notin rows[r].pools
    BY DEF PoolUpdate
  <2>. HIDE DEF found, old, fresh
  <2>. QED  BY <1>6, <1>7, <1>8, <2>1

LEMMA PoolDeleteServes ==
    ASSUME SInv, Failures = {}, NEW p \in Pool, PoolDelete(p)
    PROVE  Agreement' /\ VipsFresh'
<1>. DEFINE plain(row) == IF <<p, TRUE>> \in row.pools
                          THEN Refresh(DropPool(row, <<p, TRUE>>)) ELSE row
            believed(row) == DetachPool(plain(row), p)
            final(row) == DropPool(believed(row), <<p, FALSE>>)
            found == FindRow(ProtocolOf[p])
<1>1. /\ oLb.prov = "ACTIVE" /\ oLb' = oLb /\ p # None
      /\ ProtocolOf[p] \in Protocol
  BY ConstantsAssumption DEF PoolDelete, Mutable
<1>2. /\ oPool' = [oPool EXCEPT ![p] = AbsentChild]
      /\ oListener' = [x \in Listener |->
            IF oListener[x].pool = p
            THEN [oListener[x] EXCEPT !.pool = None] ELSE oListener[x]]
      /\ oMember' = [m \in Member |->
            IF PoolOf[m] = p THEN AbsentChild ELSE oMember[m]]
  BY DEF PoolDelete
<1>3. \A q \in Pool \ {p} : oPool'[q] = oPool[q]
  BY <1>1, <1>2, ActiveServes DEF OctaviaOK
<1>4. ASSUME NEW x \in Listener
      PROVE  /\ oListener'[x].up = oListener[x].up
             /\ Exists(oListener'[x]) <=> Exists(oListener[x])
             /\ oListener'[x].pool = IF oListener[x].pool = p THEN None
                                                              ELSE oListener[x].pool
  <2>1. oListener[x] \in ListenerRecord
    BY <1>1, ActiveServes DEF OctaviaOK
  <2>2. oListener'[x] = IF oListener[x].pool = p
                        THEN [oListener[x] EXCEPT !.pool = None] ELSE oListener[x]
    BY <1>2
  <2>. QED  BY <2>1, <2>2 DEF ListenerRecord, Exists
\* A row that says nothing of the pool agrees as before.
<1>5. ASSUME NEW row \in RowContents, Agrees(row, oListener, oPool, oMember),
             \A k \in row.pools : k[1] # p,
             \A k \in row.listeners : \A x \in row.refs[k] : x[1] # p
      PROVE  Agrees(row, oListener', oPool', oMember')
  <2>1. /\ \A k \in row.pools : k[1] \in Pool /\ row.members[k] \subseteq Member
        /\ \A k \in row.listeners : k[1] \in Listener
    BY DEF RowContents, PoolKey, ListenerKey
  <2>2. PoolsAgree(row, oPool')
    BY <1>3, <1>5, <2>1, PoolsAgreeStill DEF Agrees
  <2>3. MembersAgree(row, oMember')
    <3>1. \A k \in row.pools : \A m \in row.members[k] : oMember'[m] = oMember[m]
      BY <1>2, <1>5, <2>1 DEF Agrees, MembersAgree
    <3>. QED  BY <1>5, <3>1, MembersAgreeStill DEF Agrees
  <2>4. ListenersAgree(row, oListener')
    <3>1. ASSUME NEW k \in row.listeners
          PROVE  /\ Exists(oListener'[k[1]]) =>
                       \A x \in row.refs[k] : x[1] \in {None, oListener'[k[1]].pool}
                 /\ k[2] => Exists(oListener'[k[1]]) /\ oListener'[k[1]].up
      <4>1. /\ Exists(oListener[k[1]]) =>
                  \A x \in row.refs[k] : x[1] \in {None, oListener[k[1]].pool}
            /\ k[2] => Exists(oListener[k[1]]) /\ oListener[k[1]].up
        BY <1>5 DEF Agrees, ListenersAgree
      <4>. QED  BY <1>4, <1>5, <2>1, <4>1
    <3>. QED  BY <3>1 DEF ListenersAgree
  <2>. QED  BY <2>2, <2>3, <2>4 DEF Agrees
<1>6. ASSUME NEW s \in live, rows[s].protocol # ProtocolOf[p]
      PROVE  Agrees(rows[s], oListener', oPool', oMember')
  <2>1. /\ rows[s] \in RowContents /\ RowKeysOK(rows[s])
        /\ Known(rows[s], KnownPools, KnownMembers)
        /\ Agrees(rows[s], oListener, oPool, oMember)
    BY <1>1, ActiveServes
  <2>. QED  BY <1>5, <1>6, <2>1, StrangeRow
<1>7. ASSUME NEW r \in found
      PROVE  /\ r \in live /\ final(rows[r]) \in RowContents /\ Fresh(final(rows[r]))
             /\ Agrees(final(rows[r]), oListener', oPool', oMember')
  <2>. DEFINE row == rows[r]
              yes == <<p, TRUE>>
              no == <<p, FALSE>>
  <2>1. /\ r \in live /\ row \in RowContents /\ Fresh(row)
        /\ Agrees(row, oListener, oPool, oMember)
    BY <1>1, FindRowLive, ActiveServes
  <2>2. yes \in PoolKey /\ no \in PoolKey
    BY DEF PoolKey
  <2>. HIDE DEF row
  <2>. DEFINE one == plain(row)
              two == believed(row)
              three == final(row)
  <2>3. /\ one \in RowContents /\ Fresh(one)
        /\ one.pools = row.pools \ {yes}
        /\ one.status = row.status /\ one.refs = row.refs
        /\ one.listeners = row.listeners
        /\ \A k \in PoolKey \ {yes} : one.members[k] = row.members[k]
    <3>1. CASE yes \in row.pools
      <4>. DEFINE dropped == DropPool(row, yes)
      <4>1. one = Refresh(dropped)
        BY <3>1
      <4>. HIDE DEF yes, one
      <4>2. /\ dropped \in RowContents
            /\ dropped.pools = row.pools \ {yes}
            /\ dropped.status = row.status /\ dropped.refs = row.refs
            /\ dropped.listeners = row.listeners
            /\ \A k \in PoolKey \ {yes} : dropped.members[k] = row.members[k]
        BY <2>1, <2>2, DropPoolGives, DropPoolRecords, DropPoolRest
      <4>. HIDE DEF dropped
      <4>. QED  BY <4>1, <4>2, RefreshKeeps, RefreshFresh DEF SameInputs, SameRecords
    <3>2. CASE yes \notin row.pools
      <4>1. one = row
        BY <3>2
      <4>. HIDE DEF one, yes
      <4>. QED  BY <2>1, <3>2, <4>1
    <3>. QED  BY <3>1, <3>2
  <2>4. two = DetachPool(one, p) /\ three = DropPool(two, no)
    OBVIOUS
  <2>. HIDE DEF one, two, three, plain, believed, final
  <2>5. /\ two \in RowContents
        /\ two.pools = one.pools /\ two.status = one.status
        /\ two.listeners = one.listeners /\ two.members = one.members
        /\ two.enabled = one.enabled /\ two.vips = one.vips
        /\ \A k \in ListenerKey : /\ Mentions(one, k, p) => two.refs[k] = {}
                                  /\ ~Mentions(one, k, p) => two.refs[k] = one.refs[k]
    <3>1. two \in RowContents
      BY <2>3, <2>4, DetachPoolKeeps
    <3>2. /\ two.pools = one.pools /\ two.status = one.status
          /\ two.listeners = one.listeners
          /\ \A k \in ListenerKey :
                /\ Mentions(one, k, p) => two.refs[k] = {}
                /\ ~Mentions(one, k, p) => two.refs[k] = one.refs[k]
      BY <2>3, <2>4, DetachPoolRecords
    <3>3. /\ two.members = one.members
          /\ two.enabled = one.enabled /\ two.vips = one.vips
      BY <2>3, <2>4, DetachPoolRest
    <3>. QED  BY <3>1, <3>2, <3>3
  <2>6. /\ three \in RowContents
        /\ three.pools = two.pools \ {no}
        /\ three.status = two.status /\ three.refs = two.refs
        /\ three.listeners = two.listeners
        /\ \A k \in PoolKey \ {no} : three.members[k] = two.members[k]
        /\ three.enabled = two.enabled /\ three.vips = two.vips
    <3>. HIDE DEF no
    <3>1. three \in RowContents /\ three.pools = two.pools \ {no}
      BY <2>2, <2>4, <2>5, DropPoolGives
    <3>2. /\ three.status = two.status /\ three.refs = two.refs
          /\ three.listeners = two.listeners
      BY <2>4, <2>5, DropPoolRecords
    <3>3. /\ \A k \in PoolKey \ {no} : three.members[k] = two.members[k]
          /\ three.enabled = two.enabled /\ three.vips = two.vips
      BY <2>2, <2>4, <2>5, DropPoolRest
    <3>. QED  BY <3>1, <3>2, <3>3
  <2>7. \A k \in three.pools : k \in row.pools /\ k # yes /\ k # no /\ k \in PoolKey
    BY <2>1, <2>3, <2>5, <2>6 DEF RowContents
  <2>0. ASSUME NEW k \in PoolKey, k # yes, k # no
        PROVE  k[1] # p
    <3>1. k = <<k[1], k[2]>> /\ k[2] \in BOOLEAN
      BY DEF PoolKey
    <3>. QED  BY <2>0, <3>1
  <2>8. \A k \in three.pools : k[1] # p
    <3>. HIDE DEF yes, no
    <3>. QED  BY <2>0, <2>7
  <2>9. row.listeners \subseteq ListenerKey
        /\ \A k \in ListenerKey : row.refs[k] \subseteq PoolRef
    BY <2>1 DEF RowContents
  <2>10. ASSUME NEW k \in row.listeners, NEW x \in three.refs[k]
         PROVE  x \in row.refs[k] /\ x[1] # p
    <3>1. x \in row.refs[k] /\ ~ \E b \in BOOLEAN : <<p, b>> \in row.refs[k]
      BY <2>3, <2>5, <2>6, <2>9, <2>10 DEF Mentions
    <3>2. x = <<x[1], x[2]>> /\ x[2] \in BOOLEAN
      BY <2>9, <3>1 DEF PoolRef
    <3>. QED  BY <3>1, <3>2
  <2>11. Agrees(three, oListener, oPool, oMember)
    <3>1. ListenersAgree(three, oListener)
      BY <2>1, <2>3, <2>5, <2>6, <2>10 DEF Agrees, ListenersAgree
    <3>2. PoolsAgree(three, oPool)
      BY <2>1, <2>7 DEF Agrees, PoolsAgree
    <3>3. MembersAgree(three, oMember)
      <4>1. \A k \in three.pools : three.members[k] = row.members[k]
        <5>. HIDE DEF yes, no
        <5>. QED  BY <2>3, <2>5, <2>6, <2>7
      <4>2. three.status = row.status
        BY <2>3, <2>5, <2>6
      <4>. QED  BY <2>1, <2>7, <4>1, <4>2 DEF Agrees, MembersAgree
    <3>. QED  BY <3>1, <3>2, <3>3 DEF Agrees
  <2>12. Agrees(three, oListener', oPool', oMember')
    <3>1. \A k \in three.listeners : \A x \in three.refs[k] : x[1] # p
      BY <2>3, <2>5, <2>6, <2>10
    <3>. QED  BY <1>5, <2>6, <2>8, <2>11, <3>1
  \* What was detached was not routed, for the plain key of the pool was gone.
  <2>13. ASSUME NEW l \in Listener, NEW m \in Member
         PROVE  Serves(three, l, m) <=> Serves(one, l, m)
    <3>. DEFINE lkey == <<l, TRUE>>
    <3>0. lkey \in ListenerKey
      BY DEF ListenerKey
    <3>1. ASSUME NEW k \in PoolKey, Routes(one, l, k), m \in one.members[k]
          PROVE  Routes(three, l, k) /\ m \in three.members[k]
      <4>1. /\ k \in one.pools /\ k[2] /\ one.refs[lkey] = {k}
            /\ lkey \in one.listeners
        BY <3>1 DEF Routes
      <4>2. k # yes /\ k # no /\ k[1] # p
        <5>0. ~no[2]
          OBVIOUS
        <5>. HIDE DEF yes, no
        <5>1. k # yes
          BY <2>3, <4>1
        <5>2. k # no
          BY <4>1, <5>0
        <5>. QED  BY <2>0, <5>1, <5>2
      <4>3. ~Mentions(one, lkey, p)
        BY <4>1, <4>2 DEF Mentions
      <4>. HIDE DEF lkey
      <4>4. three.refs[lkey] = {k}
        BY <2>5, <2>6, <3>0, <4>1, <4>3
      <4>. HIDE DEF yes, no
      <4>5. k \in three.pools /\ lkey \in three.listeners /\ m \in three.members[k]
        BY <2>5, <2>6, <3>1, <4>1, <4>2
      <4>. QED  BY <4>1, <4>4, <4>5 DEF Routes, lkey
    <3>2. ASSUME NEW k \in PoolKey, Routes(three, l, k), m \in three.members[k]
          PROVE  Routes(one, l, k) /\ m \in one.members[k]
      <4>1. /\ k \in three.pools /\ k[2] /\ three.refs[lkey] = {k}
            /\ lkey \in three.listeners
        BY <3>2 DEF Routes
      <4>. HIDE DEF lkey
      <4>2. one.refs[lkey] = {k}
        <5>1. three.refs[lkey] = {} \/ three.refs[lkey] = one.refs[lkey]
          BY <2>5, <2>6, <3>0
        <5>. QED  BY <4>1, <5>1
      <4>. HIDE DEF yes, no
      <4>3. k \in one.pools /\ lkey \in one.listeners /\ m \in one.members[k]
        BY <2>5, <2>6, <2>7, <3>2, <4>1
      <4>. QED  BY <4>1, <4>2, <4>3 DEF Routes, lkey
    <3>. HIDE DEF lkey
    <3>. QED  BY <2>5, <2>6, <3>1, <3>2 DEF Serves
  <2>14. Fresh(three)
    BY <2>3, <2>5, <2>6, <2>13, StaysFresh
  <2>. QED  BY <2>1, <2>6, <2>12, <2>14 DEF three, row
<1>8. ASSUME found = {}, UNCHANGED <<live, rows>>
      PROVE  Agreement' /\ VipsFresh'
  <2>1. \A s \in live : Agrees(rows[s], oListener', oPool', oMember')
    BY <1>6, <1>8, NoneFound
  <2>. QED  BY <1>1, <1>8, <2>1, NothingPutServes
<1>9. ASSUME NEW r \in found, PutOrClean(r, final(rows[r]), believed(rows[r]))
      PROVE  Agreement' /\ VipsFresh'
  <2>. HIDE DEF final, believed
  <2>1. RowsOK
    BY <1>1, ActiveServes
  <2>2. \A s \in live \ {r} : Agrees(rows[s], oListener', oPool', oMember')
    BY <1>1, <1>6, <2>1, FoundAlone
  <2>. QED  BY <1>1, <1>7, <1>9, <2>2, OneCleanServes
<1>. QED
  <2>1. \/ found = {} /\ UNCHANGED <<live, rows>>
        \/ \E r \in found : PutOrClean(r, final(rows[r]), believed(rows[r]))
    BY DEF PoolDelete
  <2>. HIDE DEF final, believed, found
  <2>. QED  BY <1>8, <1>9, <2>1

\* A row that does not hold the pool of a member does not list it.
LEMMA MemberElsewhere ==
    ASSUME NEW row \in RowContents, NEW m \in Member, row.protocol # ProtocolOf[PoolOf[m]],
           RowKeysOK(row), NEW L, NEW P, NEW M, Agrees(row, L, P, M)
    PROVE  \A k \in row.pools : m \notin row.members[k]
BY DEF RowKeysOK, Agrees, MembersAgree

\* What a member handler may rely on: the row it writes is the only one that
\* holds the pool, under one key.
LEMMA MemberRow ==
    ASSUME SInv, oLb.prov = "ACTIVE", NEW m \in Member, NEW rk \in PoolRows(PoolOf[m])
    PROVE  /\ rk[1] \in live /\ rk[1] \in Row /\ rk[2] \in rows[rk[1]].pools
           /\ rk[2] \in PoolKey /\ rk[2][1] = PoolOf[m]
           /\ rows[rk[1]] \in RowContents /\ Fresh(rows[rk[1]])
           /\ Agrees(rows[rk[1]], oListener, oPool, oMember)
           /\ \A k \in rows[rk[1]].pools : k[1] = PoolOf[m] => k = rk[2]
           /\ \A s \in live \ {rk[1]} : \A k \in rows[s].pools : m \notin rows[s].members[k]
<1>. DEFINE row == rows[rk[1]]
<1>1. rk[1] \in live /\ rk[2] \in row.pools /\ rk[2][1] = PoolOf[m]
  BY PoolRowsLive, PoolRowsHold
<1>2. /\ rk[1] \in Row /\ row \in RowContents /\ RowKeysOK(row) /\ Fresh(row)
      /\ Agrees(row, oListener, oPool, oMember) /\ RowsOK
  BY <1>1, ActiveServes
<1>. HIDE DEF row
<1>3. row.pools \subseteq PoolKey
  BY <1>2 DEF RowContents
<1>4. ASSUME NEW k \in row.pools, k[1] = PoolOf[m]
      PROVE  k = rk[2]
  <2>1. /\ k = <<k[1], k[2]>> /\ k[2] \in BOOLEAN
        /\ rk[2] = <<rk[2][1], rk[2][2]>> /\ rk[2][2] \in BOOLEAN
    BY <1>1, <1>3 DEF PoolKey
  <2>2. <<k[1], ~k[2]>> \notin row.pools
    BY <1>2 DEF RowKeysOK
  <2>. QED  BY <1>1, <1>4, <2>1, <2>2
<1>5. row.protocol = ProtocolOf[PoolOf[m]]
  <2>1. \A k \in row.pools : row.protocol = ProtocolOf[k[1]]
    BY <1>2 DEF RowKeysOK
  <2>2. row.protocol = ProtocolOf[rk[2][1]]
    BY <1>1, <2>1
  <2>. QED  BY <1>1, <2>2
<1>6. ASSUME NEW s \in live \ {rk[1]}
      PROVE  \A k \in rows[s].pools : m \notin rows[s].members[k]
  <2>1. rows[s].protocol # row.protocol
    BY <1>1, <1>2 DEF RowsOK, ProtocolsDistinct, row
  <2>. QED  BY <1>5, <2>1, ActiveServes, MemberElsewhere
<1>. QED  BY <1>1, <1>2, <1>3, <1>4, <1>6 DEF row

\* A row that does not list a member does not care what became of it.
LEMMA MemberUnlisted ==
    ASSUME NEW row \in RowContents, NEW L, NEW P, NEW M, Agrees(row, L, P, M),
           NEW m, \A k \in row.pools : m \notin row.members[k],
           NEW M2, \A x \in Member \ {m} : M2[x] = M[x]
    PROVE  Agrees(row, L, P, M2)
<1>1. \A k \in row.pools : row.members[k] \subseteq Member
  BY DEF RowContents
<1>2. MembersAgree(row, M2)
  BY <1>1, MembersAgreeStill DEF Agrees
<1>. QED  BY <1>2 DEF Agrees

\* The status of one member is written: the rest of the row is as it was.
LEMMA SetStatusAgrees ==
    ASSUME NEW row \in RowContents, NEW m \in Member, NEW status,
           NEW L, NEW P, NEW M, Agrees(row, L, P, M),
           (\E k \in row.pools : m \in row.members[k]) /\ status # "OFFLINE" => M[m].up
    PROVE  Agrees(SetStatus(row, m, status), L, P, M)
<1>. DEFINE new == SetStatus(row, m, status)
<1>1. /\ new.pools = row.pools /\ new.listeners = row.listeners
      /\ new.refs = row.refs /\ new.members = row.members
      /\ new.status[m] = status
      /\ \A x \in Member \ {m} : new.status[x] = row.status[x]
  BY SetStatusRest
<1>. HIDE DEF new
<1>2. \A k \in row.pools : row.members[k] \subseteq Member
  BY DEF RowContents
<1>3. MembersAgree(new, M)
  BY <1>1, <1>2 DEF Agrees, MembersAgree
<1>. QED  BY <1>1, <1>3 DEF new, Agrees, ListenersAgree, PoolsAgree

\* A status that leaves the member OFFLINE or not, or that is of a member the row
\* does not list, needs no refresh.
LEMMA SetStatusFresh ==
    ASSUME NEW row \in RowContents, Fresh(row), NEW m \in Member, NEW status,
           \/ \A k \in row.pools : m \notin row.members[k]
           \/ (row.status[m] = "OFFLINE") <=> (status = "OFFLINE")
    PROVE  Fresh(SetStatus(row, m, status))
<1>. DEFINE new == SetStatus(row, m, status)
<1>1. /\ new.pools = row.pools /\ new.listeners = row.listeners
      /\ new.refs = row.refs /\ new.members = row.members
      /\ new.enabled = row.enabled /\ new.vips = row.vips
      /\ new.status[m] = status
      /\ \A x \in Member \ {m} : new.status[x] = row.status[x]
  BY SetStatusRest
<1>. HIDE DEF new
<1>2. ASSUME NEW l \in Listener, NEW x \in Member
      PROVE  Serves(new, l, x) <=> Serves(row, l, x)
  <2>1. \A k : Routes(new, l, k) <=> Routes(row, l, k)
    BY <1>1 DEF Routes
  <2>2. CASE (new.status[x] = "OFFLINE") <=> (row.status[x] = "OFFLINE")
    BY <1>1, <2>1, <2>2 DEF Serves
  <2>3. CASE x = m /\ \A k \in row.pools : m \notin row.members[k]
    BY <1>1, <2>3 DEF Serves, Routes
  <2>. QED  BY <1>1, <2>2, <2>3
<1>. QED  BY <1>1, <1>2, StaysFresh DEF new

\* No row holds the pool: no row lists the member.
LEMMA MemberNowhere ==
    ASSUME SInv, oLb.prov = "ACTIVE", NEW m \in Member, PoolRows(PoolOf[m]) = {},
           NEW s \in live, NEW k \in rows[s].pools
    PROVE  m \notin rows[s].members[k]
<1>. DEFINE holding(b) == {r \in live : <<PoolOf[m], b>> \in rows[r].pools}
<1>1. holding(TRUE) = {} /\ holding(FALSE) = {}
  <2>. DEFINE yes == holding(TRUE)
              no == holding(FALSE)
  <2>1. (IF yes # {} THEN yes \X {<<PoolOf[m], TRUE>>}
                     ELSE no \X {<<PoolOf[m], FALSE>>}) = {}
    BY DEF PoolRows
  <2>. HIDE DEF yes, no
  <2>2. yes = {}
    <3>1. SUFFICES ASSUME NEW r \in yes PROVE FALSE
      OBVIOUS
    <3>2. <<r, <<PoolOf[m], TRUE>>>> \in yes \X {<<PoolOf[m], TRUE>>}
      OBVIOUS
    <3>. QED  BY <2>1, <3>2
  <2>3. no = {}
    <3>1. SUFFICES ASSUME NEW r \in no PROVE FALSE
      OBVIOUS
    <3>2. <<r, <<PoolOf[m], FALSE>>>> \in no \X {<<PoolOf[m], FALSE>>}
      OBVIOUS
    <3>. QED  BY <2>1, <2>2, <3>2
  <2>. QED  BY <2>2, <2>3 DEF yes, no
<1>2. k \in PoolKey /\ (m \in rows[s].members[k] => PoolOf[m] = k[1])
  BY ActiveServes DEF RowContents, Agrees, MembersAgree
<1>3. k = <<k[1], k[2]>> /\ k[2] \in BOOLEAN
  BY <1>2 DEF PoolKey
<1>. QED  BY <1>1, <1>2, <1>3

LEMMA MemberCreateServes ==
    ASSUME SInv, Failures = {}, NEW m \in Member, NEW up \in CreateStates,
           MemberCreate(m, up)
    PROVE  Agreement' /\ VipsFresh'
<1>. DEFINE record == [prov |-> "ACTIVE", up |-> up]
            status == IF up THEN "NO_MONITOR" ELSE "OFFLINE"
<1>1. /\ oLb.prov = "ACTIVE" /\ UNCHANGED <<oLb, oListener, oPool>> /\ up \in BOOLEAN
      /\ ~Exists(oMember[m])
      /\ \A s \in live, k \in PoolKey : m \notin rows[s].members[k]
  BY ConstantsAssumption DEF MemberCreate, Mutable, UnusedMember
<1>2. ASSUME oMember' = [oMember EXCEPT ![m] = record]
      PROVE  /\ Exists(oMember'[m]) /\ oMember'[m].up = up
             /\ \A x \in Member \ {m} : oMember'[x] = oMember[x]
  <2>1. \A x \in Member : oMember'[x] = IF x = m THEN record ELSE oMember[x]
    BY <1>1, <1>2, ActiveServes DEF OctaviaOK
  <2>. QED  BY <2>1 DEF Exists
<1>3. ASSUME oMember' = [oMember EXCEPT ![m] = record], NEW s \in live
      PROVE  Agrees(rows[s], oListener', oPool', oMember')
  <2>1. /\ rows[s] \in RowContents /\ rows[s].pools \subseteq PoolKey
        /\ Agrees(rows[s], oListener, oPool, oMember)
    BY <1>1, ActiveServes DEF RowContents
  <2>3. \A k \in rows[s].pools : m \notin rows[s].members[k]
    BY <1>1, <2>1
  <2>4. \A x \in Member \ {m} : oMember'[x] = oMember[x]
    BY <1>2, <1>3
  <2>2. Agrees(rows[s], oListener, oPool, oMember')
    BY <2>1, <2>3, <2>4, MemberUnlisted
  <2>. QED  BY <1>1, <2>2
<1>4. ASSUME NEW rk \in PoolRows(PoolOf[m]),
             Put(rk[1], SetStatus(MemberJoined(rows[rk[1]], rk[2], m, up), m, status)),
             oMember' = [oMember EXCEPT ![m] = record]
      PROVE  Agreement' /\ VipsFresh'
  <2>. DEFINE row == rows[rk[1]]
              k == rk[2]
              mems == row.members[k] \cup {m}
              joined == PutPool(row, k, mems)
              base == MemberJoined(row, k, m, up)
              new == SetStatus(base, m, status)
  <2>1. /\ rk[1] \in live /\ rk[1] \in Row /\ k \in row.pools
        /\ k \in PoolKey /\ k[1] = PoolOf[m]
        /\ row \in RowContents /\ Fresh(row)
    BY <1>1, MemberRow
  <2>2. Agrees(row, oListener', oPool', oMember')
    BY <1>3, <1>4, <2>1
  <2>3. row.status[m] = "none"
    <3>1. Known(row, KnownPools, KnownMembers)
      BY <1>1, <2>1, ActiveServes
    <3>2. m \notin KnownMembers
      BY <1>1 DEF KnownMembers, Exists
    <3>. QED  BY <3>1, <3>2 DEF Known, StatusKnown
  <2>4. \A x \in PoolKey : m \notin row.members[x]
    BY <1>1, <2>1
  <2>5. mems \in SUBSET Member
    BY <2>1 DEF RowContents
  <2>. HIDE DEF row, k
  <2>6. /\ joined \in RowContents
        /\ joined.pools = row.pools
        /\ joined.status = row.status /\ joined.refs = row.refs
        /\ joined.listeners = row.listeners
        /\ joined.members[k] = mems
        /\ \A x \in PoolKey \ {k} : joined.members[x] = row.members[x]
        /\ joined.enabled = row.enabled /\ joined.vips = row.vips
    <3>1. row.pools \cup {k} = row.pools
      BY <2>1
    <3>. HIDE DEF mems
    <3>2. joined \in RowContents
      BY <2>1, <2>5, PutPoolGives
    <3>3. /\ joined.pools = row.pools
          /\ joined.status = row.status /\ joined.refs = row.refs
          /\ joined.listeners = row.listeners
      BY <2>1, <3>1, PutPoolRecords
    <3>4. /\ joined.members[k] = mems
          /\ \A x \in PoolKey \ {k} : joined.members[x] = row.members[x]
          /\ joined.enabled = row.enabled /\ joined.vips = row.vips
      BY <2>1, PutPoolRest
    <3>. QED  BY <3>2, <3>3, <3>4
  <2>7. base = IF up THEN Refresh(joined) ELSE joined
    BY DEF MemberJoined
  <2>. HIDE DEF joined, base
  <2>8. base \in RowContents /\ SameInputs(base, joined)
    <3>1. SameInputs(joined, joined)
      BY DEF SameInputs, SameRecords
    <3>. QED  BY <2>6, <2>7, <3>1, RefreshKeeps, RefreshFresh
  <2>9. /\ new.pools = base.pools /\ new.listeners = base.listeners
        /\ new.refs = base.refs /\ new.members = base.members
        /\ new.enabled = base.enabled /\ new.vips = base.vips
        /\ new.status[m] = status
        /\ \A x \in Member \ {m} : new.status[x] = base.status[x]
    <3>. HIDE DEF status
    <3>. QED  BY <2>8, SetStatusRest
  <2>10. /\ new.pools = row.pools /\ new.listeners = row.listeners
         /\ new.refs = row.refs /\ new.members[k] = mems
         /\ \A x \in PoolKey \ {k} : new.members[x] = row.members[x]
         /\ new.enabled = row.enabled
         /\ \A x \in Member \ {m} : new.status[x] = row.status[x]
    <3>. HIDE DEF new, mems
    <3>. QED  BY <2>6, <2>8, <2>9 DEF SameInputs, SameRecords
  <2>11. status # "OFFLINE" => up
    OBVIOUS
  <2>12. MembersAgree(new, oMember')
    <3>1. row.pools \subseteq PoolKey /\ \A x \in PoolKey : row.members[x] \subseteq Member
      BY <2>1 DEF RowContents
    <3>. HIDE DEF new
    <3>2. ASSUME NEW x \in new.pools, NEW y \in new.members[x]
          PROVE  /\ PoolOf[y] = x[1]
                 /\ Exists(oMember'[y])
                 /\ new.status[y] # "OFFLINE" => oMember'[y].up
      <4>1. x \in row.pools /\ x \in PoolKey
        BY <2>10, <3>1
      <4>2. CASE y = m
        <5>1. x = k
          BY <2>4, <2>10, <3>2, <4>1, <4>2
        <5>2. new.status[y] = status
          BY <2>9, <4>2
        <5>3. PoolOf[y] = x[1]
          BY <2>1, <4>2, <5>1
        <5>. HIDE DEF status
        <5>. QED  BY <1>2, <1>4, <2>11, <4>2, <5>2, <5>3
      <4>3. CASE y # m
        <5>1. y \in row.members[x]
          BY <2>10, <3>2, <4>1, <4>3
        <5>2. y \in Member /\ new.status[y] = row.status[y]
          BY <2>10, <3>1, <4>1, <4>3, <5>1
        <5>. QED  BY <2>2, <4>1, <5>1, <5>2 DEF Agrees, MembersAgree
      <4>. QED  BY <4>2, <4>3
    <3>. QED  BY <3>2 DEF MembersAgree
  <2>13. Agrees(new, oListener', oPool', oMember')
    <3>. HIDE DEF new
    <3>. QED  BY <2>2, <2>10, <2>12 DEF Agrees, ListenersAgree, PoolsAgree
  <2>14. CASE up
    <3>1. Fresh(base)
      BY <2>6, <2>7, <2>14, RefreshFresh
    <3>2. base.status[m] = "none" /\ status = "NO_MONITOR"
      BY <2>3, <2>6, <2>8, <2>14 DEF SameInputs, SameRecords
    <3>3. Fresh(new)
      <4>1. (base.status[m] = "OFFLINE") <=> (status = "OFFLINE")
        BY <3>2
      <4>. HIDE DEF status
      <4>. QED  BY <2>8, <3>1, <4>1, SetStatusFresh
    <3>. HIDE DEF new
    <3>. QED  BY <1>1, <1>3, <1>4, <2>1, <2>13, <3>3, OnePutServes DEF new, base, row, k
  <2>15. CASE ~up
    <3>1. new.vips = row.vips /\ status = "OFFLINE"
      BY <2>6, <2>7, <2>9, <2>15
    <3>2. ASSUME NEW l \in Listener, NEW x \in Member
          PROVE  Serves(new, l, x) <=> Serves(row, l, x)
      <4>. HIDE DEF new
      <4>1. \A q : Routes(new, l, q) <=> Routes(row, l, q)
        BY <2>10 DEF Routes
      <4>2. CASE x = m
        <5>1. ~Serves(new, l, x)
          BY <2>9, <3>1, <4>2 DEF Serves
        <5>2. ~Serves(row, l, x)
          BY <2>4, <4>2 DEF Serves
        <5>. QED  BY <5>1, <5>2
      <4>3. CASE x # m
        <5>1. \A q \in PoolKey : x \in new.members[q] <=> x \in row.members[q]
          BY <2>10, <4>3
        <5>. QED  BY <2>10, <4>1, <4>3, <5>1 DEF Serves
      <4>. QED  BY <4>2, <4>3
    <3>. HIDE DEF new
    <3>3. Fresh(new)
      BY <2>1, <3>1, <3>2, StaysFresh
    <3>. QED  BY <1>1, <1>3, <1>4, <2>1, <2>13, <3>3, OnePutServes DEF new, base, row, k
  <2>. QED  BY <1>1, <2>14, <2>15
<1>5. CASE MemberRowMissing(m, record)
  <2>1. UNCHANGED <<live, rows>> /\ oMember' = [oMember EXCEPT ![m] = record]
    BY <1>5 DEF MemberRowMissing
  <2>2. \A s \in live : Agrees(rows[s], oListener', oPool', oMember')
    BY <1>3, <2>1
  <2>. QED  BY <1>1, <2>1, <2>2, NothingPutServes
<1>. QED
  <2>1. \/ MemberRowMissing(m, record)
        \/ \E rk \in PoolRows(PoolOf[m]) :
              /\ Put(rk[1], SetStatus(MemberJoined(rows[rk[1]], rk[2], m, up), m, status))
              /\ oMember' = [oMember EXCEPT ![m] = record]
    BY DEF MemberCreate, Report
  <2>. HIDE DEF status, record
  <2>. QED  BY <1>4, <1>5, <2>1

LEMMA MemberDeleteServes ==
    ASSUME SInv, Failures = {}, NEW m \in Member, MemberDelete(m)
    PROVE  Agreement' /\ VipsFresh'
<1>1. oLb.prov = "ACTIVE" /\ UNCHANGED <<oLb, oListener, oPool>>
  BY DEF MemberDelete, Mutable
<1>2. ASSUME NEW rk \in PoolRows(PoolOf[m]),
             Put(rk[1], Forget(MemberLeft(rows[rk[1]], rk[2], m), m)),
             oMember' = [oMember EXCEPT ![m] = AbsentChild]
      PROVE  Agreement' /\ VipsFresh'
  <2>. DEFINE row == rows[rk[1]]
              k == rk[2]
              mems == row.members[k] \ {m}
              dropped == PutPool(row, k, mems)
              left == MemberLeft(row, k, m)
              new == SetStatus(left, m, "none")
  <2>1. /\ rk[1] \in live /\ rk[1] \in Row /\ k \in row.pools
        /\ k \in PoolKey
        /\ row \in RowContents /\ Fresh(row)
        /\ Agrees(row, oListener, oPool, oMember)
        /\ \A x \in row.pools : x[1] = PoolOf[m] => x = k
        /\ \A s \in live \ {rk[1]} : \A x \in rows[s].pools : m \notin rows[s].members[x]
    BY <1>1, MemberRow
  <2>2. mems \in SUBSET Member /\ row.pools \subseteq PoolKey
    BY <2>1 DEF RowContents
  <2>3. \A x \in Member \ {m} : oMember'[x] = oMember[x]
    BY <1>1, <1>2, ActiveServes DEF OctaviaOK
  <2>. HIDE DEF row, k
  <2>4. /\ dropped \in RowContents
        /\ dropped.pools = row.pools
        /\ dropped.status = row.status /\ dropped.refs = row.refs
        /\ dropped.listeners = row.listeners
        /\ dropped.members[k] = mems
        /\ \A x \in PoolKey \ {k} : dropped.members[x] = row.members[x]
    <3>1. row.pools \cup {k} = row.pools
      BY <2>1
    <3>. HIDE DEF mems
    <3>2. dropped \in RowContents
      BY <2>1, <2>2, PutPoolGives
    <3>3. /\ dropped.pools = row.pools
          /\ dropped.status = row.status /\ dropped.refs = row.refs
          /\ dropped.listeners = row.listeners
      BY <2>1, <3>1, PutPoolRecords
    <3>4. /\ dropped.members[k] = mems
          /\ \A x \in PoolKey \ {k} : dropped.members[x] = row.members[x]
      BY <2>1, PutPoolRest
    <3>. QED  BY <3>2, <3>3, <3>4
  <2>5. left = IF m \in row.members[k] THEN Refresh(dropped) ELSE row
    BY DEF MemberLeft
  <2>. HIDE DEF dropped, left
  <2>6. /\ left \in RowContents /\ Fresh(left)
        /\ left.pools = row.pools
        /\ left.status = row.status /\ left.refs = row.refs
        /\ left.listeners = row.listeners
        /\ left.members[k] = mems
        /\ \A x \in PoolKey \ {k} : left.members[x] = row.members[x]
    <3>1. CASE m \in row.members[k]
      <4>1. left = Refresh(dropped)
        BY <2>5, <3>1
      <4>. HIDE DEF mems
      <4>. QED  BY <2>4, <4>1, RefreshKeeps, RefreshFresh DEF SameInputs, SameRecords
    <3>2. CASE m \notin row.members[k]
      BY <2>1, <2>5, <3>2
    <3>. QED  BY <3>1, <3>2
  \* The member stands under no key of the row any more.
  <2>7. ASSUME NEW x \in left.pools
        PROVE  m \notin left.members[x]
    <3>1. CASE x = k
      BY <2>6, <3>1
    <3>2. CASE x # k
      <4>1. x \in row.pools /\ x[1] # PoolOf[m] /\ left.members[x] = row.members[x]
        BY <2>1, <2>2, <2>6, <3>2
      <4>. QED  BY <2>1, <4>1 DEF Agrees, MembersAgree
    <3>. QED  BY <3>1, <3>2
  <2>8. Agrees(left, oListener, oPool, oMember)
    <3>1. \A x \in left.pools : left.members[x] \subseteq row.members[x]
      BY <2>2, <2>6
    <3>. HIDE DEF mems
    <3>. QED  BY <2>1, <2>6, <3>1 DEF Agrees, ListenersAgree, PoolsAgree, MembersAgree
  <2>. HIDE DEF mems
  <2>9. Agrees(left, oListener, oPool, oMember')
    BY <2>3, <2>6, <2>7, <2>8, MemberUnlisted
  <2>10. Agrees(new, oListener', oPool', oMember')
    BY <1>1, <2>6, <2>7, <2>9, SetStatusAgrees
  <2>11. Fresh(new)
    BY <2>6, <2>7, SetStatusFresh
  <2>12. ASSUME NEW s \in live \ {rk[1]}
         PROVE  Agrees(rows[s], oListener', oPool', oMember')
    <3>1. rows[s] \in RowContents /\ Agrees(rows[s], oListener, oPool, oMember)
      BY <1>1, ActiveServes
    <3>2. Agrees(rows[s], oListener, oPool, oMember')
      BY <2>1, <2>3, <3>1, MemberUnlisted
    <3>. QED  BY <1>1, <3>2
  <2>13. Put(rk[1], new)
    BY <1>2, ForgetIsSetStatus DEF left, row, k
  <2>. HIDE DEF new
  <2>. QED  BY <1>1, <2>1, <2>10, <2>11, <2>12, <2>13, OnePutServes
<1>3. CASE MemberRowMissing(m, oMember[m])
  <2>1. UNCHANGED <<live, rows>> /\ oMember' = [oMember EXCEPT ![m] = oMember[m]]
    BY <1>3 DEF MemberRowMissing
  <2>2. oMember' = oMember
    BY <1>1, <2>1, ActiveServes DEF OctaviaOK
  <2>3. \A s \in live : Agrees(rows[s], oListener', oPool', oMember')
    BY <1>1, <2>2, ActiveServes
  <2>. QED  BY <1>1, <2>1, <2>3, NothingPutServes
<1>. QED
  <2>1. \/ MemberRowMissing(m, oMember[m])
        \/ \E rk \in PoolRows(PoolOf[m]) :
              /\ Put(rk[1], Forget(MemberLeft(rows[rk[1]], rk[2], m), m))
              /\ oMember' = [oMember EXCEPT ![m] = AbsentChild]
    BY DEF MemberDelete, Report
  <2>. QED  BY <1>2, <1>3, <2>1

LEMMA MemberUpdateServes ==
    ASSUME SInv, Failures = {}, NEW m \in Member, NEW up \in Opt(BOOLEAN),
           MemberUpdate(m, up)
    PROVE  Agreement' /\ VipsFresh'
<1>. DEFINE to == Given(up, TRUE)
            word == IF to THEN "NO_MONITOR" ELSE "OFFLINE"
            asked == [prov |-> "ACTIVE", up |-> Given(up, oMember[m].up)]
<1>1. /\ oLb.prov = "ACTIVE" /\ UNCHANGED <<oLb, oListener, oPool>>
      /\ Exists(oMember[m])
  BY DEF MemberUpdate, Mutable
<1>2. to \in BOOLEAN /\ (word = "OFFLINE" <=> ~to)
  <2>1. to \in BOOLEAN
    BY DEF Opt, Given
  <2>. QED  BY <2>1
<1>3. ASSUME oMember' = [oMember EXCEPT ![m] = asked]
      PROVE  /\ Exists(oMember'[m])
             /\ oMember'[m].up = Given(up, oMember[m].up)
             /\ \A x \in Member \ {m} : oMember'[x] = oMember[x]
  <2>1. \A x \in Member : oMember'[x] = IF x = m THEN asked ELSE oMember[x]
    BY <1>1, <1>3, ActiveServes DEF OctaviaOK
  <2>. QED  BY <2>1 DEF Exists
<1>4. ASSUME NEW row \in RowContents, Agrees(row, oListener, oPool, oMember),
             oMember' = [oMember EXCEPT ![m] = asked],
             \A k \in row.pools : m \notin row.members[k]
      PROVE  Agrees(row, oListener', oPool', oMember')
  <2>1. Agrees(row, oListener, oPool, oMember')
    BY <1>3, <1>4, MemberUnlisted
  <2>. QED  BY <1>1, <2>1
<1>5. ASSUME NEW rk \in PoolRows(PoolOf[m]),
             oMember' = [oMember EXCEPT ![m] = asked],
             LET row == rows[rk[1]]
             IN  \/ up = {} /\ Put(rk[1], row)
                 \/ up # {} /\ Put(rk[1], Refresh(SetStatus(row, m, word)))
                 \/ /\ up # {} /\ (row.status[m] = "OFFLINE") # to
                    /\ Put(rk[1], SetStatus(row, m, word))
      PROVE  Agreement' /\ VipsFresh'
  <2>. DEFINE row == rows[rk[1]]
              new == SetStatus(row, m, word)
  <2>1. /\ rk[1] \in live /\ rk[1] \in Row
        /\ row \in RowContents /\ Fresh(row)
        /\ Agrees(row, oListener, oPool, oMember)
        /\ \A s \in live \ {rk[1]} : \A k \in rows[s].pools : m \notin rows[s].members[k]
    BY <1>1, MemberRow
  <2>2. \A s \in live \ {rk[1]} : Agrees(rows[s], oListener', oPool', oMember')
    BY <1>1, <1>4, <1>5, <2>1, ActiveServes
  <2>3. CASE up = {}
    <3>1. \A x \in Member : oMember'[x].up = oMember[x].up
                            /\ (Exists(oMember[x]) => Exists(oMember'[x]))
      BY <1>3, <1>5, <2>3 DEF Given
    <3>2. \A k \in row.pools : row.members[k] \subseteq Member
      BY <2>1 DEF RowContents
    <3>3. MembersAgree(row, oMember')
      BY <2>1, <3>1, <3>2 DEF Agrees, MembersAgree
    <3>4. Agrees(row, oListener', oPool', oMember')
      BY <1>1, <2>1, <3>3 DEF Agrees
    <3>. QED  BY <1>1, <1>5, <2>1, <2>2, <2>3, <3>4, OnePutServes
  <2>4. CASE up # {}
    <3>1. oMember'[m].up = to
      BY <1>3, <1>5, <2>4 DEF Given
    <3>. HIDE DEF row, word, to
    <3>2. /\ new.pools = row.pools /\ new.listeners = row.listeners
          /\ new.refs = row.refs /\ new.members = row.members
          /\ new.status[m] = word
          /\ \A x \in Member \ {m} : new.status[x] = row.status[x]
      BY <2>1, SetStatusRest
    <3>3. word \in MemberStatus
      BY DEF word, MemberStatus
    <3>4. new \in RowContents
      BY <2>1, <3>3, SetStatusKeeps
    <3>. HIDE DEF new
    <3>5. Agrees(new, oListener', oPool', oMember')
      <4>1. \A k \in row.pools : row.members[k] \subseteq Member
        BY <2>1 DEF RowContents
      <4>2. ASSUME NEW k \in new.pools, NEW x \in new.members[k]
            PROVE  /\ PoolOf[x] = k[1]
                   /\ Exists(oMember'[x])
                   /\ new.status[x] # "OFFLINE" => oMember'[x].up
        <5>1. /\ PoolOf[x] = k[1] /\ Exists(oMember[x]) /\ x \in Member
              /\ row.status[x] # "OFFLINE" => oMember[x].up
          BY <2>1, <3>2, <4>1, <4>2 DEF Agrees, MembersAgree
        <5>2. CASE x = m
          BY <1>2, <1>3, <1>5, <3>1, <3>2, <5>1, <5>2
        <5>3. CASE x # m
          BY <1>3, <1>5, <3>2, <5>1, <5>3
        <5>. QED  BY <5>2, <5>3
      <4>3. MembersAgree(new, oMember')
        BY <4>2 DEF MembersAgree
      <4>. QED  BY <1>1, <2>1, <3>2, <4>3 DEF Agrees, ListenersAgree, PoolsAgree
    <3>6. CASE Put(rk[1], Refresh(new))
      <4>1. Fresh(Refresh(new)) /\ Agrees(Refresh(new), oListener', oPool', oMember')
        BY <3>4, <3>5, RefreshFresh, AgreesSame DEF SameInputs
      <4>. QED  BY <1>1, <2>1, <2>2, <3>6, <4>1, OnePutServes
    <3>7. CASE Put(rk[1], new) /\ (row.status[m] = "OFFLINE") # to
      <4>1. (row.status[m] = "OFFLINE") <=> (word = "OFFLINE")
        BY <1>2, <3>7
      <4>2. Fresh(new)
        BY <2>1, <4>1, SetStatusFresh DEF new
      <4>. QED  BY <1>1, <2>1, <2>2, <3>5, <3>7, <4>2, OnePutServes
    <3>. QED  BY <1>5, <2>4, <3>6, <3>7 DEF new, row
  <2>. QED  BY <2>3, <2>4
<1>6. CASE MemberRowMissing(m, asked)
  <2>1. /\ UNCHANGED <<live, rows>> /\ PoolRows(PoolOf[m]) = {}
        /\ oMember' = [oMember EXCEPT ![m] = asked]
    BY <1>6 DEF MemberRowMissing
  <2>2. \A s \in live : Agrees(rows[s], oListener', oPool', oMember')
    BY <1>1, <1>4, <2>1, MemberNowhere, ActiveServes
  <2>. QED  BY <1>1, <2>1, <2>2, NothingPutServes
<1>. QED
  <2>1. \/ MemberRowMissing(m, asked)
        \/ \E rk \in PoolRows(PoolOf[m]) :
              /\ oMember' = [oMember EXCEPT ![m] = asked]
              /\ LET row == rows[rk[1]]
                 IN  \/ up = {} /\ Put(rk[1], row)
                     \/ up # {} /\ Put(rk[1], Refresh(SetStatus(row, m, word)))
                     \/ /\ up # {} /\ (row.status[m] = "OFFLINE") # to
                        /\ Put(rk[1], SetStatus(row, m, word))
    BY DEF MemberUpdate, Report
  <2>. HIDE DEF word, asked, to
  <2>. QED  BY <1>5, <1>6, <2>1

LEMMA NextServes ==
    ASSUME Failures = {}, SInv, [Next]_vars
    PROVE  SInv'
<1>. SUFFICES Agreement' /\ VipsFresh'
  BY NextKnows DEF SInv
<1>. CreateStates \subseteq BOOLEAN
  BY ConstantsAssumption
<1>1. ASSUME NEW up \in CreateStates, LbCreate(up) PROVE Agreement' /\ VipsFresh'
  BY <1>1, LbCreateServes
<1>2. ASSUME NEW up \in BOOLEAN, LbUpdate(up) PROVE Agreement' /\ VipsFresh'
  BY <1>2, LbUpdateServes
<1>3. ASSUME NEW cascade \in BOOLEAN, LbDelete(cascade)
      PROVE  Agreement' /\ VipsFresh'
  BY <1>3, LbDeleteServes
<1>4. ASSUME NEW l \in Listener,
             \/ \E up \in CreateStates, dp \in Pool \cup {None} :
                   ListenerCreate(l, up, dp)
             \/ \E up \in Opt(BOOLEAN), dp \in Opt(Pool \cup {None}) :
                   ListenerUpdate(l, up, dp)
             \/ ListenerDelete(l)
      PROVE  Agreement' /\ VipsFresh'
  BY <1>4, ListenerCreateServes, ListenerUpdateServes, ListenerDeleteServes
<1>5. ASSUME NEW p \in Pool,
             \/ \E up \in CreateStates, l \in Listener \cup {None} :
                   PoolCreate(p, up, l)
             \/ \E up \in Opt(BOOLEAN) : PoolUpdate(p, up)
             \/ PoolDelete(p)
      PROVE  Agreement' /\ VipsFresh'
  BY <1>5, PoolCreateServes, PoolUpdateServes, PoolDeleteServes
<1>6. ASSUME NEW m \in Member,
             \/ \E up \in CreateStates : MemberCreate(m, up)
             \/ \E up \in Opt(BOOLEAN) : MemberUpdate(m, up)
             \/ MemberDelete(m)
      PROVE  Agreement' /\ VipsFresh'
  BY <1>6, MemberCreateServes, MemberUpdateServes, MemberDeleteServes
<1>7. ASSUME UNCHANGED vars PROVE Agreement' /\ VipsFresh'
  <2>1. Agreement'
    BY <1>7 DEF vars, SInv, Agreement
  <2>. QED  BY <1>7, <2>1, UnchangedFresh DEF vars, SInv
<1>. QED  BY <1>1, <1>2, <1>3, <1>4, <1>5, <1>6, <1>7 DEF Next

THEOREM ServiceInvariance ==
    ASSUME Failures = {}
    PROVE  Spec => []SInv
<1>1. Init => SInv
  <2>1. Init => KInv
    BY InitOK DEF Init, KInv, Knows
  <2>. QED  BY <2>1 DEF Init, SInv, Agreement, VipsFresh
<1>2. SInv /\ [Next]_vars => SInv'
  BY NextServes
<1>. QED  BY <1>1, <1>2, PTL DEF Spec

-----------------------------------------------------------------------------
(* The theorems                                                            *)

\* While no database call fails, the vips of every row are what _frame_vip_ips
\* makes of its external_ids: the handlers that skip _refresh_lb_vips (pool_create,
\* member_create of a disabled member, member_update, member_delete of the status)
\* change nothing that it reads.
THEOREM VipsStayFresh ==
    ASSUME Failures = {}
    PROVE  Spec => []VipsFresh
<1>1. SInv => VipsFresh
  BY DEF SInv
<1>. QED  BY <1>1, ServiceInvariance, PTL

\* While no database call fails, whatever the VIP of an ACTIVE load balancer
\* forwards was configured so: the listener is enabled and has the pool as its
\* default, the pool is enabled, and so is the member.
THEOREM NothingElseServed ==
    ASSUME Failures = {}
    PROVE  Spec => []ServedIsConfigured
<1>1. SInv => ServedIsConfigured
  <2>. SUFFICES ASSUME SInv, oLb.prov = "ACTIVE", NEW l \in Listener,
                       NEW r \in live, NEW m \in rows[r].vips[l]
                PROVE  /\ oListener[l].up
                       /\ oListener[l].pool = PoolOf[m]
                       /\ oPool[PoolOf[m]].up
                       /\ oMember[m].up
    BY DEF ServedIsConfigured, Backends
  <2>. DEFINE row == rows[r]
  <2>1. /\ row \in RowContents /\ Fresh(row)
        /\ Agrees(row, oListener, oPool, oMember)
    BY ActiveServes
  <2>. HIDE DEF row
  <2>2. m \in Member /\ Serves(row, l, m)
    <3>1. m \in FrameVips(row)[l]
      BY <2>1 DEF Fresh, row
    <3>. QED  BY <3>1 DEF FrameVips, Serves
  <2>3. PICK k \in PoolKey : Routes(row, l, k) /\ m \in row.members[k]
    BY <2>2 DEF Serves
  <2>4. /\ <<l, TRUE>> \in row.listeners /\ k \in row.pools /\ k[2]
        /\ k \in row.refs[<<l, TRUE>>]
    BY <2>3 DEF Routes
  <2>5. k[1] \in Pool /\ k[1] # None
    BY ConstantsAssumption DEF PoolKey
  <2>6. Exists(oListener[l]) /\ oListener[l].up /\ oListener[l].pool = k[1]
    <3>1. /\ Exists(oListener[l]) /\ oListener[l].up
          /\ \A x \in row.refs[<<l, TRUE>>] : x[1] \in {None, oListener[l].pool}
      BY <2>1, <2>4 DEF Agrees, ListenersAgree
    <3>. QED  BY <2>4, <2>5, <3>1
  <2>7. oPool[k[1]].up
    BY <2>1, <2>4 DEF Agrees, PoolsAgree
  <2>8. PoolOf[m] = k[1] /\ oMember[m].up
    BY <2>1, <2>2, <2>3, <2>4 DEF Agrees, MembersAgree, Serves
  <2>. QED  BY <2>6, <2>7, <2>8
<1>. QED  BY <1>1, ServiceInvariance, PTL
=============================================================================
