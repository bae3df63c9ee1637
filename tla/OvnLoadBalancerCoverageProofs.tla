------------------- MODULE OvnLoadBalancerCoverageProofs -------------------
(***************************************************************************)
(* That whatever is configured and enabled is forwarded.  It takes a load  *)
(* balancer whose children were created enabled, its pools without a       *)
(* listener (the history 'usual'), and no database call that fails: each   *)
(* of the three excludes a hazard of the code that loses traffic.  Pools   *)
(* may switch, be disabled and deleted in any order.  While no request is  *)
(* unanswered, every resource Octavia knows then has its key in a row      *)
(* (Coverage), under the suffix its record asks for; SInv says that the    *)
(* keys are no others, and OneKey and ProtocolsDistinct that the keys of a *)
(* listener, of its default pool and of the members stand in one row.      *)
(***************************************************************************)
EXTENDS OvnLoadBalancerHistory, OvnLoadBalancerServiceProofs

HasListener(row, l, record) ==
    /\ <<l, record.up>> \in row.listeners
    /\ record.pool # None => row.refs[<<l, record.up>>] = {<<record.pool, TRUE>>}

HasPool(row, p, record) == <<p, record.up>> \in row.pools

HasMember(row, m, record) ==
    \E k \in row.pools : /\ m \in row.members[k]
                         /\ record.up => row.status[m] # "OFFLINE"

Covering(S, R, L, P, M) ==
    /\ \A l \in Listener : Exists(L[l]) => \E s \in S : HasListener(R[s], l, L[l])
    /\ \A p \in Pool : Exists(P[p]) => \E s \in S : HasPool(R[s], p, P[p])
    /\ \A m \in Member : Exists(M[m]) => \E s \in S : HasMember(R[s], m, M[m])

Coverage == oLb.prov = "ACTIVE" /\ ~unanswered =>
    /\ oLb.up => \A r \in live : rows[r].enabled
    /\ Covering(live, rows, oListener, oPool, oMember)

\* What does not exist is not enabled, and without a load balancer nothing exists.
Settled ==
    /\ \A l \in Listener : ~Exists(oListener[l]) => ~oListener[l].up
    /\ \A p \in Pool : ~Exists(oPool[p]) => ~oPool[p].up
    /\ \A m \in Member : ~Exists(oMember[m]) => ~oMember[m].up
    /\ oLb.prov = "ABSENT" => /\ \A l \in Listener : ~Exists(oListener[l])
                              /\ \A p \in Pool : ~Exists(oPool[p])
                              /\ \A m \in Member : ~Exists(oMember[m])

CInv == SInv /\ Settled /\ Coverage

-----------------------------------------------------------------------------
(* Where a resource has its key                                            *)

LEMMA HasSame ==
    ASSUME NEW a, NEW b, SameRecords(a, b), a.members = b.members
    PROVE  /\ \A l, x : HasListener(b, l, x) => HasListener(a, l, x)
           /\ \A p, x : HasPool(b, p, x) => HasPool(a, p, x)
           /\ \A m, x : HasMember(b, m, x) => HasMember(a, m, x)
BY DEF SameRecords, HasListener, HasPool, HasMember

\* What a handler may rely on.
LEMMA ActiveCovers ==
    ASSUME CInv, Mutable
    PROVE  /\ SInv /\ Settled /\ oLb.prov = "ACTIVE" /\ RowsOK /\ OctaviaOK
           /\ Covering(live, rows, oListener, oPool, oMember)
           /\ oLb.up => \A r \in live : rows[r].enabled
BY ActiveServes DEF CInv, Coverage, Mutable

\* The row found for the protocol of a listener or a pool has its key.
LEMMA FoundListener ==
    ASSUME CInv, Mutable, NEW l \in Listener, Exists(oListener[l]),
           NEW r \in FindRow(ProtocolOf[l])
    PROVE  r \in live /\ HasListener(rows[r], l, oListener[l])
<1>1. PICK s \in live : HasListener(rows[s], l, oListener[l])
  BY ActiveCovers DEF Covering
<1>2. rows[s].protocol = ProtocolOf[l]
  <2>1. RowKeysOK(rows[s])
    BY ActiveCovers, ActiveServes
  <2>. QED  BY <1>1, <2>1 DEF RowKeysOK, HasListener
<1>3. s = r
  BY <1>2, ActiveCovers, FoundAlone, ConstantsAssumption
<1>. QED  BY <1>1, <1>3

LEMMA FoundPool ==
    ASSUME CInv, Mutable, NEW p \in Pool, Exists(oPool[p]),
           NEW r \in FindRow(ProtocolOf[p])
    PROVE  r \in live /\ HasPool(rows[r], p, oPool[p])
<1>1. PICK s \in live : HasPool(rows[s], p, oPool[p])
  BY ActiveCovers DEF Covering
<1>2. rows[s].protocol = ProtocolOf[p]
  <2>1. RowKeysOK(rows[s])
    BY ActiveCovers, ActiveServes
  <2>. QED  BY <1>1, <2>1 DEF RowKeysOK, HasPool
<1>3. s = r
  BY <1>2, ActiveCovers, FoundAlone, ConstantsAssumption
<1>. QED  BY <1>1, <1>3

-----------------------------------------------------------------------------
(* Writing a row                                                           *)

\* Row 'row' in the place of r covers what the others do not.
Complete(r, row, L, P, M) ==
    /\ \A l \in Listener : Exists(L[l]) =>
          \/ HasListener(row, l, L[l])
          \/ \E s \in live \ {r} : HasListener(rows[s], l, L[l])
    /\ \A p \in Pool : Exists(P[p]) =>
          \/ HasPool(row, p, P[p])
          \/ \E s \in live \ {r} : HasPool(rows[s], p, P[p])
    /\ \A m \in Member : Exists(M[m]) =>
          \/ HasMember(row, m, M[m])
          \/ \E s \in live \ {r} : HasMember(rows[s], m, M[m])

LEMMA CompleteSame ==
    ASSUME NEW a, NEW b, SameRecords(a, b), a.members = b.members,
           NEW r, NEW L, NEW P, NEW M, Complete(r, b, L, P, M)
    PROVE  Complete(r, a, L, P, M)
BY HasSame DEF Complete

\* It does when it keeps what r had, of the resources whose records are as before.
LEMMA KeptListener ==
    ASSUME Covering(live, rows, oListener, oPool, oMember), NEW r, NEW row,
           NEW l \in Listener, Exists(oListener[l]),
           r \in live /\ HasListener(rows[r], l, oListener[l]) =>
               HasListener(row, l, oListener[l])
    PROVE  \/ HasListener(row, l, oListener[l])
           \/ \E s \in live \ {r} : HasListener(rows[s], l, oListener[l])
BY DEF Covering

LEMMA KeptPool ==
    ASSUME Covering(live, rows, oListener, oPool, oMember), NEW r, NEW row,
           NEW p \in Pool, Exists(oPool[p]),
           r \in live /\ HasPool(rows[r], p, oPool[p]) => HasPool(row, p, oPool[p])
    PROVE  \/ HasPool(row, p, oPool[p])
           \/ \E s \in live \ {r} : HasPool(rows[s], p, oPool[p])
BY DEF Covering

LEMMA KeptMember ==
    ASSUME Covering(live, rows, oListener, oPool, oMember), NEW r, NEW row,
           NEW m \in Member, Exists(oMember[m]),
           r \in live /\ HasMember(rows[r], m, oMember[m]) =>
               HasMember(row, m, oMember[m])
    PROVE  \/ HasMember(row, m, oMember[m])
           \/ \E s \in live \ {r} : HasMember(rows[s], m, oMember[m])
BY DEF Covering

LEMMA PutCovers ==
    ASSUME RowsOK, NEW r \in Row, NEW row, Put(r, row),
           NEW L, NEW P, NEW M, Complete(r, row, L, P, M)
    PROVE  Covering(live', rows', L, P, M)
<1>1. /\ live' = live \cup {r} /\ rows'[r] = row
      /\ \A s \in live \ {r} : rows'[s] = rows[s]
  BY DEF Put, RowsOK
<1>. QED  BY <1>1 DEF Complete, Covering

LEMMA PutOrCleanCovers ==
    ASSUME RowsOK, NEW r \in live, NEW row \in RowContents, NEW left,
           PutOrClean(r, row, left), IsEmpty(left) => IsEmpty(row),
           NEW L, NEW P, NEW M, Complete(r, row, L, P, M)
    PROVE  Covering(live', rows', L, P, M)
<1>. r \in Row
  BY DEF RowsOK
<1>1. CASE Put(r, row)
  BY <1>1, PutCovers
<1>2. CASE Put(r, [row EXCEPT !.protocol = NoProtocol])
  <2>. DEFINE clean == [row EXCEPT !.protocol = NoProtocol]
  <2>1. SameRecords(clean, row) /\ clean.members = row.members
    BY DEF SameRecords, RowContents
  <2>. HIDE DEF clean
  <2>2. Complete(r, clean, L, P, M)
    BY <2>1, CompleteSame
  <2>. QED  BY <1>2, <2>2, PutCovers DEF clean
<1>3. CASE IsEmpty(row) /\ live' = live \ {r} /\ rows' = [rows EXCEPT ![r] = BlankRow]
  <2>1. /\ \A l, x : ~HasListener(row, l, x)
        /\ \A p, x : ~HasPool(row, p, x)
        /\ \A m, x : ~HasMember(row, m, x)
    BY <1>3 DEF IsEmpty, HasListener, HasPool, HasMember
  <2>2. \A s \in live' : s \in live \ {r} /\ rows'[s] = rows[s]
    BY <1>3 DEF RowsOK
  <2>. QED  BY <1>3, <2>1, <2>2 DEF Complete, Covering
<1>. QED  BY <1>1, <1>2, <1>3 DEF PutOrClean

\* A handler that writes one row.
LEMMA OnePutCovers ==
    ASSUME CInv, Mutable, NEW r \in Row, NEW row, Put(r, row),
           oLb'.up = oLb.up, oLb.up => row.enabled,
           Complete(r, row, oListener', oPool', oMember')
    PROVE  Coverage'
<1>1. Covering(live', rows', oListener', oPool', oMember')
  BY ActiveCovers, PutCovers
<1>2. oLb.up => \A s \in live' : rows'[s].enabled
  BY ActiveCovers DEF Put, RowsOK
<1>. QED  BY <1>1, <1>2 DEF Coverage

\* A handler that writes one row and cleans up.
LEMMA OneCleanCovers ==
    ASSUME CInv, Mutable, NEW r \in live, NEW row \in RowContents, NEW left,
           PutOrClean(r, row, left), IsEmpty(left) => IsEmpty(row),
           oLb'.up = oLb.up, oLb.up => row.enabled,
           Complete(r, row, oListener', oPool', oMember')
    PROVE  Coverage'
<1>1. Covering(live', rows', oListener', oPool', oMember')
  BY ActiveCovers, PutOrCleanCovers
<1>2. oLb.up => \A s \in live' : rows'[s].enabled
  <2>1. \A s \in live' : /\ s = r => rows'[s].enabled = row.enabled
                         /\ s # r => s \in live /\ rows'[s] = rows[s]
    BY ActiveCovers DEF PutOrClean, Put, RowsOK, RowContents
  <2>. QED  BY <2>1, ActiveCovers
<1>. QED  BY <1>1, <1>2 DEF Coverage

\* A handler that writes no row.
LEMMA NothingPutCovers ==
    ASSUME CInv, Mutable, UNCHANGED <<live, rows>>, oLb'.up = oLb.up,
           Covering(live, rows, oListener', oPool', oMember')
    PROVE  Coverage'
BY ActiveCovers DEF Coverage
-----------------------------------------------------------------------------
(* The handlers keep it: load balancers                                    *)

LEMMA LbCreateCovers ==
    ASSUME CInv, Failures = {}, NEW up \in BOOLEAN, up = TRUE, LbCreate(up)
    PROVE  Settled' /\ Coverage'
<1>1. /\ oLb = AbsentLb /\ UNCHANGED <<oListener, oPool, oMember>> /\ up = TRUE
      /\ oLb' = [prov |-> "ACTIVE", up |-> up, vipPort |-> TRUE]
  BY DEF LbCreate
<1>2. PICK r \in Row : Put(r, NewRow(NoProtocol, up))
  BY DEF LbCreate
<1>3. /\ \A l \in Listener : ~Exists(oListener[l])
      /\ \A p \in Pool : ~Exists(oPool[p])
      /\ \A m \in Member : ~Exists(oMember[m])
  BY <1>1 DEF CInv, Settled, AbsentLb
<1>4. live = {} /\ RowsOK
  BY <1>1 DEF CInv, SInv, KInv, IInv, DeletedLeavesNothing, AbsentLb
<1>5. \A s \in live' : rows'[s].enabled
  <2>1. NewRow(NoProtocol, up).enabled
    BY <1>1 DEF NewRow
  <2>2. \A s \in live' : rows'[s] = NewRow(NoProtocol, up)
    BY <1>2, <1>4 DEF Put, RowsOK
  <2>. QED  BY <2>1, <2>2
<1>6. Settled'
  BY <1>1 DEF CInv, Settled
<1>. QED  BY <1>1, <1>3, <1>5, <1>6 DEF Coverage, Covering

LEMMA LbUpdateCovers ==
    ASSUME CInv, Failures = {}, NEW up \in BOOLEAN, LbUpdate(up)
    PROVE  Settled' /\ Coverage'
<1>1. /\ Mutable /\ UNCHANGED <<live, oListener, oPool, oMember, unanswered>>
  BY DEF LbUpdate
<1>2. /\ rows' = [r \in Row |->
                    IF r \in live /\ rows[r].enabled # up
                    THEN Refresh([rows[r] EXCEPT !.enabled = up]) ELSE rows[r]]
      /\ oLb' = [oLb EXCEPT !.up = up, !.prov = "ACTIVE"]
  BY DEF LbUpdate
<1>3. oLb'.prov = "ACTIVE" /\ oLb'.up = up
  BY <1>1, <1>2, ActiveCovers DEF OctaviaOK, LbRecord
<1>4. ASSUME NEW r \in live
      PROVE  /\ rows'[r].enabled = up /\ SameRecords(rows'[r], rows[r])
             /\ rows'[r].members = rows[r].members
  <2>. DEFINE old == rows[r]
              new == [old EXCEPT !.enabled = up]
  <2>1. r \in Row /\ old \in RowContents
    BY <1>1, ActiveCovers, ActiveServes
  <2>2. rows'[r] = IF old.enabled # up THEN Refresh(new) ELSE old
    BY <1>2, <2>1
  <2>. HIDE DEF old
  <2>3. /\ new \in RowContents /\ SameRecords(new, old)
        /\ new.members = old.members /\ new.enabled = up
    BY <2>1 DEF RowContents, SameRecords
  <2>. HIDE DEF new
  <2>4. SameInputs(Refresh(new), new)
    BY <2>3, RefreshFresh
  <2>5. CASE old.enabled # up
    BY <2>2, <2>3, <2>4, <2>5 DEF SameInputs, SameRecords, old
  <2>6. CASE old.enabled = up
    BY <2>2, <2>6 DEF SameRecords, old
  <2>. QED  BY <2>5, <2>6
<1>5. Covering(live', rows', oListener', oPool', oMember')
  BY <1>1, <1>4, ActiveCovers, HasSame DEF Covering
<1>6. Settled'
  BY <1>1, <1>3, ActiveCovers DEF Settled
<1>. QED  BY <1>1, <1>3, <1>4, <1>5, <1>6 DEF Coverage

LEMMA LbDeleteCovers ==
    ASSUME CInv, Failures = {}, NEW cascade \in BOOLEAN, LbDelete(cascade)
    PROVE  Settled' /\ Coverage'
<1>. OctaviaOK /\ Settled
  BY DEF CInv, SInv, KInv, IInv
<1>1. CASE /\ oLb' = AbsentLb
           /\ oListener' = [l \in Listener |-> AbsentListener]
           /\ oPool' = [p \in Pool |-> AbsentChild]
           /\ oMember' = [m \in Member |-> AbsentChild]
  BY <1>1 DEF Settled, Coverage, Exists, AbsentLb, AbsentListener, AbsentChild
<1>2. ASSUME NEW noted, DeletionFails(noted)
      PROVE  Settled' /\ Coverage'
  <2>1. oLb'.prov = "ERROR"
    BY <1>2 DEF DeletionFails, OctaviaOK, LbRecord
  <2>2. \A l \in Listener : ~Exists(oListener'[l]) => ~oListener'[l].up
    <3>1. SUFFICES ASSUME NEW l \in Listener, ~Exists(oListener'[l])
                   PROVE  ~oListener'[l].up
      OBVIOUS
    <3>2. \/ oListener'[l] = AbsentListener
          \/ oListener'[l] = [oListener[l] EXCEPT !.pool = None]
          \/ oListener'[l] = oListener[l]
      BY <1>2 DEF DeletionFails
    <3>3. oListener[l] \in ListenerRecord
      BY DEF OctaviaOK
    <3>. QED  BY <3>1, <3>2, <3>3 DEF Settled, Exists, AbsentListener, ListenerRecord
  <2>3. \A p \in Pool : ~Exists(oPool'[p]) => ~oPool'[p].up
    BY <1>2 DEF DeletionFails, Settled, Exists, AbsentChild
  <2>4. \A m \in Member : ~Exists(oMember'[m]) => ~oMember'[m].up
    BY <1>2 DEF DeletionFails, Settled, Exists, AbsentChild
  <2>. QED  BY <2>1, <2>2, <2>3, <2>4 DEF Settled, Coverage
<1>. QED  BY <1>1, <1>2 DEF LbDelete

-----------------------------------------------------------------------------
(* Records                                                                 *)

\* One record is written, for a resource that exists or with nothing enabled.
LEMMA SettledListener ==
    ASSUME CInv, Mutable, oLb'.prov # "ABSENT", NEW l \in Listener, NEW record,
           oListener' = [oListener EXCEPT ![l] = record],
           Exists(record) \/ ~record.up, UNCHANGED <<oPool, oMember>>
    PROVE  Settled'
BY ActiveCovers DEF OctaviaOK, Settled

LEMMA SettledPool ==
    ASSUME CInv, Mutable, oLb'.prov # "ABSENT", NEW p \in Pool, NEW record,
           oPool' = [oPool EXCEPT ![p] = record],
           Exists(record) \/ ~record.up, UNCHANGED <<oListener, oMember>>
    PROVE  Settled'
BY ActiveCovers DEF OctaviaOK, Settled

LEMMA SettledMember ==
    ASSUME CInv, Mutable, oLb'.prov # "ABSENT", NEW m \in Member, NEW record,
           oMember' = [oMember EXCEPT ![m] = record],
           Exists(record) \/ ~record.up, UNCHANGED <<oListener, oPool>>
    PROVE  Settled'
BY ActiveCovers DEF OctaviaOK, Settled
-----------------------------------------------------------------------------
(* Listeners                                                               *)

\* The row _get_or_create_ovn_lb returns holds what it held, and is enabled.
LEMMA ObtainOldOrNew ==
    ASSUME CInv, Mutable, NEW proto \in Protocol, NEW up \in BOOLEAN,
           NEW o \in Obtain(proto, up)
    PROVE  \/ o.id \in live /\ SameInputs(o.row, rows[o.id])
           \/ o.id \notin live /\ o.row = NewRow(proto, up)
<1>. DEFINE same  == {r \in live : rows[r].protocol = proto}
            unset == {r \in live : rows[r].protocol = NoProtocol}
<1>1. CASE same # {}
  BY <1>1 DEF Obtain, SameInputs, SameRecords
<1>2. CASE same = {} /\ unset # {}
  <2>1. PICK r \in unset : /\ o.id = r
                           /\ o.row = [rows[r] EXCEPT !.protocol = proto]
    BY <1>2 DEF Obtain
  <2>2. rows[r] \in RowContents
    BY <2>1, ActiveCovers, ActiveServes
  <2>3. SameInputs(o.row, rows[r])
    BY <2>1, <2>2 DEF SameInputs, SameRecords, RowContents
  <2>. QED  BY <2>1, <2>3
<1>3. CASE same = {} /\ unset = {}
  <2>. DEFINE fresh == IF live = {} THEN {} ELSE Row \ live
              ports == IF "later" \in Failures THEN {oLb.vipPort, FALSE}
                                               ELSE {oLb.vipPort}
  <2>1. o \in NewRows(proto, up)
    BY <1>3 DEF Obtain
  <2>2. PICK r \in fresh, port \in ports :
           o = [id |-> r, row |-> NewRow(proto, up), port |-> port]
    <3>1. NewRows(proto, up) = {[id |-> r, row |-> NewRow(proto, up), port |-> port] :
                                   r \in fresh, port \in ports}
      BY DEF NewRows
    <3>. HIDE DEF fresh, ports
    <3>. QED  BY <2>1, <3>1
  <2>. QED  BY <2>2
<1>. QED  BY <1>1, <1>2, <1>3

LEMMA ObtainCovers ==
    ASSUME CInv, Mutable, NEW proto \in Protocol, NEW up \in BOOLEAN, up = TRUE,
           NEW o \in Obtain(proto, up)
    PROVE  /\ o.id \in Row /\ o.row \in RowContents
           /\ oLb.up => o.row.enabled
           /\ o.id \in live => SameInputs(o.row, rows[o.id])
<1>1. o.id \in Row /\ o.row \in RowContents
  BY ActiveCovers, ActiveServes, ObtainOK
<1>2. o.row = NewRow(proto, up) => o.row.enabled = up
  BY DEF NewRow
<1>. QED  BY <1>1, <1>2, ObtainOldOrNew, ActiveCovers DEF SameInputs

LEMMA ListenerCreateCovers ==
    ASSUME CInv, Failures = {}, NEW l \in Listener,
           NEW up \in BOOLEAN, up = TRUE, NEW dp \in Pool \cup {None},
           ListenerCreate(l, up, dp)
    PROVE  Settled' /\ Coverage'
<1>. DEFINE key == <<l, TRUE>>
            ref == IF dp = None THEN {} ELSE {<<dp, TRUE>>}
            record == [prov |-> "ACTIVE", up |-> TRUE, pool |-> dp]
<1>1. /\ Mutable /\ UNCHANGED <<oPool, oMember>> /\ up = TRUE
      /\ oListener' = [oListener EXCEPT ![l] = record]
      /\ ProtocolOf[l] \in Protocol
      /\ \A s \in live, b \in BOOLEAN : <<l, b>> \notin rows[s].listeners
  BY ConstantsAssumption DEF ListenerCreate, ObtainFails, UnusedListener
<1>2. PICK o \in Obtain(ProtocolOf[l], TRUE) :
         /\ Put(o.id, Refresh(PutListener(o.row, key, ref)))
         /\ oLb' = [oLb EXCEPT !.vipPort = o.port]
  BY <1>1 DEF ListenerCreate, ObtainFails
<1>3. /\ oListener'[l] = record
      /\ \A x \in Listener \ {l} : oListener'[x] = oListener[x]
  BY <1>1, ActiveCovers DEF OctaviaOK
<1>4. /\ key \in ListenerKey /\ ref \in SUBSET PoolRef
      /\ Exists(record) /\ record.up = TRUE /\ record.pool = dp
  <2>1. <<dp, TRUE>> \in PoolRef
    BY DEF PoolRef
  <2>. QED  BY <2>1 DEF ListenerKey, Exists
<1>5. HasListener(Refresh(PutListener(o.row, key, ref)), l, record)
      /\ Complete(o.id, Refresh(PutListener(o.row, key, ref)), oListener', oPool', oMember')
      /\ (oLb.up => Refresh(PutListener(o.row, key, ref)).enabled)
  <2>. DEFINE put == PutListener(o.row, key, ref)
  <2>1. /\ o.row \in RowContents /\ (oLb.up => o.row.enabled)
        /\ o.id \in live => SameInputs(o.row, rows[o.id])
    BY <1>1, <1>2, ObtainCovers
  <2>2. /\ put \in RowContents
        /\ put.pools = o.row.pools /\ put.status = o.row.status
        /\ put.members = o.row.members
        /\ put.listeners = o.row.listeners \cup {key}
        /\ put.refs[key] = ref
        /\ \A x \in ListenerKey \ {key} : put.refs[x] = o.row.refs[x]
    <3>0. key \in ListenerKey /\ ref \in SUBSET PoolRef
      BY <1>4
    <3>. HIDE DEF key, ref, record
    <3>. QED  BY <2>1, <3>0, PutListenerGives, PutListenerRecords, PutListenerRest
  <2>3. put.enabled = o.row.enabled
    <3>. HIDE DEF key, ref
    <3>. QED  BY <2>1 DEF PutListener, RowContents
  <2>4. HasListener(put, l, record)
    <3>1. dp # None => ref = {<<dp, TRUE>>}
      OBVIOUS
    <3>. HIDE DEF put, ref
    <3>. QED  BY <2>2, <3>1 DEF HasListener
  <2>. HIDE DEF put, ref
  <2>5. ASSUME NEW x \in Listener, x # l, Exists(oListener[x])
        PROVE  \/ HasListener(put, x, oListener[x])
               \/ \E s \in live \ {o.id} : HasListener(rows[s], x, oListener[x])
    <3>1. ASSUME o.id \in live, HasListener(rows[o.id], x, oListener[x])
          PROVE  HasListener(put, x, oListener[x])
      <4>. DEFINE k == <<x, oListener[x].up>>
      <4>1. k # key /\ k \in ListenerKey
        <5>1. oListener[x].up \in BOOLEAN
          BY <1>1, ActiveCovers DEF OctaviaOK, ListenerRecord
        <5>. QED  BY <2>5, <5>1 DEF ListenerKey
      <4>2. k \in put.listeners /\ put.refs[k] = rows[o.id].refs[k]
        <5>. HIDE DEF k, key
        <5>1. o.row.listeners = rows[o.id].listeners /\ o.row.refs = rows[o.id].refs
          BY <2>1, <3>1 DEF SameInputs, SameRecords
        <5>2. k \in rows[o.id].listeners
          BY <3>1 DEF HasListener, k
        <5>. QED  BY <2>2, <4>1, <5>1, <5>2
      <4>. QED  BY <3>1, <4>2 DEF HasListener
    <3>. QED  BY <1>1, <2>5, <3>1, ActiveCovers, KeptListener
  <2>6. ASSUME NEW p \in Pool, Exists(oPool[p])
        PROVE  \/ HasPool(put, p, oPool[p])
               \/ \E s \in live \ {o.id} : HasPool(rows[s], p, oPool[p])
    <3>1. o.id \in live /\ HasPool(rows[o.id], p, oPool[p]) => HasPool(put, p, oPool[p])
      BY <2>1, <2>2 DEF HasPool, SameInputs, SameRecords
    <3>. QED  BY <1>1, <2>6, <3>1, ActiveCovers, KeptPool
  <2>7. ASSUME NEW m \in Member, Exists(oMember[m])
        PROVE  \/ HasMember(put, m, oMember[m])
               \/ \E s \in live \ {o.id} : HasMember(rows[s], m, oMember[m])
    <3>1. o.id \in live /\ HasMember(rows[o.id], m, oMember[m]) =>
              HasMember(put, m, oMember[m])
      BY <2>1, <2>2 DEF HasMember, SameInputs, SameRecords
    <3>. QED  BY <1>1, <2>7, <3>1, ActiveCovers, KeptMember
  <2>8. Complete(o.id, put, oListener', oPool', oMember')
    <3>. HIDE DEF record
    <3>. QED  BY <1>1, <1>3, <2>4, <2>5, <2>6, <2>7 DEF Complete
  <2>9. SameInputs(Refresh(put), put)
    BY <2>2, RefreshFresh
  <2>. DEFINE new == Refresh(put)
  <2>10. SameRecords(new, put) /\ new.members = put.members /\ new.enabled = put.enabled
    BY <2>9 DEF SameInputs
  <2>. HIDE DEF new, record
  <2>11. HasListener(new, l, record)
    BY <2>4, <2>10, HasSame
  <2>12. Complete(o.id, new, oListener', oPool', oMember')
    BY <2>8, <2>10, CompleteSame
  <2>13. oLb.up => new.enabled
    BY <2>1, <2>3, <2>10
  <2>. QED  BY <2>11, <2>12, <2>13 DEF new, put, ref
<1>6. o.id \in Row
  BY <1>1, <1>2, ObtainCovers
<1>7. oLb'.up = oLb.up /\ oLb'.prov # "ABSENT"
  BY <1>1, <1>2, ActiveCovers DEF OctaviaOK, LbRecord
<1>. HIDE DEF key, ref, record
<1>8. Settled'
  BY <1>1, <1>4, <1>7, SettledListener
<1>9. Coverage'
  BY <1>1, <1>2, <1>5, <1>6, <1>7, OnePutCovers
<1>. QED  BY <1>8, <1>9

LEMMA ListenerDeleteCovers ==
    ASSUME CInv, Failures = {}, NEW l \in Listener, ListenerDelete(l)
    PROVE  Settled' /\ Coverage'
<1>. DEFINE key == <<l, TRUE>>
            found == {r \in FindRow(ProtocolOf[l]) : key \in rows[r].listeners}
<1>1. /\ Mutable /\ UNCHANGED <<oLb, oPool, oMember>>
      /\ oListener' = [oListener EXCEPT ![l] = AbsentListener]
  BY DEF ListenerDelete
<1>2. /\ oListener'[l] = AbsentListener /\ ~Exists(oListener'[l])
      /\ \A x \in Listener \ {l} : oListener'[x] = oListener[x]
  BY <1>1, ActiveCovers DEF OctaviaOK, Exists, AbsentListener
<1>3. Settled'
  <2>1. ~AbsentListener.up
    BY DEF AbsentListener
  <2>. QED  BY <1>1, <2>1, ActiveCovers, SettledListener
<1>4. CASE UNCHANGED <<live, rows>>
  <2>1. Covering(live, rows, oListener', oPool', oMember')
    BY <1>1, <1>2, ActiveCovers DEF Covering
  <2>. QED  BY <1>1, <1>3, <1>4, <2>1, NothingPutCovers
<1>5. ASSUME NEW r \in found,
             PutOrClean(r, Refresh(DropListener(rows[r], key)),
                        DropListener(rows[r], key))
      PROVE  Coverage'
  <2>. DEFINE row == DropListener(rows[r], key)
  <2>1. r \in live /\ rows[r] \in RowContents
    BY <1>1, FindRowLive, ActiveCovers, ActiveServes
  <2>2. /\ row \in RowContents
        /\ row.pools = rows[r].pools /\ row.status = rows[r].status
        /\ row.members = rows[r].members
        /\ row.listeners = rows[r].listeners \ {key}
        /\ \A x \in ListenerKey \ {key} : row.refs[x] = rows[r].refs[x]
        /\ row.enabled = rows[r].enabled
    <3>1. key \in ListenerKey
      BY DEF ListenerKey
    <3>. HIDE DEF key
    <3>2. row.enabled = rows[r].enabled
      BY <2>1 DEF DropListener, RowContents
    <3>. HIDE DEF row
    <3>. QED  BY <2>1, <3>1, <3>2, DropListenerGives, DropListenerRecords,
                 DropListenerRest DEF row
  <2>3. PutOrClean(r, Refresh(row), row)
    BY <1>5
  <2>. HIDE DEF row
  <2>4. ASSUME NEW x \in Listener, x # l, Exists(oListener[x])
        PROVE  \/ HasListener(row, x, oListener[x])
               \/ \E s \in live \ {r} : HasListener(rows[s], x, oListener[x])
    <3>1. ASSUME HasListener(rows[r], x, oListener[x])
          PROVE  HasListener(row, x, oListener[x])
      <4>. DEFINE k == <<x, oListener[x].up>>
      <4>1. k # key /\ k \in ListenerKey
        <5>1. oListener[x].up \in BOOLEAN
          BY <1>1, ActiveCovers DEF OctaviaOK, ListenerRecord
        <5>. QED  BY <2>4, <5>1 DEF ListenerKey
      <4>2. k \in row.listeners /\ row.refs[k] = rows[r].refs[k]
        <5>. HIDE DEF k, key
        <5>1. k \in rows[r].listeners
          BY <3>1 DEF HasListener, k
        <5>. QED  BY <2>2, <4>1, <5>1
      <4>. QED  BY <3>1, <4>2 DEF HasListener
    <3>. QED  BY <1>1, <2>4, <3>1, ActiveCovers, KeptListener
  <2>5. ASSUME NEW p \in Pool, Exists(oPool[p])
        PROVE  \/ HasPool(row, p, oPool[p])
               \/ \E s \in live \ {r} : HasPool(rows[s], p, oPool[p])
    <3>1. HasPool(rows[r], p, oPool[p]) => HasPool(row, p, oPool[p])
      BY <2>2 DEF HasPool
    <3>. QED  BY <1>1, <2>5, <3>1, ActiveCovers, KeptPool
  <2>6. ASSUME NEW m \in Member, Exists(oMember[m])
        PROVE  \/ HasMember(row, m, oMember[m])
               \/ \E s \in live \ {r} : HasMember(rows[s], m, oMember[m])
    <3>1. HasMember(rows[r], m, oMember[m]) => HasMember(row, m, oMember[m])
      BY <2>2 DEF HasMember
    <3>. QED  BY <1>1, <2>6, <3>1, ActiveCovers, KeptMember
  <2>7. Complete(r, row, oListener', oPool', oMember')
    BY <1>1, <1>2, <2>4, <2>5, <2>6 DEF Complete
  <2>8. Refresh(row) \in RowContents /\ SameInputs(Refresh(row), row)
    BY <2>2, RefreshKeeps, RefreshFresh
  <2>9. Complete(r, Refresh(row), oListener', oPool', oMember')
    BY <2>7, <2>8, CompleteSame DEF SameInputs
  <2>10. IsEmpty(row) => IsEmpty(Refresh(row))
    BY <2>8 DEF IsEmpty, SameInputs, SameRecords
  <2>11. oLb.up => Refresh(row).enabled
    BY <1>1, <2>1, <2>2, <2>8, ActiveCovers DEF SameInputs
  <2>. QED  BY <1>1, <2>1, <2>3, <2>8, <2>9, <2>10, <2>11, OneCleanCovers
<1>6. UNCHANGED <<live, rows>>
      \/ \E r \in found : PutOrClean(r, Refresh(DropListener(rows[r], key)),
                                     DropListener(rows[r], key))
  BY DEF ListenerDelete
<1>. HIDE DEF found, key
<1>. QED  BY <1>3, <1>4, <1>5, <1>6
LEMMA ListenerUpdateCovers ==
    ASSUME CInv, Failures = {}, NEW l \in Listener, NEW up \in Opt(BOOLEAN),
           NEW dp \in Opt(Pool \cup {None}), ListenerUpdate(l, up, dp)
    PROVE  Settled' /\ Coverage'
<1>. DEFINE found == FindRow(ProtocolOf[l])
            record == [prov |-> "ACTIVE", up |-> Given(up, oListener[l].up),
                       pool |-> Given(dp, oListener[l].pool)]
<1>1. /\ Mutable /\ UNCHANGED <<oPool, oMember>> /\ Exists(oListener[l])
      /\ oListener[l].up \in BOOLEAN
  <2>1. Mutable /\ UNCHANGED <<oPool, oMember>> /\ Exists(oListener[l])
    BY DEF ListenerUpdate
  <2>. QED  BY <2>1, ActiveCovers DEF OctaviaOK, ListenerRecord
<1>2. \/ oLb' = [oLb EXCEPT !.prov = "ERROR"]
      \/ oLb' = oLb
  BY DEF ListenerUpdate
<1>3. oLb'.prov # "ABSENT"
  BY <1>1, <1>2, ActiveCovers DEF OctaviaOK, LbRecord
<1>4. Settled'
  <2>1. PICK prov \in {"ACTIVE", "ERROR"} : oListener' = [oListener EXCEPT ![l] =
            [prov |-> prov, up |-> Given(up, @.up), pool |-> Given(dp, @.pool)]]
    BY DEF ListenerUpdate
  <2>. DEFINE written == [prov |-> prov, up |-> Given(up, oListener[l].up),
                          pool |-> Given(dp, oListener[l].pool)]
  <2>2. oListener' = [oListener EXCEPT ![l] = written] /\ Exists(written)
    BY <2>1 DEF Exists
  <2>. HIDE DEF written
  <2>. QED  BY <1>1, <1>3, <2>2, SettledListener
<1>5. ASSUME oListener' = [oListener EXCEPT ![l] = record]
      PROVE  /\ oListener'[l] = record
             /\ \A x \in Listener \ {l} : oListener'[x] = oListener[x]
  BY <1>1, <1>5, ActiveCovers DEF OctaviaOK
\* The key that moves is the key of the record.
<1>6. ASSUME NEW r \in found, NEW k \in rows[r].listeners, k[1] = l,
             Put(r, ListenerMoved(rows[r], k, up, dp)), oLb' = oLb,
             oListener' = [oListener EXCEPT ![l] = record]
      PROVE  Coverage'
  <2>. DEFINE moved == <<k[1], Given(up, k[2])>>
              refs == IF dp = {} THEN rows[r].refs[k] ELSE {<<Given(dp, None), TRUE>>}
              dropped == DropListener(rows[r], k)
              put == PutListener(dropped, moved, refs)
  <2>1. /\ r \in live /\ r \in Row /\ rows[r] \in RowContents /\ RowKeysOK(rows[r])
        /\ k \in ListenerKey
        /\ HasListener(rows[r], l, oListener[l])
    BY <1>1, FoundListener, ActiveCovers, ActiveServes DEF RowContents
  <2>2. ASSUME NEW y \in rows[r].listeners, y[1] = l
        PROVE  y = <<l, oListener[l].up>>
    <3>1. y = <<l, y[2]>> /\ y[2] \in BOOLEAN
      BY <2>1, <2>2 DEF RowContents, ListenerKey
    <3>2. <<y[1], ~y[2]>> \notin rows[r].listeners
      BY <2>1 DEF RowKeysOK
    <3>. QED  BY <1>1, <2>1, <2>2, <3>1, <3>2 DEF HasListener
  <2>3. k = <<l, oListener[l].up>> /\ k[2] = oListener[l].up
    BY <1>6, <2>2
  <2>4. moved \in ListenerKey /\ moved = <<l, Given(up, oListener[l].up)>>
    <3>1. Given(up, oListener[l].up) \in BOOLEAN
      BY <1>1 DEF Opt, Given
    <3>. QED  BY <1>6, <2>3, <3>1 DEF ListenerKey
  <2>5. refs \in SUBSET PoolRef
    <3>1. Given(dp, None) \in Pool \cup {None}
      BY DEF Opt, Given
    <3>2. <<Given(dp, None), TRUE>> \in PoolRef
      BY <3>1 DEF PoolRef
    <3>3. rows[r].refs[k] \in SUBSET PoolRef
      BY <2>1 DEF RowContents
    <3>. QED  BY <3>2, <3>3
  <2>6. record.pool # None => refs = {<<record.pool, TRUE>>}
    <3>0. record.pool = Given(dp, oListener[l].pool)
      OBVIOUS
    <3>1. CASE dp = {}
      <4>1. record.pool = oListener[l].pool /\ refs = rows[r].refs[k]
        BY <3>0, <3>1 DEF Given
      <4>. HIDE DEF record, refs
      <4>. QED  BY <2>1, <2>3, <4>1 DEF HasListener
    <3>2. CASE dp # {}
      <4>1. Given(dp, oListener[l].pool) = Given(dp, None)
        BY <3>2 DEF Given
      <4>. QED  BY <3>0, <3>2, <4>1
    <3>. QED  BY <3>1, <3>2
  <2>7. /\ dropped \in RowContents
        /\ dropped.pools = rows[r].pools /\ dropped.status = rows[r].status
        /\ dropped.members = rows[r].members
        /\ dropped.listeners = rows[r].listeners \ {k}
        /\ \A x \in ListenerKey \ {k} : dropped.refs[x] = rows[r].refs[x]
        /\ dropped.enabled = rows[r].enabled
    <3>1. dropped.enabled = rows[r].enabled
      BY <2>1 DEF DropListener, RowContents
    <3>. HIDE DEF dropped
    <3>. QED  BY <2>1, <3>1, DropListenerGives, DropListenerRecords, DropListenerRest
              DEF dropped
  <2>8. /\ put \in RowContents
        /\ put.pools = dropped.pools /\ put.status = dropped.status
        /\ put.members = dropped.members
        /\ put.listeners = dropped.listeners \cup {moved}
        /\ put.refs[moved] = refs
        /\ \A x \in ListenerKey \ {moved} : put.refs[x] = dropped.refs[x]
        /\ put.enabled = dropped.enabled
    <3>0. moved \in ListenerKey
      BY <2>4
    <3>. HIDE DEF dropped, moved, refs, record
    <3>1. put.enabled = dropped.enabled
      BY <2>7 DEF PutListener, RowContents
    <3>2. /\ put \in RowContents
          /\ put.pools = dropped.pools /\ put.status = dropped.status
          /\ put.members = dropped.members
          /\ put.listeners = dropped.listeners \cup {moved}
          /\ put.refs[moved] = refs
          /\ \A x \in ListenerKey \ {moved} : put.refs[x] = dropped.refs[x]
      BY <2>5, <2>7, <3>0, PutListenerGives, PutListenerRecords, PutListenerRest
    <3>. HIDE DEF put
    <3>. QED  BY <3>1, <3>2
  <2>9. ListenerMoved(rows[r], k, up, dp) = Refresh(put)
    BY DEF ListenerMoved
  <2>. HIDE DEF put, dropped, refs
  <2>10. HasListener(put, l, record)
    <3>1. moved = <<l, record.up>>
      BY <2>4
    <3>. HIDE DEF record, moved
    <3>. QED  BY <2>6, <2>8, <3>1 DEF HasListener
  <2>11. ASSUME NEW x \in Listener, x # l, Exists(oListener[x])
         PROVE  \/ HasListener(put, x, oListener[x])
                \/ \E s \in live \ {r} : HasListener(rows[s], x, oListener[x])
    <3>1. ASSUME HasListener(rows[r], x, oListener[x])
          PROVE  HasListener(put, x, oListener[x])
      <4>. DEFINE y == <<x, oListener[x].up>>
      <4>1. y # k /\ y # moved /\ y \in ListenerKey
        <5>1. oListener[x].up \in BOOLEAN
          BY <1>1, ActiveCovers DEF OctaviaOK, ListenerRecord
        <5>. QED  BY <2>3, <2>4, <2>11, <5>1 DEF ListenerKey
      <4>2. y \in put.listeners /\ put.refs[y] = rows[r].refs[y]
        <5>. HIDE DEF y, moved
        <5>1. y \in rows[r].listeners
          BY <3>1 DEF HasListener, y
        <5>. QED  BY <2>7, <2>8, <4>1, <5>1
      <4>. QED  BY <3>1, <4>2 DEF HasListener
    <3>. QED  BY <1>1, <2>11, <3>1, ActiveCovers, KeptListener
  <2>12. ASSUME NEW p \in Pool, Exists(oPool[p])
         PROVE  \/ HasPool(put, p, oPool[p])
                \/ \E s \in live \ {r} : HasPool(rows[s], p, oPool[p])
    <3>1. HasPool(rows[r], p, oPool[p]) => HasPool(put, p, oPool[p])
      BY <2>7, <2>8 DEF HasPool
    <3>. QED  BY <1>1, <2>12, <3>1, ActiveCovers, KeptPool
  <2>13. ASSUME NEW m \in Member, Exists(oMember[m])
         PROVE  \/ HasMember(put, m, oMember[m])
                \/ \E s \in live \ {r} : HasMember(rows[s], m, oMember[m])
    <3>1. HasMember(rows[r], m, oMember[m]) => HasMember(put, m, oMember[m])
      BY <2>7, <2>8 DEF HasMember
    <3>. QED  BY <1>1, <2>13, <3>1, ActiveCovers, KeptMember
  <2>. HIDE DEF record
  <2>14. Complete(r, put, oListener', oPool', oMember')
    <3>1. /\ oListener'[l] = record
          /\ \A x \in Listener \ {l} : oListener'[x] = oListener[x]
      BY <1>5, <1>6 DEF record
    <3>. QED  BY <1>1, <2>10, <2>11, <2>12, <2>13, <3>1 DEF Complete
  <2>15. SameInputs(Refresh(put), put)
    BY <2>8, RefreshFresh
  <2>16. Complete(r, Refresh(put), oListener', oPool', oMember')
    BY <2>14, <2>15, CompleteSame DEF SameInputs
  <2>17. oLb.up => Refresh(put).enabled
    BY <1>1, <2>1, <2>7, <2>8, <2>15, ActiveCovers DEF SameInputs
  <2>. QED  BY <1>1, <1>6, <2>1, <2>9, <2>16, <2>17, OnePutCovers
\* Nothing was asked for; the row has a key of it.
<1>7. ASSUME UNCHANGED <<live, rows>>, oListener' = [oListener EXCEPT ![l] = record],
             oLb' = oLb, NEW r \in found,
             \/ \A b \in BOOLEAN : <<l, b>> \notin rows[r].listeners
             \/ up = {} /\ dp = {}
      PROVE  Coverage'
  <2>1. HasListener(rows[r], l, oListener[l])
    BY <1>1, FoundListener
  <2>2. up = {} /\ dp = {}
    BY <1>1, <1>7, <2>1 DEF HasListener
  <2>3. record.up = oListener[l].up /\ record.pool = oListener[l].pool
    BY <2>2 DEF Given
  <2>. HIDE DEF record
  <2>4. /\ oListener'[l] = record
        /\ \A x \in Listener \ {l} : oListener'[x] = oListener[x]
    BY <1>5, <1>7 DEF record
  <2>5. \A x \in Listener : /\ Exists(oListener'[x]) => Exists(oListener[x])
                            /\ oListener'[x].up = oListener[x].up
                            /\ oListener'[x].pool = oListener[x].pool
    BY <1>1, <2>3, <2>4
  <2>6. \A x \in Listener, s \in live :
           HasListener(rows[s], x, oListener[x]) => HasListener(rows[s], x, oListener'[x])
    BY <2>5 DEF HasListener
  <2>7. Covering(live, rows, oListener', oPool', oMember')
    BY <1>1, <2>5, <2>6, ActiveCovers DEF Covering
  <2>. QED  BY <1>1, <1>7, <2>7, NothingPutCovers
<1>8. CASE oLb' = [oLb EXCEPT !.prov = "ERROR"]
  <2>1. oLb'.prov = "ERROR"
    BY <1>1, <1>8, ActiveCovers DEF OctaviaOK, LbRecord
  <2>. QED  BY <1>4, <2>1 DEF Coverage
<1>9. \/ oLb' = [oLb EXCEPT !.prov = "ERROR"]
      \/ \E r \in found :
            /\ oListener' = [oListener EXCEPT ![l] = record] /\ oLb' = oLb
            /\ \/ \E k \in rows[r].listeners :
                     k[1] = l /\ Put(r, ListenerMoved(rows[r], k, up, dp))
               \/ /\ UNCHANGED <<live, rows>>
                  /\ \/ \A b \in BOOLEAN : <<l, b>> \notin rows[r].listeners
                     \/ up = {} /\ dp = {}
  BY DEF ListenerUpdate
<1>. HIDE DEF found, record
<1>. QED  BY <1>4, <1>6, <1>7, <1>8, <1>9

-----------------------------------------------------------------------------
(* Pools                                                                   *)

LEMMA PoolCreateCovers ==
    ASSUME CInv, Failures = {}, NEW p \in Pool, NEW up \in BOOLEAN, up = TRUE,
           NEW l \in Listener \cup {None}, l = None, PoolCreate(p, up, l)
    PROVE  Settled' /\ Coverage'
<1>. DEFINE key == <<p, up>>
            record == [prov |-> "ACTIVE", up |-> up]
<1>1. /\ Mutable /\ oMember' = oMember /\ up \in BOOLEAN /\ up = TRUE
      /\ oPool' = [oPool EXCEPT ![p] = record]
      /\ ProtocolOf[p] \in Protocol /\ l = None
      /\ \A s \in live, b \in BOOLEAN : <<p, b>> \notin rows[s].pools
  BY ConstantsAssumption DEF PoolCreate, ObtainFails, UnusedPool
<1>2. PICK o \in Obtain(ProtocolOf[p], up) :
         /\ Put(o.id, PutPool(o.row, key, {}))
         /\ oLb' = [oLb EXCEPT !.vipPort = o.port]
  BY <1>1 DEF PoolCreate, ObtainFails
<1>3. oListener' = oListener
  <2>1. oListener' = [k \in Listener |->
              IF k = l THEN [oListener[k] EXCEPT !.pool = p] ELSE oListener[k]]
    BY DEF PoolCreate
  <2>2. \A k \in Listener : k # l
    BY <1>1, ConstantsAssumption
  <2>3. oListener \in [Listener -> ListenerRecord]
    BY <1>1, ActiveCovers DEF OctaviaOK
  <2>. QED  BY <2>1, <2>2, <2>3
<1>4. /\ oPool'[p] = record /\ \A q \in Pool \ {p} : oPool'[q] = oPool[q]
      /\ Exists(record) /\ record.up = up
  BY <1>1, ActiveCovers DEF OctaviaOK, Exists
<1>. DEFINE put == PutPool(o.row, key, {})
<1>5. /\ o.id \in Row /\ o.row \in RowContents
      /\ oLb.up => o.row.enabled
      /\ o.id \in live => SameInputs(o.row, rows[o.id])
  BY <1>1, <1>2, ObtainCovers
<1>6. key \in PoolKey /\ (o.id \in live => key \notin rows[o.id].pools)
  BY <1>1 DEF PoolKey
<1>7. HasPool(put, p, record) /\ put.enabled = o.row.enabled
      /\ put.pools = o.row.pools \cup {key} /\ put.listeners = o.row.listeners
      /\ put.refs = o.row.refs /\ put.status = o.row.status
      /\ \A x \in PoolKey \ {key} : put.members[x] = o.row.members[x]
  <2>1. key = <<p, record.up>>
    OBVIOUS
  <2>. HIDE DEF key, record
  <2>2. put.pools = o.row.pools \cup {key} /\ put.listeners = o.row.listeners
        /\ put.refs = o.row.refs /\ put.status = o.row.status
    BY <1>5, PutPoolRecords
  <2>3. /\ \A x \in PoolKey \ {key} : put.members[x] = o.row.members[x]
        /\ put.enabled = o.row.enabled
    BY <1>5, <1>6, PutPoolRest
  <2>. HIDE DEF put
  <2>. QED  BY <2>1, <2>2, <2>3 DEF HasPool
<1>. HIDE DEF put, key
<1>8. ASSUME NEW x \in Listener, Exists(oListener[x])
      PROVE  \/ HasListener(put, x, oListener[x])
             \/ \E s \in live \ {o.id} : HasListener(rows[s], x, oListener[x])
  <2>1. o.id \in live /\ HasListener(rows[o.id], x, oListener[x]) =>
            HasListener(put, x, oListener[x])
    BY <1>5, <1>7 DEF HasListener, SameInputs, SameRecords
  <2>. QED  BY <1>1, <1>8, <2>1, ActiveCovers, KeptListener
<1>9. ASSUME NEW q \in Pool, Exists(oPool[q])
      PROVE  \/ HasPool(put, q, oPool[q])
             \/ \E s \in live \ {o.id} : HasPool(rows[s], q, oPool[q])
  <2>1. o.id \in live /\ HasPool(rows[o.id], q, oPool[q]) => HasPool(put, q, oPool[q])
    BY <1>5, <1>7 DEF HasPool, SameInputs, SameRecords
  <2>. QED  BY <1>1, <1>9, <2>1, ActiveCovers, KeptPool
<1>10. ASSUME NEW m \in Member, Exists(oMember[m])
       PROVE  \/ HasMember(put, m, oMember[m])
              \/ \E s \in live \ {o.id} : HasMember(rows[s], m, oMember[m])
  <2>1. ASSUME o.id \in live, HasMember(rows[o.id], m, oMember[m])
        PROVE  HasMember(put, m, oMember[m])
    <3>1. PICK k \in rows[o.id].pools : /\ m \in rows[o.id].members[k]
                                        /\ oMember[m].up => rows[o.id].status[m] # "OFFLINE"
      BY <2>1 DEF HasMember
    <3>2. /\ o.row.pools = rows[o.id].pools /\ o.row.members = rows[o.id].members
          /\ o.row.status = rows[o.id].status
      BY <1>5, <2>1 DEF SameInputs, SameRecords
    <3>3. k \in PoolKey /\ k # key
      BY <1>5, <1>6, <2>1, <3>2 DEF RowContents
    <3>. QED  BY <1>7, <3>1, <3>2, <3>3 DEF HasMember
  <2>. QED  BY <1>1, <1>10, <2>1, ActiveCovers, KeptMember
<1>11. oLb'.up = oLb.up /\ oLb'.prov # "ABSENT"
  BY <1>1, <1>2, ActiveCovers DEF OctaviaOK, LbRecord
<1>. HIDE DEF record
<1>12. Complete(o.id, put, oListener', oPool', oMember')
  BY <1>1, <1>3, <1>4, <1>7, <1>8, <1>9, <1>10 DEF Complete
<1>13. Settled'
  BY <1>1, <1>3, <1>4, <1>11, SettledPool
<1>14. Coverage'
  BY <1>1, <1>2, <1>5, <1>7, <1>11, <1>12, OnePutCovers DEF put
<1>. QED  BY <1>13, <1>14

LEMMA PoolUpdateCovers ==
    ASSUME CInv, Failures = {}, NEW p \in Pool, NEW up \in Opt(BOOLEAN),
           PoolUpdate(p, up)
    PROVE  Settled' /\ Coverage'
<1>. DEFINE found == FindRow(ProtocolOf[p])
            to == Given(up, TRUE)
            old == <<p, ~to>>
            fresh == <<p, to>>
<1>1. /\ Mutable /\ UNCHANGED <<oListener, oMember>> /\ Exists(oPool[p])
      /\ to \in BOOLEAN /\ oPool[p].up \in BOOLEAN
  <2>1. to \in BOOLEAN
    BY DEF Opt, Given
  <2>2. Mutable /\ UNCHANGED <<oListener, oMember>> /\ Exists(oPool[p])
    BY DEF PoolUpdate
  <2>3. oPool[p].up \in BOOLEAN
    BY <2>2, ActiveCovers DEF OctaviaOK, ChildRecord
  <2>. QED  BY <2>1, <2>2, <2>3
<1>2. /\ old \in PoolKey /\ fresh \in PoolKey /\ old # fresh
  BY <1>1 DEF PoolKey
<1>3. oLb' = oLb \/ oLb' = [oLb EXCEPT !.prov = "ERROR"]
  BY DEF PoolUpdate
<1>4. PICK prov \in {"ACTIVE", "ERROR"} :
         oPool' = [oPool EXCEPT ![p] = [prov |-> prov, up |-> Given(up, @.up)]]
  BY DEF PoolUpdate
<1>. DEFINE record == [prov |-> prov, up |-> Given(up, oPool[p].up)]
<1>5. /\ oPool' = [oPool EXCEPT ![p] = record] /\ Exists(record)
      /\ oPool'[p] = record
      /\ \A q \in Pool \ {p} : oPool'[q] = oPool[q]
      /\ record.up = Given(up, oPool[p].up)
  BY <1>1, <1>4, ActiveCovers DEF OctaviaOK, Exists
<1>. HIDE DEF record
<1>6. Settled'
  <2>1. oLb'.prov # "ABSENT"
    BY <1>1, <1>3, ActiveCovers DEF OctaviaOK, LbRecord
  <2>. QED  BY <1>1, <1>5, <2>1, SettledPool
<1>7. ASSUME NEW r \in found, old \in rows[r].pools, up # {}, oLb' = oLb,
             Put(r, PoolSwitched(rows[r], old, fresh))
      PROVE  Coverage'
  <2>. DEFINE put == PutPool(rows[r], fresh, rows[r].members[old])
              left == DropPool(put, old)
  <2>1. /\ r \in live /\ r \in Row /\ rows[r] \in RowContents
        /\ fresh \notin rows[r].pools
    <3>1. r \in live /\ r \in Row /\ rows[r] \in RowContents /\ RowKeysOK(rows[r])
      BY <1>1, FindRowLive, ActiveCovers, ActiveServes
    <3>2. fresh = <<old[1], ~old[2]>>
      BY <1>1
    <3>. HIDE DEF old, fresh
    <3>. QED  BY <1>7, <3>1, <3>2 DEF RowKeysOK
  <2>2. PoolSwitched(rows[r], old, fresh) = Refresh(left)
    BY DEF PoolSwitched
  <2>3. record.up = to
    BY <1>5, <1>7 DEF Given
  <2>4. /\ fresh = <<p, record.up>>
        /\ \A q \in Pool \ {p}, b \in BOOLEAN : <<q, b>> # old
    BY <2>3
  <2>. HIDE DEF old, fresh, to
  <2>5. rows[r].members[old] \in SUBSET Member
    BY <1>2, <2>1 DEF RowContents
  <2>6. /\ put \in RowContents
        /\ put.pools = rows[r].pools \cup {fresh}
        /\ put.status = rows[r].status /\ put.refs = rows[r].refs
        /\ put.listeners = rows[r].listeners
        /\ put.members[fresh] = rows[r].members[old]
        /\ \A x \in PoolKey \ {fresh} : put.members[x] = rows[r].members[x]
        /\ put.enabled = rows[r].enabled
    BY <1>2, <2>1, <2>5, PutPoolGives, PutPoolRecords, PutPoolRest
  <2>7. /\ left \in RowContents
        /\ left.pools = (rows[r].pools \cup {fresh}) \ {old}
        /\ left.status = rows[r].status /\ left.refs = rows[r].refs
        /\ left.listeners = rows[r].listeners
        /\ left.members[fresh] = rows[r].members[old]
        /\ \A x \in PoolKey \ {fresh, old} : left.members[x] = rows[r].members[x]
        /\ left.enabled = rows[r].enabled
    <3>. HIDE DEF put
    <3>. QED  BY <1>2, <2>6, DropPoolGives, DropPoolRecords, DropPoolRest
  <2>. HIDE DEF left, put
  <2>8. HasPool(left, p, record)
    BY <1>2, <2>4, <2>7 DEF HasPool
  <2>9. ASSUME NEW q \in Pool, q # p, Exists(oPool[q])
        PROVE  \/ HasPool(left, q, oPool[q])
               \/ \E s \in live \ {r} : HasPool(rows[s], q, oPool[q])
    <3>1. oPool[q].up \in BOOLEAN
      BY <1>1, ActiveCovers DEF OctaviaOK, ChildRecord
    <3>2. <<q, oPool[q].up>> # old
      BY <2>4, <2>9, <3>1
    <3>3. HasPool(rows[r], q, oPool[q]) => HasPool(left, q, oPool[q])
      BY <2>7, <3>2 DEF HasPool
    <3>. QED  BY <1>1, <2>9, <3>3, ActiveCovers, KeptPool
  <2>10. ASSUME NEW x \in Listener, Exists(oListener[x])
         PROVE  \/ HasListener(left, x, oListener[x])
                \/ \E s \in live \ {r} : HasListener(rows[s], x, oListener[x])
    <3>1. HasListener(rows[r], x, oListener[x]) => HasListener(left, x, oListener[x])
      BY <2>7 DEF HasListener
    <3>. QED  BY <1>1, <2>10, <3>1, ActiveCovers, KeptListener
  <2>11. ASSUME NEW m \in Member, Exists(oMember[m])
         PROVE  \/ HasMember(left, m, oMember[m])
                \/ \E s \in live \ {r} : HasMember(rows[s], m, oMember[m])
    <3>1. ASSUME HasMember(rows[r], m, oMember[m])
          PROVE  HasMember(left, m, oMember[m])
      <4>1. PICK k \in rows[r].pools : /\ m \in rows[r].members[k]
                                       /\ oMember[m].up => rows[r].status[m] # "OFFLINE"
        BY <3>1 DEF HasMember
      <4>2. CASE k = old
        BY <1>2, <2>7, <4>1, <4>2 DEF HasMember
      <4>3. CASE k # old
        <5>1. k \in PoolKey /\ k # fresh
          BY <2>1 DEF RowContents
        <5>. QED  BY <2>7, <4>1, <4>3, <5>1 DEF HasMember
      <4>. QED  BY <4>2, <4>3
    <3>. QED  BY <1>1, <2>11, <3>1, ActiveCovers, KeptMember
  <2>12. Complete(r, left, oListener', oPool', oMember')
    BY <1>1, <1>5, <2>8, <2>9, <2>10, <2>11 DEF Complete
  <2>13. SameInputs(Refresh(left), left)
    BY <2>7, RefreshFresh
  <2>14. Complete(r, Refresh(left), oListener', oPool', oMember')
    BY <2>12, <2>13, CompleteSame DEF SameInputs
  <2>15. oLb.up => Refresh(left).enabled
    BY <1>1, <2>1, <2>7, <2>13, ActiveCovers DEF SameInputs
  <2>. QED  BY <1>1, <1>7, <2>1, <2>2, <2>14, <2>15, OnePutCovers
\* The pool has the key asked for already, or nothing is asked of its state.
<1>8. ASSUME NEW r \in found, UNCHANGED <<live, rows>>, oLb' = oLb,
             up # {} => old \notin rows[r].pools
      PROVE  Coverage'
  <2>1. <<p, oPool[p].up>> \in rows[r].pools
    BY <1>1, FoundPool DEF HasPool
  <2>2. record.up = oPool[p].up
    <3>1. CASE up = {}
      BY <1>5, <3>1 DEF Given
    <3>2. CASE up # {}
      <4>1. record.up = to
        BY <1>5, <3>2 DEF Given
      <4>2. <<p, ~to>> \notin rows[r].pools
        BY <1>8, <3>2
      <4>. QED  BY <1>1, <2>1, <4>1, <4>2
    <3>. QED  BY <3>1, <3>2
  <2>3. \A q \in Pool : /\ Exists(oPool'[q]) => Exists(oPool[q])
                        /\ oPool'[q].up = oPool[q].up
    BY <1>1, <1>5, <2>2
  <2>4. \A q \in Pool, s \in live :
           HasPool(rows[s], q, oPool[q]) => HasPool(rows[s], q, oPool'[q])
    BY <2>3 DEF HasPool
  <2>5. Covering(live, rows, oListener', oPool', oMember')
    BY <1>1, <2>3, <2>4, ActiveCovers DEF Covering
  <2>. QED  BY <1>1, <1>8, <2>5, NothingPutCovers
<1>9. CASE oLb' = [oLb EXCEPT !.prov = "ERROR"]
  <2>1. oLb'.prov = "ERROR"
    BY <1>1, <1>9, ActiveCovers DEF OctaviaOK, LbRecord
  <2>. QED  BY <1>6, <2>1 DEF Coverage
<1>10. \/ oLb' = [oLb EXCEPT !.prov = "ERROR"]
       \/ \E r \in found :
             /\ oLb' = oLb
             /\ \/ /\ up # {} /\ old \in rows[r].pools
                   /\ Put(r, PoolSwitched(rows[r], old, fresh))
                \/ /\ UNCHANGED <<live, rows>>
                   /\ up # {} => old \notin rows[r].pools
  BY DEF PoolUpdate
<1>. HIDE DEF found, old, fresh
<1>. QED  BY <1>6, <1>7, <1>8, <1>9, <1>10

\* What pool_delete leaves of a row: everything that is not about the pool.
PlainKeyGone(row, p) ==
    IF <<p, TRUE>> \in row.pools THEN Refresh(DropPool(row, <<p, TRUE>>)) ELSE row

LEMMA PoolGone ==
    ASSUME NEW row \in RowContents, NEW p \in Pool
    PROVE  LET believed == DetachPool(PlainKeyGone(row, p), p)
               final == DropPool(believed, <<p, FALSE>>)
           IN  /\ final \in RowContents
               /\ IsEmpty(believed) => IsEmpty(final)
               /\ final.enabled = row.enabled
               /\ final.status = row.status
               /\ final.listeners = row.listeners
               /\ \A k \in ListenerKey :
                     ~Mentions(row, k, p) => final.refs[k] = row.refs[k]
               /\ \A k \in row.pools : k[1] # p =>
                     k \in final.pools /\ final.members[k] = row.members[k]
<1>. DEFINE yes == <<p, TRUE>>
            no == <<p, FALSE>>
            plain == PlainKeyGone(row, p)
            believed == DetachPool(plain, p)
            final == DropPool(believed, no)
<1>1. /\ yes \in PoolKey /\ no \in PoolKey /\ row.pools \subseteq PoolKey
      /\ \A k : k[1] # p => k # yes /\ k # no
  <2>1. yes \in PoolKey /\ no \in PoolKey /\ yes[1] = p /\ no[1] = p
    BY DEF PoolKey
  <2>2. row.pools \subseteq PoolKey
    BY DEF RowContents
  <2>. HIDE DEF yes, no
  <2>. QED  BY <2>1, <2>2
<1>2. /\ plain \in RowContents
      /\ plain.pools = row.pools \ {yes}
      /\ plain.status = row.status /\ plain.refs = row.refs
      /\ plain.listeners = row.listeners /\ plain.enabled = row.enabled
      /\ \A k \in PoolKey \ {yes} : plain.members[k] = row.members[k]
  <2>1. CASE yes \in row.pools
    <3>. DEFINE dropped == DropPool(row, yes)
    <3>1. plain = Refresh(dropped)
      BY <2>1 DEF PlainKeyGone
    <3>. HIDE DEF yes
    <3>2. /\ dropped \in RowContents
          /\ dropped.pools = row.pools \ {yes}
          /\ dropped.status = row.status /\ dropped.refs = row.refs
          /\ dropped.listeners = row.listeners /\ dropped.enabled = row.enabled
          /\ \A k \in PoolKey \ {yes} : dropped.members[k] = row.members[k]
      BY <1>1, DropPoolGives, DropPoolRecords, DropPoolRest
    <3>. HIDE DEF dropped, plain
    <3>. QED  BY <3>1, <3>2, RefreshKeeps, RefreshFresh DEF SameInputs, SameRecords
  <2>2. CASE yes \notin row.pools
    <3>1. plain = row
      BY <2>2 DEF PlainKeyGone
    <3>. HIDE DEF yes, plain
    <3>. QED  BY <2>2, <3>1
  <2>. QED  BY <2>1, <2>2
<1>. HIDE DEF plain
<1>3. /\ believed \in RowContents
      /\ believed.pools = plain.pools /\ believed.status = plain.status
      /\ believed.listeners = plain.listeners /\ believed.members = plain.members
      /\ believed.enabled = plain.enabled
      /\ \A k \in ListenerKey :
            ~Mentions(plain, k, p) => believed.refs[k] = plain.refs[k]
  <2>1. believed \in RowContents
    BY <1>2, DetachPoolKeeps
  <2>2. /\ believed.pools = plain.pools /\ believed.status = plain.status
        /\ believed.listeners = plain.listeners
        /\ \A k \in ListenerKey :
              ~Mentions(plain, k, p) => believed.refs[k] = plain.refs[k]
    BY <1>2, DetachPoolRecords
  <2>3. believed.members = plain.members /\ believed.enabled = plain.enabled
    BY <1>2, DetachPoolRest
  <2>. QED  BY <2>1, <2>2, <2>3
<1>. HIDE DEF believed
<1>4. /\ final \in RowContents
      /\ final.pools = believed.pools \ {no}
      /\ final.status = believed.status /\ final.refs = believed.refs
      /\ final.listeners = believed.listeners /\ final.enabled = believed.enabled
      /\ \A k \in PoolKey \ {no} : final.members[k] = believed.members[k]
  <2>. HIDE DEF no
  <2>1. final \in RowContents /\ final.pools = believed.pools \ {no}
    BY <1>1, <1>3, DropPoolGives
  <2>2. /\ final.status = believed.status /\ final.refs = believed.refs
        /\ final.listeners = believed.listeners
    BY <1>3, DropPoolRecords
  <2>3. /\ \A k \in PoolKey \ {no} : final.members[k] = believed.members[k]
        /\ final.enabled = believed.enabled
    BY <1>1, <1>3, DropPoolRest
  <2>. QED  BY <2>1, <2>2, <2>3
<1>. HIDE DEF final
<1>5. \A k : Mentions(plain, k, p) <=> Mentions(row, k, p)
  BY <1>2 DEF Mentions
<1>6. IsEmpty(believed) => IsEmpty(final)
  BY <1>4 DEF IsEmpty
<1>7. \A k \in row.pools : k[1] # p =>
         k \in final.pools /\ final.members[k] = row.members[k]
  <2>. HIDE DEF yes, no
  <2>. QED  BY <1>1, <1>2, <1>3, <1>4
<1>8. \A k \in ListenerKey : ~Mentions(row, k, p) => final.refs[k] = row.refs[k]
  BY <1>2, <1>3, <1>4, <1>5
<1>9. /\ final.enabled = row.enabled /\ final.status = row.status
      /\ final.listeners = row.listeners
  BY <1>2, <1>3, <1>4
<1>. QED  BY <1>4, <1>6, <1>7, <1>8, <1>9 DEF final, believed, plain

LEMMA PoolDeleteCovers ==
    ASSUME CInv, Failures = {}, NEW p \in Pool, PoolDelete(p)
    PROVE  Settled' /\ Coverage'
<1>. DEFINE believed(row) == DetachPool(PlainKeyGone(row, p), p)
            final(row) == DropPool(believed(row), <<p, FALSE>>)
            found == FindRow(ProtocolOf[p])
<1>1. /\ Mutable /\ oLb' = oLb /\ p # None
      /\ oPool' = [oPool EXCEPT ![p] = AbsentChild]
      /\ oListener' = [x \in Listener |->
            IF oListener[x].pool = p
            THEN [oListener[x] EXCEPT !.pool = None] ELSE oListener[x]]
      /\ oMember' = [m \in Member |->
            IF PoolOf[m] = p THEN AbsentChild ELSE oMember[m]]
  BY ConstantsAssumption DEF PoolDelete
<1>2. ASSUME NEW x \in Listener
      PROVE  /\ oListener'[x].up = oListener[x].up
             /\ Exists(oListener'[x]) <=> Exists(oListener[x])
             /\ oListener'[x].pool = IF oListener[x].pool = p THEN None
                                                              ELSE oListener[x].pool
  <2>1. oListener[x] \in ListenerRecord
    BY <1>1, ActiveCovers DEF OctaviaOK
  <2>2. oListener'[x] = IF oListener[x].pool = p
                        THEN [oListener[x] EXCEPT !.pool = None] ELSE oListener[x]
    BY <1>1
  <2>. QED  BY <2>1, <2>2 DEF ListenerRecord, Exists
<1>3. /\ ~Exists(oPool'[p]) /\ ~oPool'[p].up
      /\ \A q \in Pool \ {p} : oPool'[q] = oPool[q]
  BY <1>1, ActiveCovers DEF OctaviaOK, Exists, AbsentChild
<1>4. ASSUME NEW m \in Member
      PROVE  /\ PoolOf[m] = p => ~Exists(oMember'[m]) /\ ~oMember'[m].up
             /\ PoolOf[m] # p => oMember'[m] = oMember[m]
  BY <1>1 DEF Exists, AbsentChild
<1>5. Settled'
  <2>1. \A x \in Listener : ~Exists(oListener'[x]) => ~oListener'[x].up
    BY <1>1, <1>2, ActiveCovers DEF Settled
  <2>2. \A q \in Pool : ~Exists(oPool'[q]) => ~oPool'[q].up
    BY <1>1, <1>3, ActiveCovers DEF Settled
  <2>3. \A m \in Member : ~Exists(oMember'[m]) => ~oMember'[m].up
    BY <1>1, <1>4, ActiveCovers DEF Settled
  <2>4. oLb'.prov # "ABSENT"
    BY <1>1, ActiveCovers
  <2>. QED  BY <2>1, <2>2, <2>3, <2>4 DEF Settled
<1>6. CASE UNCHANGED <<live, rows>>
  <2>1. ASSUME NEW x \in Listener, Exists(oListener'[x])
        PROVE  \E s \in live : HasListener(rows[s], x, oListener'[x])
    <3>1. PICK s \in live : HasListener(rows[s], x, oListener[x])
      BY <1>1, <1>2, <2>1, ActiveCovers DEF Covering
    <3>2. HasListener(rows[s], x, oListener'[x])
      BY <1>2, <3>1 DEF HasListener
    <3>. QED  BY <3>2
  <2>2. \A q \in Pool : Exists(oPool'[q]) => \E s \in live : HasPool(rows[s], q, oPool'[q])
    BY <1>1, <1>3, ActiveCovers DEF Covering
  <2>3. \A m \in Member : Exists(oMember'[m]) =>
           \E s \in live : HasMember(rows[s], m, oMember'[m])
    BY <1>1, <1>4, ActiveCovers DEF Covering
  <2>4. Covering(live, rows, oListener', oPool', oMember')
    BY <2>1, <2>2, <2>3 DEF Covering
  <2>. QED  BY <1>1, <1>5, <1>6, <2>4, NothingPutCovers
<1>7. ASSUME NEW r \in found, PutOrClean(r, final(rows[r]), believed(rows[r]))
      PROVE  Coverage'
  <2>. DEFINE row == rows[r]
              new == final(row)
  <2>1. /\ r \in live /\ row \in RowContents
        /\ Agrees(row, oListener, oPool, oMember)
    BY <1>1, FindRowLive, ActiveCovers, ActiveServes
  <2>2. /\ row.pools \subseteq PoolKey /\ row.listeners \subseteq ListenerKey
        /\ \A k \in PoolKey : row.members[k] \subseteq Member
    BY <2>1 DEF RowContents
  <2>. HIDE DEF row
  <2>3. /\ new \in RowContents
        /\ IsEmpty(believed(row)) => IsEmpty(new)
        /\ new.enabled = row.enabled
        /\ new.status = row.status
        /\ new.listeners = row.listeners
        /\ \A k \in ListenerKey : ~Mentions(row, k, p) => new.refs[k] = row.refs[k]
        /\ \A k \in row.pools : k[1] # p =>
              k \in new.pools /\ new.members[k] = row.members[k]
    BY <2>1, PoolGone
  <2>. HIDE DEF new, final, believed
  <2>4. ASSUME NEW x \in Listener, Exists(oListener'[x])
        PROVE  \/ HasListener(new, x, oListener'[x])
               \/ \E s \in live \ {r} : HasListener(rows[s], x, oListener'[x])
    <3>1. PICK s \in live : HasListener(rows[s], x, oListener[x])
      BY <1>1, <1>2, <2>4, ActiveCovers DEF Covering
    <3>2. CASE s # r
      <4>1. HasListener(rows[s], x, oListener'[x])
        BY <1>2, <3>1 DEF HasListener
      <4>. QED  BY <3>2, <4>1
    <3>3. CASE s = r
      <4>. DEFINE k == <<x, oListener[x].up>>
      <4>1. HasListener(row, x, oListener[x])
        BY <3>1, <3>3 DEF row
      <4>2. k \in row.listeners /\ k \in ListenerKey
        BY <2>2, <4>1 DEF HasListener
      <4>3. CASE oListener'[x].pool = None
        BY <1>2, <2>3, <4>2, <4>3 DEF HasListener
      <4>4. CASE oListener'[x].pool # None
        <5>. DEFINE q == oListener[x].pool
        <5>1. q # p /\ q # None /\ oListener'[x].pool = q
          BY <1>2, <4>4
        <5>2. row.refs[k] = {<<q, TRUE>>}
          BY <4>1, <5>1 DEF HasListener
        <5>3. ~Mentions(row, k, p)
          BY <5>1, <5>2 DEF Mentions
        <5>. HIDE DEF k, q
        <5>4. new.refs[k] = {<<q, TRUE>>} /\ k \in new.listeners
          BY <2>3, <4>2, <5>2, <5>3
        <5>. QED  BY <1>2, <5>1, <5>4 DEF HasListener, k
      <4>. QED  BY <4>3, <4>4
    <3>. QED  BY <3>2, <3>3
  <2>5. ASSUME NEW q \in Pool, Exists(oPool'[q])
        PROVE  \/ HasPool(new, q, oPool'[q])
               \/ \E s \in live \ {r} : HasPool(rows[s], q, oPool'[q])
    <3>1. q # p /\ oPool'[q] = oPool[q]
      BY <1>3, <2>5
    <3>2. HasPool(row, q, oPool[q]) => HasPool(new, q, oPool[q])
      BY <2>3, <3>1 DEF HasPool
    <3>3. \/ HasPool(new, q, oPool[q])
          \/ \E s \in live \ {r} : HasPool(rows[s], q, oPool[q])
      BY <1>1, <2>5, <3>1, <3>2, ActiveCovers, KeptPool DEF row
    <3>. QED  BY <3>1, <3>3
  <2>6. ASSUME NEW m \in Member, Exists(oMember'[m])
        PROVE  \/ HasMember(new, m, oMember'[m])
               \/ \E s \in live \ {r} : HasMember(rows[s], m, oMember'[m])
    <3>1. PoolOf[m] # p /\ oMember'[m] = oMember[m]
      BY <1>4, <2>6
    <3>2. ASSUME HasMember(row, m, oMember[m])
          PROVE  HasMember(new, m, oMember[m])
      <4>1. PICK k \in row.pools : /\ m \in row.members[k]
                                   /\ oMember[m].up => row.status[m] # "OFFLINE"
        BY <3>2 DEF HasMember
      <4>2. k[1] = PoolOf[m]
        BY <2>1, <4>1 DEF Agrees, MembersAgree
      <4>. QED  BY <2>3, <3>1, <4>1, <4>2 DEF HasMember
    <3>3. \/ HasMember(new, m, oMember[m])
          \/ \E s \in live \ {r} : HasMember(rows[s], m, oMember[m])
      BY <1>1, <2>6, <3>1, <3>2, ActiveCovers, KeptMember DEF row
    <3>. QED  BY <3>1, <3>3
  <2>7. Complete(r, new, oListener', oPool', oMember')
    BY <2>4, <2>5, <2>6 DEF Complete
  <2>8. PutOrClean(r, new, believed(row))
    BY <1>7 DEF new, row
  <2>9. oLb.up => new.enabled
    BY <1>1, <2>1, <2>3, ActiveCovers DEF row
  <2>. QED  BY <1>1, <2>1, <2>3, <2>7, <2>8, <2>9, OneCleanCovers
<1>8. \/ UNCHANGED <<live, rows>>
      \/ \E r \in found : PutOrClean(r, final(rows[r]), believed(rows[r]))
  BY DEF PoolDelete, PlainKeyGone
<1>. HIDE DEF final, believed, found
<1>. QED  BY <1>5, <1>6, <1>7, <1>8

-----------------------------------------------------------------------------
(* Members                                                                 *)

\* A member handler writes the row of the member's pool, and of that row only the
\* entries of the member.
SameButMember(new, row, m) ==
    /\ new.pools = row.pools /\ new.listeners = row.listeners
    /\ new.refs = row.refs /\ new.enabled = row.enabled
    /\ \A k \in row.pools : row.members[k] \subseteq new.members[k] \cup {m}
    /\ \A x \in Member \ {m} : new.status[x] = row.status[x]

LEMMA MemberPutCovers ==
    ASSUME CInv, Mutable, NEW m \in Member, NEW record, NEW rk \in PoolRows(PoolOf[m]),
           NEW new, Put(rk[1], new), SameButMember(new, rows[rk[1]], m),
           UNCHANGED <<oLb, oListener, oPool>>,
           oMember' = [oMember EXCEPT ![m] = record],
           Exists(record) => HasMember(new, m, record)
    PROVE  Coverage'
<1>. DEFINE r == rk[1]
            row == rows[r]
<1>1. r \in live /\ r \in Row /\ row \in RowContents
  BY ActiveCovers, MemberRow
<1>2. /\ oMember'[m] = record
      /\ \A x \in Member \ {m} : oMember'[x] = oMember[x]
  BY ActiveCovers DEF OctaviaOK
<1>3. SameButMember(new, row, m) /\ Put(r, new)
  OBVIOUS
<1>. HIDE DEF row, r
<1>4. ASSUME NEW x \in Listener, Exists(oListener[x])
      PROVE  \/ HasListener(new, x, oListener[x])
             \/ \E s \in live \ {r} : HasListener(rows[s], x, oListener[x])
  <2>1. HasListener(row, x, oListener[x]) => HasListener(new, x, oListener[x])
    BY <1>3 DEF HasListener, SameButMember
  <2>. QED  BY <1>4, <2>1, ActiveCovers, KeptListener DEF row
<1>5. ASSUME NEW p \in Pool, Exists(oPool[p])
      PROVE  \/ HasPool(new, p, oPool[p])
             \/ \E s \in live \ {r} : HasPool(rows[s], p, oPool[p])
  <2>1. HasPool(row, p, oPool[p]) => HasPool(new, p, oPool[p])
    BY <1>3 DEF HasPool, SameButMember
  <2>. QED  BY <1>5, <2>1, ActiveCovers, KeptPool DEF row
<1>6. ASSUME NEW x \in Member, x # m, Exists(oMember[x])
      PROVE  \/ HasMember(new, x, oMember[x])
             \/ \E s \in live \ {r} : HasMember(rows[s], x, oMember[x])
  <2>1. HasMember(row, x, oMember[x]) => HasMember(new, x, oMember[x])
    BY <1>3, <1>6 DEF HasMember, SameButMember
  <2>. QED  BY <1>6, <2>1, ActiveCovers, KeptMember DEF row
<1>7. Complete(r, new, oListener', oPool', oMember')
  BY <1>2, <1>4, <1>5, <1>6 DEF Complete
<1>8. oLb.up => new.enabled
  BY <1>1, <1>3, ActiveCovers DEF SameButMember, row
<1>. QED  BY <1>1, <1>3, <1>7, <1>8, OnePutCovers

LEMMA MemberCreateCovers ==
    ASSUME CInv, Failures = {}, NEW m \in Member,
           NEW up \in BOOLEAN, up = TRUE, MemberCreate(m, up)
    PROVE  Settled' /\ Coverage'
<1>. DEFINE record == [prov |-> "ACTIVE", up |-> up]
<1>1. /\ Mutable /\ UNCHANGED <<oLb, oListener, oPool>> /\ up = TRUE
      /\ oMember' = [oMember EXCEPT ![m] = record] /\ Exists(record)
  BY DEF MemberCreate, MemberRowMissing, Report, Exists
<1>2. Settled'
  <2>. HIDE DEF record
  <2>. QED  BY <1>1, ActiveCovers, SettledMember
<1>3. ASSUME NEW rk \in PoolRows(PoolOf[m]),
             Put(rk[1], SetStatus(MemberJoined(rows[rk[1]], rk[2], m, up), m, "NO_MONITOR"))
      PROVE  Coverage'
  <2>. DEFINE row == rows[rk[1]]
              k == rk[2]
              mems == row.members[k] \cup {m}
              put == PutPool(row, k, mems)
              joined == MemberJoined(row, k, m, up)
              new == SetStatus(joined, m, "NO_MONITOR")
  <2>1. row \in RowContents /\ k \in row.pools /\ k \in PoolKey
    BY <1>1, ActiveCovers, MemberRow
  <2>2. mems \in SUBSET Member
    BY <2>1 DEF RowContents
  <2>. HIDE DEF row, k
  <2>3. /\ put \in RowContents
        /\ put.pools = row.pools
        /\ put.status = row.status /\ put.refs = row.refs
        /\ put.listeners = row.listeners
        /\ put.members[k] = mems
        /\ \A x \in PoolKey \ {k} : put.members[x] = row.members[x]
        /\ put.enabled = row.enabled
    <3>1. row.pools \cup {k} = row.pools
      BY <2>1
    <3>. HIDE DEF mems
    <3>2. put \in RowContents
      BY <2>1, <2>2, PutPoolGives
    <3>3. /\ put.pools = row.pools
          /\ put.status = row.status /\ put.refs = row.refs
          /\ put.listeners = row.listeners
      BY <2>1, <3>1, PutPoolRecords
    <3>4. /\ put.members[k] = mems
          /\ \A x \in PoolKey \ {k} : put.members[x] = row.members[x]
          /\ put.enabled = row.enabled
      BY <2>1, PutPoolRest
    <3>. QED  BY <3>2, <3>3, <3>4
  <2>4. joined = Refresh(put)
    BY <1>1 DEF MemberJoined
  <2>. HIDE DEF put, joined
  <2>5. joined \in RowContents /\ SameInputs(joined, put)
    BY <2>3, <2>4, RefreshKeeps, RefreshFresh
  <2>6. /\ new.pools = joined.pools /\ new.listeners = joined.listeners
        /\ new.refs = joined.refs /\ new.members = joined.members
        /\ new.enabled = joined.enabled
        /\ new.status[m] = "NO_MONITOR"
        /\ \A x \in Member \ {m} : new.status[x] = joined.status[x]
    BY <2>5, SetStatusRest
  <2>. HIDE DEF new, mems
  <2>7. /\ new.pools = row.pools /\ new.listeners = row.listeners
        /\ new.refs = row.refs /\ new.enabled = row.enabled
        /\ new.members[k] = mems
        /\ \A x \in PoolKey \ {k} : new.members[x] = row.members[x]
        /\ \A x \in Member \ {m} : new.status[x] = row.status[x]
    BY <2>3, <2>5, <2>6 DEF SameInputs, SameRecords
  <2>8. SameButMember(new, row, m)
    <3>1. \A x \in row.pools : row.members[x] \subseteq new.members[x] \cup {m}
      BY <2>1, <2>7 DEF RowContents, mems
    <3>. QED  BY <2>7, <3>1 DEF SameButMember
  <2>9. HasMember(new, m, record)
    BY <2>1, <2>6, <2>7 DEF HasMember, mems
  <2>10. Put(rk[1], new)
    BY <1>3 DEF new, joined, row, k
  <2>. HIDE DEF record
  <2>. QED  BY <1>1, <2>8, <2>9, <2>10, MemberPutCovers DEF row
<1>4. CASE MemberRowMissing(m, record)
  BY <1>2, <1>4 DEF MemberRowMissing, Coverage
<1>5. \/ MemberRowMissing(m, record)
      \/ \E rk \in PoolRows(PoolOf[m]) :
            Put(rk[1], SetStatus(MemberJoined(rows[rk[1]], rk[2], m, up), m, "NO_MONITOR"))
  BY <1>1 DEF MemberCreate
<1>. HIDE DEF record
<1>. QED  BY <1>2, <1>3, <1>4, <1>5

LEMMA MemberDeleteCovers ==
    ASSUME CInv, Failures = {}, NEW m \in Member, MemberDelete(m)
    PROVE  Settled' /\ Coverage'
<1>1. /\ Mutable /\ UNCHANGED <<oLb, oListener, oPool>> /\ Exists(oMember[m])
  BY DEF MemberDelete
<1>2. ~Exists(AbsentChild) /\ ~AbsentChild.up
  BY DEF Exists, AbsentChild
<1>3. ASSUME NEW rk \in PoolRows(PoolOf[m]),
             Put(rk[1], Forget(MemberLeft(rows[rk[1]], rk[2], m), m)),
             oMember' = [oMember EXCEPT ![m] = AbsentChild]
      PROVE  Settled' /\ Coverage'
  <2>. DEFINE row == rows[rk[1]]
              k == rk[2]
              mems == row.members[k] \ {m}
              put == PutPool(row, k, mems)
              left == MemberLeft(row, k, m)
              new == Forget(left, m)
  <2>1. row \in RowContents /\ k \in row.pools /\ k \in PoolKey
    BY <1>1, ActiveCovers, MemberRow
  <2>2. mems \in SUBSET Member
    BY <2>1 DEF RowContents
  <2>. HIDE DEF row, k
  <2>3. /\ put \in RowContents
        /\ put.pools = row.pools
        /\ put.status = row.status /\ put.refs = row.refs
        /\ put.listeners = row.listeners
        /\ put.members[k] = mems
        /\ \A x \in PoolKey \ {k} : put.members[x] = row.members[x]
        /\ put.enabled = row.enabled
    <3>1. row.pools \cup {k} = row.pools
      BY <2>1
    <3>. HIDE DEF mems
    <3>2. put \in RowContents
      BY <2>1, <2>2, PutPoolGives
    <3>3. /\ put.pools = row.pools
          /\ put.status = row.status /\ put.refs = row.refs
          /\ put.listeners = row.listeners
      BY <2>1, <3>1, PutPoolRecords
    <3>4. /\ put.members[k] = mems
          /\ \A x \in PoolKey \ {k} : put.members[x] = row.members[x]
          /\ put.enabled = row.enabled
      BY <2>1, PutPoolRest
    <3>. QED  BY <3>2, <3>3, <3>4
  <2>4. left = Refresh(put) \/ left = row
    BY DEF MemberLeft
  <2>. HIDE DEF put, left
  <2>5. /\ left \in RowContents
        /\ left.pools = row.pools /\ left.listeners = row.listeners
        /\ left.refs = row.refs /\ left.enabled = row.enabled
        /\ left.status = row.status
        /\ left.members[k] \in {mems, row.members[k]}
        /\ \A x \in PoolKey \ {k} : left.members[x] = row.members[x]
    <3>1. CASE left = Refresh(put)
      BY <2>3, <3>1, RefreshKeeps, RefreshFresh DEF SameInputs, SameRecords
    <3>2. CASE left = row
      BY <2>1, <3>2
    <3>. QED  BY <2>4, <3>1, <3>2
  <2>6. /\ new.pools = left.pools /\ new.listeners = left.listeners
        /\ new.refs = left.refs /\ new.members = left.members
        /\ new.enabled = left.enabled
        /\ \A x \in Member \ {m} : new.status[x] = left.status[x]
    <3>1. new = SetStatus(left, m, "none")
      BY ForgetIsSetStatus
    <3>. HIDE DEF new
    <3>. QED  BY <2>5, <3>1, SetStatusRest
  <2>. HIDE DEF new
  <2>7. SameButMember(new, row, m)
    <3>1. \A x \in row.pools : row.members[x] \subseteq new.members[x] \cup {m}
      BY <2>1, <2>5, <2>6 DEF RowContents, mems
    <3>. QED  BY <2>5, <2>6, <3>1 DEF SameButMember
  <2>8. Put(rk[1], new)
    BY <1>3 DEF new, left, row, k
  <2>9. Coverage'
    BY <1>1, <1>2, <1>3, <2>7, <2>8, MemberPutCovers DEF row
  <2>10. Settled'
    BY <1>1, <1>2, <1>3, ActiveCovers, SettledMember
  <2>. QED  BY <2>9, <2>10
<1>4. CASE MemberRowMissing(m, oMember[m])
  <2>1. oMember' = oMember /\ unanswered' = TRUE
    BY <1>1, <1>4, ActiveCovers DEF MemberRowMissing, OctaviaOK
  <2>2. Settled'
    BY <1>1, <2>1, ActiveCovers DEF Settled
  <2>. QED  BY <2>1, <2>2 DEF Coverage
<1>5. \/ MemberRowMissing(m, oMember[m])
      \/ \E rk \in PoolRows(PoolOf[m]) :
            /\ Put(rk[1], Forget(MemberLeft(rows[rk[1]], rk[2], m), m))
            /\ oMember' = [oMember EXCEPT ![m] = AbsentChild]
  BY DEF MemberDelete, Report
<1>. QED  BY <1>3, <1>4, <1>5

LEMMA MemberUpdateCovers ==
    ASSUME CInv, Failures = {}, NEW m \in Member, NEW up \in Opt(BOOLEAN),
           MemberUpdate(m, up)
    PROVE  Settled' /\ Coverage'
<1>. DEFINE to == Given(up, TRUE)
            word == IF to THEN "NO_MONITOR" ELSE "OFFLINE"
            asked == [prov |-> "ACTIVE", up |-> Given(up, oMember[m].up)]
<1>1. /\ Mutable /\ UNCHANGED <<oLb, oListener, oPool>> /\ Exists(oMember[m])
  BY DEF MemberUpdate
<1>2. Exists(asked) /\ asked.up = Given(up, oMember[m].up)
  BY DEF Exists
<1>3. to => word # "OFFLINE"
  OBVIOUS
<1>4. oMember' = [oMember EXCEPT ![m] = asked] => Settled'
  <2>. HIDE DEF asked
  <2>. QED  BY <1>1, <1>2, ActiveCovers, SettledMember
<1>5. ASSUME NEW rk \in PoolRows(PoolOf[m]), NEW new, Put(rk[1], new),
             \/ up = {} /\ new = rows[rk[1]]
             \/ up # {} /\ new = Refresh(SetStatus(rows[rk[1]], m, word))
             \/ up # {} /\ new = SetStatus(rows[rk[1]], m, word),
             oMember' = [oMember EXCEPT ![m] = asked]
      PROVE  Coverage'
  <2>. DEFINE row == rows[rk[1]]
              marked == SetStatus(row, m, word)
  <2>1. row \in RowContents /\ rk[1] \in live
    BY <1>1, ActiveCovers, MemberRow
  <2>2. HasMember(row, m, oMember[m])
    <3>1. PICK s \in live : HasMember(rows[s], m, oMember[m])
      BY <1>1, ActiveCovers DEF Covering
    <3>2. \E k \in rows[s].pools : m \in rows[s].members[k]
      BY <3>1 DEF HasMember
    <3>3. s = rk[1]
      BY <1>1, <3>2, ActiveCovers, MemberRow
    <3>. QED  BY <3>1, <3>3
  <2>3. word \in MemberStatus
    BY DEF word, MemberStatus
  <2>4. \/ up = {} /\ new = row
        \/ up # {} /\ new = Refresh(marked)
        \/ up # {} /\ new = marked
    BY <1>5
  <2>. HIDE DEF row, word, to, asked
  <2>5. /\ marked \in RowContents
        /\ marked.pools = row.pools /\ marked.listeners = row.listeners
        /\ marked.refs = row.refs /\ marked.members = row.members
        /\ marked.enabled = row.enabled
        /\ marked.status[m] = word
        /\ \A x \in Member \ {m} : marked.status[x] = row.status[x]
    BY <2>1, <2>3, SetStatusKeeps, SetStatusRest
  <2>. HIDE DEF marked
  <2>6. ASSUME up # {}
        PROVE  /\ new.pools = row.pools /\ new.listeners = row.listeners
               /\ new.refs = row.refs /\ new.members = row.members
               /\ new.enabled = row.enabled
               /\ new.status[m] = word
               /\ \A x \in Member \ {m} : new.status[x] = row.status[x]
    <3>1. SameInputs(Refresh(marked), marked)
      BY <2>5, RefreshFresh
    <3>. QED  BY <2>4, <2>5, <2>6, <3>1 DEF SameInputs, SameRecords
  <2>7. SameButMember(new, row, m)
    <3>1. CASE up = {}
      BY <2>4, <3>1 DEF SameButMember
    <3>2. CASE up # {}
      BY <2>6, <3>2 DEF SameButMember
    <3>. QED  BY <3>1, <3>2
  <2>8. HasMember(new, m, asked)
    <3>1. CASE up = {}
      <4>1. asked.up = oMember[m].up
        BY <1>2, <3>1 DEF Given
      <4>. QED  BY <2>2, <2>4, <3>1, <4>1 DEF HasMember
    <3>2. CASE up # {}
      <4>1. asked.up = to
        BY <1>2, <3>2 DEF Given, to
      <4>2. asked.up => new.status[m] # "OFFLINE"
        BY <1>3, <2>6, <3>2, <4>1
      <4>. QED  BY <2>2, <2>6, <3>2, <4>2 DEF HasMember
    <3>. QED  BY <3>1, <3>2
  <2>. QED  BY <1>1, <1>5, <2>7, <2>8, MemberPutCovers DEF row
<1>6. CASE MemberRowMissing(m, asked)
  BY <1>4, <1>6 DEF MemberRowMissing, Coverage
<1>7. \/ MemberRowMissing(m, asked)
      \/ \E rk \in PoolRows(PoolOf[m]) :
            /\ oMember' = [oMember EXCEPT ![m] = asked]
            /\ LET row == rows[rk[1]]
               IN  \/ up = {} /\ Put(rk[1], row)
                   \/ up # {} /\ Put(rk[1], Refresh(SetStatus(row, m, word)))
                   \/ up # {} /\ Put(rk[1], SetStatus(row, m, word))
  BY DEF MemberUpdate, Report
<1>. HIDE DEF word, asked, to
<1>. QED  BY <1>4, <1>5, <1>6, <1>7

-----------------------------------------------------------------------------
(* A step of the usual order                                               *)

LEMMA UsualCovers ==
    ASSUME Failures = {}, CInv, UsualNext, Next
    PROVE  CInv'
<1>. SUFFICES Settled' /\ Coverage'
  BY NextServes DEF CInv
<1>. \A up \in Enabled : up \in BOOLEAN /\ up = TRUE
  BY DEF Enabled
<1>1. ASSUME NEW up \in Enabled, LbCreate(up) PROVE Settled' /\ Coverage'
  BY <1>1, LbCreateCovers
<1>2. ASSUME NEW up \in BOOLEAN, LbUpdate(up) PROVE Settled' /\ Coverage'
  BY <1>2, LbUpdateCovers
<1>3. ASSUME NEW cascade \in BOOLEAN, LbDelete(cascade) PROVE Settled' /\ Coverage'
  BY <1>3, LbDeleteCovers
<1>4. ASSUME NEW l \in Listener,
             \/ \E up \in Enabled, dp \in Pool \cup {None} : ListenerCreate(l, up, dp)
             \/ \E up \in Opt(BOOLEAN), dp \in Opt(Pool \cup {None}) :
                   ListenerUpdate(l, up, dp)
             \/ ListenerDelete(l)
      PROVE  Settled' /\ Coverage'
  BY <1>4, ListenerCreateCovers, ListenerUpdateCovers, ListenerDeleteCovers
<1>5. ASSUME NEW p \in Pool,
             \/ \E up \in Enabled : PoolCreate(p, up, None)
             \/ \E up \in Opt(BOOLEAN) : PoolUpdate(p, up)
             \/ PoolDelete(p)
      PROVE  Settled' /\ Coverage'
  BY <1>5, PoolCreateCovers, PoolUpdateCovers, PoolDeleteCovers
<1>6. ASSUME NEW m \in Member,
             \/ \E up \in Enabled : MemberCreate(m, up)
             \/ \E up \in Opt(BOOLEAN) : MemberUpdate(m, up)
             \/ MemberDelete(m)
      PROVE  Settled' /\ Coverage'
  BY <1>6, MemberCreateCovers, MemberUpdateCovers, MemberDeleteCovers
<1>. QED  BY <1>1, <1>2, <1>3, <1>4, <1>5, <1>6 DEF UsualNext

\* The listener, its pool and the member have their keys in the same row, the keys
\* are plain, and the row is fresh.
LEMMA CoveredIsServed == CInv => ConfiguredIsServed
<1>. SUFFICES ASSUME CInv, ServiceUp, ~unanswered, NEW m \in Member, NEW l \in Listener,
                     oMember[m].up, oPool[PoolOf[m]].up, oListener[l].up,
                     oListener[l].pool = PoolOf[m]
              PROVE  m \in Backends(l)
  BY DEF ConfiguredIsServed
<1>. DEFINE p == PoolOf[m]
            lkey == <<l, TRUE>>
            pkey == <<p, TRUE>>
<1>1. Mutable /\ oLb.up
  BY DEF ServiceUp, Mutable
<1>2. /\ p \in Pool /\ p # None /\ oListener[l].up = TRUE /\ oPool[p].up = TRUE
  BY <1>1, ConstantsAssumption, ActiveCovers DEF OctaviaOK, ListenerRecord, ChildRecord
<1>3. Exists(oListener[l]) /\ Exists(oPool[p]) /\ Exists(oMember[m])
  BY <1>1, <1>2, ActiveCovers DEF Settled
<1>4. PICK r \in live : lkey \in rows[r].listeners /\ rows[r].refs[lkey] = {pkey}
  BY <1>1, <1>2, <1>3, ActiveCovers DEF Covering, HasListener
<1>5. /\ r \in Row /\ rows[r] \in RowContents /\ RowKeysOK(rows[r])
      /\ Known(rows[r], KnownPools, KnownMembers) /\ Fresh(rows[r])
      /\ rows[r].enabled /\ RowsOK
  BY <1>1, ActiveCovers, ActiveServes
<1>6. rows[r].protocol = ProtocolOf[p]
  <2>1. rows[r].protocol = ProtocolOf[l]
    BY <1>4, <1>5 DEF RowKeysOK
  <2>2. lkey \in rows[r].listeners /\ pkey \in rows[r].refs[lkey]
    BY <1>4
  <2>3. pkey[1] = p /\ lkey[1] = l
    OBVIOUS
  <2>4. pkey[1] # None => ProtocolOf[pkey[1]] = ProtocolOf[lkey[1]]
    <3>. HIDE DEF lkey, pkey, p
    <3>. QED  BY <1>5, <2>2 DEF Known, RefsKnown
  <2>5. ProtocolOf[p] = ProtocolOf[l]
    BY <1>2, <2>3, <2>4
  <2>. QED  BY <2>1, <2>5
<1>7. r \in FindRow(ProtocolOf[p])
  BY <1>6 DEF FindRow
<1>8. pkey \in rows[r].pools
  BY <1>1, <1>2, <1>3, <1>7, FoundPool DEF HasPool
<1>9. PICK s \in live : HasMember(rows[s], m, oMember[m])
  BY <1>1, <1>3, ActiveCovers DEF Covering
<1>10. PICK k \in rows[s].pools : /\ m \in rows[s].members[k]
                                  /\ rows[s].status[m] # "OFFLINE"
  BY <1>9 DEF HasMember
<1>11. /\ RowKeysOK(rows[s]) /\ rows[s] \in RowContents
       /\ Agrees(rows[s], oListener, oPool, oMember)
  BY <1>1, ActiveCovers, ActiveServes
<1>12. k[1] = p /\ k \in PoolKey
  BY <1>10, <1>11 DEF Agrees, MembersAgree, RowContents
<1>13. s = r
  <2>1. rows[s].protocol = ProtocolOf[p]
    BY <1>10, <1>11, <1>12 DEF RowKeysOK
  <2>. QED  BY <1>2, <1>5, <1>7, <2>1, FoundAlone, ConstantsAssumption
<1>14. k = pkey
  <2>1. k = <<p, k[2]>> /\ k[2] \in BOOLEAN
    BY <1>12 DEF PoolKey
  <2>2. <<pkey[1], ~pkey[2]>> \notin rows[r].pools
    <3>. HIDE DEF pkey
    <3>. QED  BY <1>5, <1>8 DEF RowKeysOK
  <2>3. <<p, FALSE>> \notin rows[r].pools
    BY <2>2
  <2>. QED  BY <1>10, <1>13, <2>1, <2>3
<1>15. Serves(rows[r], l, m)
  <2>1. Routes(rows[r], l, pkey)
    BY <1>4, <1>8 DEF Routes
  <2>2. pkey \in PoolKey
    BY <1>2 DEF PoolKey
  <2>. HIDE DEF pkey
  <2>. QED  BY <1>5, <1>10, <1>13, <1>14, <2>1, <2>2 DEF Serves
<1>16. m \in rows[r].vips[l]
  <2>1. m \in FrameVips(rows[r])[l]
    BY <1>15 DEF FrameVips, Serves
  <2>. QED  BY <1>5, <2>1 DEF Fresh
<1>. QED  BY <1>16 DEF Backends

-----------------------------------------------------------------------------
(* The theorem                                                             *)

\* SInv whatever was done, CInv as long as the usual order was kept.
HInv == SInv /\ (usual => CInv)

LEMMA HInitOK == HInit => HInv
<1>1. Init => SInv
  <2>1. Init => KInv
    BY InitOK DEF Init, KInv, Knows
  <2>. QED  BY <2>1 DEF Init, SInv, Agreement, VipsFresh
<1>2. Init => Settled
  BY DEF Init, Settled, Exists, AbsentListener, AbsentChild
<1>3. Init => Coverage
  BY DEF Init, Coverage, AbsentLb
<1>. QED  BY <1>1, <1>2, <1>3 DEF HInit, HInv, CInv

LEMMA HNextOK ==
    ASSUME Failures = {}, HInv, [HNext]_hvars
    PROVE  HInv'
<1>1. CASE HNext
  <2>1. SInv'
    BY <1>1, NextServes DEF HNext, HInv
  <2>2. ASSUME usual' PROVE CInv'
    <3>1. usual /\ UsualNext /\ Next
      BY <1>1, <2>2 DEF HNext
    <3>2. CInv
      BY <3>1 DEF HInv
    <3>. QED  BY <3>1, <3>2, UsualCovers
  <2>. QED  BY <2>1, <2>2 DEF HInv
<1>2. CASE UNCHANGED hvars
  <2>1. UNCHANGED vars /\ usual' = usual
    BY <1>2 DEF hvars, vars
  <2>2. SInv'
    BY <2>1, NextServes DEF HInv
  <2>3. CInv => Settled' /\ Coverage'
    BY <2>1 DEF vars, CInv, Settled, Coverage
  <2>. QED  BY <2>1, <2>2, <2>3 DEF HInv, CInv
<1>. QED  BY <1>1, <1>2

\* Whatever is configured and enabled is forwarded, while no database call fails
\* and every request was answered, as long as children were created enabled and pools
\* without a listener: _frame_vip_ips finds every member of the default pool of
\* every listener, whatever was updated, disabled, deleted and enabled again since.
THEOREM EverythingServed ==
    ASSUME Failures = {}
    PROVE  HSpec => []UsuallyServed
<1>1. HInv => UsuallyServed
  BY CoveredIsServed DEF HInv, UsuallyServed
<1>. QED  BY <1>1, HInitOK, HNextOK, PTL DEF HSpec

=============================================================================
