---------------------------- MODULE DbSyncProofs ----------------------------
(***************************************************************************)
(* What the synchronisation tool achieves for any number of rows,          *)
(* listeners, pools and members, wherever it stops and whatever users and  *)
(* the database do between its runs.  It leaves rows behind that IInv of   *)
(* OvnLoadBalancerProofs excludes (a listener with both keys, two rows of  *)
(* one protocol), so the invariants here ask less of the handlers.         *)
(***************************************************************************)
EXTENDS DbSync, OvnLoadBalancerProofs

\* A row, with every member it lists under a key of its pool.
Filed(row) ==
    /\ row \in RowContents
    /\ \A k \in PoolKey : \A m \in row.members[k] :
          PoolOf[m] = k[1] /\ k \in row.pools

RowsFiled ==
    /\ live \subseteq Row
    /\ rows \in [Row -> RowContents]
    /\ \A r \in Row : Filed(rows[r])

\* A record that says nothing unless it exists.
ListenerOrBlank == {x \in ListenerRecord : Exists(x)} \cup {AbsentListener}
ChildOrBlank    == {x \in ChildRecord : Exists(x)} \cup {AbsentChild}

RecordsOK ==
    /\ oLb \in LbRecord
    /\ oListener \in [Listener -> ListenerOrBlank]
    /\ oPool \in [Pool -> ChildOrBlank]
    /\ oMember \in [Member -> ChildOrBlank]
    /\ unanswered \in BOOLEAN

BInv == RowsFiled /\ RecordsOK

\* The function f with another value at k.
With(f, k, v) == [f EXCEPT ![k] = v]

-----------------------------------------------------------------------------
(* What the operators make of a row                                        *)

LEMMA WithSame ==
    ASSUME NEW S, NEW T, NEW f \in [S -> T], NEW k \in S
    PROVE  With(f, k, f[k]) = f
BY DEF With

LEMMA BlankFiled ==
    /\ Filed(BlankRow)
    /\ \A proto \in Protocol \cup {NoProtocol}, up \in BOOLEAN :
          Filed(NewRow(proto, up))
BY BlankRowType DEF Filed, NewRow, BlankRow

LEMMA FieldsFiled ==
    ASSUME NEW row, Filed(row), NEW new \in RowContents,
           new.pools = row.pools, new.members = row.members
    PROVE  Filed(new)
BY DEF Filed

LEMMA RefreshFiled ==
    ASSUME NEW row, Filed(row)
    PROVE  LET new == Refresh(row)
           IN  /\ Filed(new)
               /\ new.vips = FrameVips(row)
               /\ new.protocol = row.protocol /\ new.enabled = row.enabled
               /\ new.listeners = row.listeners /\ new.refs = row.refs
               /\ new.pools = row.pools /\ new.members = row.members
               /\ new.status = row.status
<1>1. row \in RowContents /\ Refresh(row) \in RowContents
  BY RefreshKeeps DEF Filed
<1>2. LET new == Refresh(row)
      IN  /\ new.vips = FrameVips(row)
          /\ new.protocol = row.protocol /\ new.enabled = row.enabled
          /\ new.listeners = row.listeners /\ new.refs = row.refs
          /\ new.pools = row.pools /\ new.members = row.members
          /\ new.status = row.status
  BY <1>1 DEF Refresh, RowContents
<1>. QED  BY <1>1, <1>2, FieldsFiled

LEMMA PutListenerFiled ==
    ASSUME NEW row, Filed(row), NEW k \in ListenerKey, NEW refs \in SUBSET PoolRef
    PROVE  LET new == PutListener(row, k, refs)
           IN  /\ Filed(new)
               /\ new.protocol = row.protocol /\ new.enabled = row.enabled
               /\ new.listeners = row.listeners \cup {k}
               /\ new.refs = With(row.refs, k, refs)
               /\ new.pools = row.pools /\ new.members = row.members
               /\ new.status = row.status /\ new.vips = row.vips
<1>1. row \in RowContents /\ PutListener(row, k, refs) \in RowContents
  BY PutListenerGives DEF Filed
<1>2. LET new == PutListener(row, k, refs)
      IN  /\ new.protocol = row.protocol /\ new.enabled = row.enabled
          /\ new.listeners = row.listeners \cup {k}
          /\ new.refs = With(row.refs, k, refs)
          /\ new.pools = row.pools /\ new.members = row.members
          /\ new.status = row.status /\ new.vips = row.vips
  BY <1>1 DEF PutListener, RowContents, With
<1>. QED  BY <1>1, <1>2, FieldsFiled

LEMMA DropListenerFiled ==
    ASSUME NEW row, Filed(row), NEW k \in ListenerKey
    PROVE  LET new == DropListener(row, k)
           IN  /\ Filed(new)
               /\ new.protocol = row.protocol
               /\ new.listeners = row.listeners \ {k}
               /\ new.pools = row.pools /\ new.members = row.members
<1>1. row \in RowContents /\ DropListener(row, k) \in RowContents
  BY DropListenerGives DEF Filed
<1>2. LET new == DropListener(row, k)
      IN  /\ new.protocol = row.protocol
          /\ new.listeners = row.listeners \ {k}
          /\ new.pools = row.pools /\ new.members = row.members
  BY <1>1 DEF DropListener, RowContents
<1>. QED  BY <1>1, <1>2, FieldsFiled

LEMMA PutPoolFiled ==
    ASSUME NEW row, Filed(row), NEW k \in PoolKey, NEW mems \in SUBSET Member,
           \A m \in mems : PoolOf[m] = k[1]
    PROVE  LET new == PutPool(row, k, mems)
           IN  /\ Filed(new)
               /\ new.protocol = row.protocol /\ new.enabled = row.enabled
               /\ new.listeners = row.listeners /\ new.refs = row.refs
               /\ new.pools = row.pools \cup {k}
               /\ new.members = With(row.members, k, mems)
               /\ new.status = row.status /\ new.vips = row.vips
<1>1. row \in RowContents /\ PutPool(row, k, mems) \in RowContents
  BY PutPoolGives DEF Filed
<1>2. LET new == PutPool(row, k, mems)
      IN  /\ new.protocol = row.protocol /\ new.enabled = row.enabled
          /\ new.listeners = row.listeners /\ new.refs = row.refs
          /\ new.pools = row.pools \cup {k}
          /\ new.members = With(row.members, k, mems)
          /\ new.status = row.status /\ new.vips = row.vips
  BY <1>1 DEF PutPool, RowContents, With
<1>3. row.members \in [PoolKey -> SUBSET Member]
  BY <1>1 DEF RowContents
<1>. QED  BY <1>1, <1>2, <1>3 DEF Filed, With

LEMMA DropPoolFiled ==
    ASSUME NEW row, Filed(row), NEW k \in PoolKey
    PROVE  LET new == DropPool(row, k)
           IN  /\ Filed(new)
               /\ new.protocol = row.protocol
               /\ new.listeners = row.listeners
               /\ new.pools = row.pools \ {k}
               /\ new.members = With(row.members, k, {})
<1>1. row \in RowContents /\ DropPool(row, k) \in RowContents
  BY DropPoolGives DEF Filed
<1>2. LET new == DropPool(row, k)
      IN  /\ new.protocol = row.protocol
          /\ new.listeners = row.listeners
          /\ new.pools = row.pools \ {k}
          /\ new.members = With(row.members, k, {})
  BY <1>1 DEF DropPool, RowContents, With
<1>3. row.members \in [PoolKey -> SUBSET Member]
  BY <1>1 DEF RowContents
<1>. QED  BY <1>1, <1>2, <1>3 DEF Filed, With

LEMMA DetachPoolFiled ==
    ASSUME NEW row, Filed(row), NEW p
    PROVE  LET new == DetachPool(row, p)
           IN  /\ Filed(new)
               /\ new.protocol = row.protocol
               /\ new.listeners = row.listeners
               /\ new.pools = row.pools /\ new.members = row.members
<1>1. row \in RowContents /\ DetachPool(row, p) \in RowContents
  BY DetachPoolKeeps DEF Filed
<1>2. LET new == DetachPool(row, p)
      IN  /\ new.protocol = row.protocol
          /\ new.listeners = row.listeners
          /\ new.pools = row.pools /\ new.members = row.members
  BY <1>1 DEF DetachPool, RowContents
<1>. QED  BY <1>1, <1>2, FieldsFiled

LEMMA StatusFiled ==
    ASSUME NEW row, Filed(row), NEW m \in Member, NEW status \in MemberStatus
    PROVE  LET new == SetStatus(row, m, status)
           IN  /\ Filed(new)
               /\ new.protocol = row.protocol /\ new.enabled = row.enabled
               /\ new.listeners = row.listeners /\ new.refs = row.refs
               /\ new.pools = row.pools /\ new.members = row.members
               /\ new.status = With(row.status, m, status)
               /\ new.vips = row.vips
<1>1. row \in RowContents /\ SetStatus(row, m, status) \in RowContents
  BY SetStatusKeeps DEF Filed
<1>2. LET new == SetStatus(row, m, status)
      IN  /\ new.protocol = row.protocol /\ new.enabled = row.enabled
          /\ new.listeners = row.listeners /\ new.refs = row.refs
          /\ new.pools = row.pools /\ new.members = row.members
          /\ new.status = With(row.status, m, status)
          /\ new.vips = row.vips
  BY <1>1 DEF SetStatus, RowContents, With
<1>. QED  BY <1>1, <1>2, FieldsFiled

LEMMA ForgetFiled ==
    ASSUME NEW row, Filed(row), NEW m \in Member
    PROVE  LET new == Forget(row, m)
           IN  /\ Filed(new)
               /\ new.protocol = row.protocol
               /\ new.listeners = row.listeners
               /\ new.pools = row.pools /\ new.members = row.members
<1>1. Forget(row, m) = SetStatus(row, m, "none")
  BY DEF Forget, SetStatus
<1>2. "none" \in MemberStatus
  BY DEF MemberStatus
<1>3. LET new == SetStatus(row, m, "none")
      IN  /\ Filed(new)
          /\ new.protocol = row.protocol
          /\ new.listeners = row.listeners
          /\ new.pools = row.pools /\ new.members = row.members
  BY <1>2, StatusFiled
<1>. QED  BY <1>1, <1>3

LEMMA ListenerMovedFiled ==
    ASSUME NEW row, Filed(row), NEW k \in row.listeners, NEW up \in Opt(BOOLEAN),
           NEW dp \in Opt(Pool \cup {None})
    PROVE  LET new == ListenerMoved(row, k, up, dp)
           IN  /\ Filed(new)
               /\ new.protocol = row.protocol
               /\ new.listeners \subseteq row.listeners \cup ({k[1]} \X BOOLEAN)
               /\ new.pools = row.pools /\ new.members = row.members
<1>1. k \in ListenerKey /\ k[1] \in Listener /\ k[2] \in BOOLEAN
  BY DEF Filed, RowContents, ListenerKey
<1>2. Given(up, k[2]) \in BOOLEAN /\ Given(dp, None) \in Pool \cup {None}
  BY <1>1 DEF Opt, Given
<1>. DEFINE moved == <<k[1], Given(up, k[2])>>
            refs == IF dp = {} THEN row.refs[k] ELSE {<<Given(dp, None), TRUE>>}
            dropped == DropListener(row, k)
            put == PutListener(dropped, moved, refs)
<1>3. moved \in ListenerKey /\ refs \in SUBSET PoolRef
  <2>1. moved \in ListenerKey
    BY <1>1, <1>2 DEF ListenerKey
  <2>2. row.refs[k] \in SUBSET PoolRef
    BY <1>1 DEF Filed, RowContents
  <2>3. <<Given(dp, None), TRUE>> \in PoolRef
    BY <1>2 DEF PoolRef
  <2>. QED  BY <2>1, <2>2, <2>3
<1>4. /\ Filed(dropped) /\ dropped.protocol = row.protocol
      /\ dropped.listeners = row.listeners \ {k}
      /\ dropped.pools = row.pools /\ dropped.members = row.members
  BY <1>1, DropListenerFiled
<1>5. /\ Filed(put) /\ put.protocol = row.protocol
      /\ put.listeners = dropped.listeners \cup {moved}
      /\ put.pools = row.pools /\ put.members = row.members
  <2>. HIDE DEF moved, refs, dropped
  <2>1. LET new == PutListener(dropped, moved, refs)
        IN  /\ Filed(new)
            /\ new.protocol = dropped.protocol
            /\ new.listeners = dropped.listeners \cup {moved}
            /\ new.pools = dropped.pools /\ new.members = dropped.members
    BY <1>3, <1>4, PutListenerFiled
  <2>. QED  BY <1>4, <2>1
<1>6. ListenerMoved(row, k, up, dp) = Refresh(put)
  BY DEF ListenerMoved
<1>7. /\ Filed(Refresh(put)) /\ Refresh(put).protocol = row.protocol
      /\ Refresh(put).listeners = put.listeners
      /\ Refresh(put).pools = row.pools /\ Refresh(put).members = row.members
  <2>. HIDE DEF put
  <2>. QED  BY <1>5, RefreshFiled
<1>8. moved \in {k[1]} \X BOOLEAN
  BY <1>2
<1>. QED
  <2>. HIDE DEF put, dropped, moved
  <2>. QED  BY <1>4, <1>5, <1>6, <1>7, <1>8

LEMMA PoolSwitchedFiled ==
    ASSUME NEW row, Filed(row), NEW p \in Pool, NEW up \in BOOLEAN
    PROVE  LET old == <<p, ~up>>
               fresh == <<p, up>>
               new == PoolSwitched(row, old, fresh)
           IN  /\ Filed(new)
               /\ new.protocol = row.protocol
               /\ new.listeners = row.listeners
               /\ new.pools = (row.pools \cup {fresh}) \ {old}
               /\ new.members =
                      With(With(row.members, fresh, row.members[old]), old, {})
<1>. DEFINE old == <<p, ~up>>
            fresh == <<p, up>>
            put == PutPool(row, fresh, row.members[old])
            left == DropPool(put, old)
<1>1. /\ old \in PoolKey /\ fresh \in PoolKey /\ row.members[old] \in SUBSET Member
      /\ old[1] = p /\ fresh[1] = p
  BY DEF PoolKey, Filed, RowContents
<1>2. \A m \in row.members[old] : PoolOf[m] = p
  <2>. HIDE DEF old
  <2>. QED  BY <1>1 DEF Filed
<1>3. /\ Filed(put) /\ put.protocol = row.protocol
      /\ put.listeners = row.listeners
      /\ put.pools = row.pools \cup {fresh}
      /\ put.members = With(row.members, fresh, row.members[old])
  <2>. HIDE DEF old, fresh
  <2>. QED  BY <1>1, <1>2, PutPoolFiled
<1>4. /\ Filed(left) /\ left.protocol = row.protocol
      /\ left.listeners = row.listeners
      /\ left.pools = put.pools \ {old}
      /\ left.members = With(put.members, old, {})
  <2>. HIDE DEF old, fresh, put
  <2>. QED  BY <1>1, <1>3, DropPoolFiled
<1>5. PoolSwitched(row, old, fresh) = Refresh(left)
  BY DEF PoolSwitched
<1>6. /\ Filed(Refresh(left)) /\ Refresh(left).protocol = row.protocol
      /\ Refresh(left).listeners = row.listeners
      /\ Refresh(left).pools = left.pools
      /\ Refresh(left).members = left.members
  <2>. HIDE DEF left
  <2>. QED  BY <1>4, RefreshFiled
<1>. QED
  <2>. HIDE DEF left, put, old, fresh
  <2>. QED  BY <1>3, <1>4, <1>5, <1>6 DEF old, fresh

LEMMA MemberJoinedFiled ==
    ASSUME NEW row, Filed(row), NEW k \in row.pools, NEW m \in Member,
           PoolOf[m] = k[1], NEW up \in BOOLEAN
    PROVE  LET new == MemberJoined(row, k, m, up)
           IN  /\ Filed(new)
               /\ new.protocol = row.protocol
               /\ new.listeners = row.listeners /\ new.pools = row.pools
               /\ new.members = With(row.members, k, row.members[k] \cup {m})
               /\ new.status = row.status
<1>. DEFINE joined == PutPool(row, k, row.members[k] \cup {m})
<1>1. k \in PoolKey /\ row.members[k] \cup {m} \in SUBSET Member
      /\ \A x \in row.members[k] \cup {m} : PoolOf[x] = k[1]
  BY DEF Filed, RowContents
<1>2. /\ Filed(joined) /\ joined.protocol = row.protocol
      /\ joined.listeners = row.listeners /\ joined.pools = row.pools
      /\ joined.members = With(row.members, k, row.members[k] \cup {m})
      /\ joined.status = row.status
  <2>1. row.pools \cup {k} = row.pools
    OBVIOUS
  <2>. DEFINE mems == row.members[k] \cup {m}
  <2>. HIDE DEF mems
  <2>2. LET new == PutPool(row, k, mems)
        IN  /\ Filed(new) /\ new.protocol = row.protocol
            /\ new.listeners = row.listeners /\ new.pools = row.pools \cup {k}
            /\ new.members = With(row.members, k, mems)
            /\ new.status = row.status
    BY <1>1, PutPoolFiled DEF mems
  <2>. QED  BY <2>1, <2>2 DEF mems
<1>3. /\ Filed(Refresh(joined)) /\ Refresh(joined).protocol = row.protocol
      /\ Refresh(joined).listeners = row.listeners
      /\ Refresh(joined).pools = row.pools
      /\ Refresh(joined).members = joined.members
      /\ Refresh(joined).status = row.status
  <2>. HIDE DEF joined
  <2>. QED  BY <1>2, RefreshFiled
<1>4. MemberJoined(row, k, m, up) = IF up THEN Refresh(joined) ELSE joined
  BY DEF MemberJoined
<1>. QED
  <2>. HIDE DEF joined
  <2>. QED  BY <1>2, <1>3, <1>4

LEMMA MemberLeftFiled ==
    ASSUME NEW row, Filed(row), NEW k \in row.pools, NEW m \in Member
    PROVE  LET new == MemberLeft(row, k, m)
           IN  /\ Filed(new)
               /\ new.protocol = row.protocol
               /\ new.listeners = row.listeners /\ new.pools = row.pools
               /\ new.members = With(row.members, k, row.members[k] \ {m})
<1>. DEFINE left == PutPool(row, k, row.members[k] \ {m})
<1>1. /\ k \in PoolKey /\ row.members[k] \ {m} \in SUBSET Member
      /\ row.members \in [PoolKey -> SUBSET Member]
      /\ \A x \in row.members[k] \ {m} : PoolOf[x] = k[1]
  BY DEF Filed, RowContents
<1>2. /\ Filed(left) /\ left.protocol = row.protocol
      /\ left.listeners = row.listeners /\ left.pools = row.pools
      /\ left.members = With(row.members, k, row.members[k] \ {m})
  <2>1. row.pools \cup {k} = row.pools
    OBVIOUS
  <2>. DEFINE mems == row.members[k] \ {m}
  <2>. HIDE DEF mems
  <2>2. LET new == PutPool(row, k, mems)
        IN  /\ Filed(new) /\ new.protocol = row.protocol
            /\ new.listeners = row.listeners /\ new.pools = row.pools \cup {k}
            /\ new.members = With(row.members, k, mems)
    BY <1>1, PutPoolFiled DEF mems
  <2>. QED  BY <2>1, <2>2 DEF mems
<1>3. /\ Filed(Refresh(left)) /\ Refresh(left).protocol = row.protocol
      /\ Refresh(left).listeners = row.listeners
      /\ Refresh(left).pools = row.pools
      /\ Refresh(left).members = left.members
  <2>. HIDE DEF left
  <2>. QED  BY <1>2, RefreshFiled
<1>4. MemberLeft(row, k, m) = IF m \in row.members[k] THEN Refresh(left) ELSE row
  BY DEF MemberLeft
<1>5. m \notin row.members[k] => With(row.members, k, row.members[k] \ {m}) = row.members
  <2>1. m \notin row.members[k] => row.members[k] \ {m} = row.members[k]
    OBVIOUS
  <2>2. With(row.members, k, row.members[k]) = row.members
    BY <1>1, WithSame
  <2>. QED  BY <2>1, <2>2
<1>. QED
  <2>. HIDE DEF left
  <2>. QED  BY <1>2, <1>3, <1>4, <1>5

-----------------------------------------------------------------------------
(* Finding and writing rows                                                *)

LEMMA LiveFiled ==
    ASSUME RowsFiled, NEW r \in live
    PROVE  r \in Row /\ Filed(rows[r])
BY DEF RowsFiled

LEMMA SameRowsFiled ==
    ASSUME RowsFiled, UNCHANGED <<live, rows>>
    PROVE  RowsFiled'
BY DEF RowsFiled

LEMMA WrittenFiled ==
    ASSUME RowsFiled, NEW r \in Row, NEW row, Filed(row), live' \subseteq live \cup {r},
           rows' = [rows EXCEPT ![r] = row]
    PROVE  RowsFiled'
<1>1. row \in RowContents
  BY DEF Filed
<1>2. rows' \in [Row -> RowContents] /\ \A s \in Row : rows'[s] \in {row, rows[s]}
  BY <1>1 DEF RowsFiled
<1>3. live' \subseteq Row
  BY DEF RowsFiled
<1>4. ASSUME NEW s \in Row PROVE Filed(rows'[s])
  BY <1>2 DEF RowsFiled
<1>. QED  BY <1>2, <1>3, <1>4 DEF RowsFiled

LEMMA PutFiled ==
    ASSUME RowsFiled, NEW r \in Row, NEW row, Filed(row), Put(r, row)
    PROVE  RowsFiled'
BY WrittenFiled DEF Put

LEMMA PutOrCleanFiled ==
    ASSUME RowsFiled, NEW r \in live, NEW row, Filed(row), NEW left,
           PutOrClean(r, row, left)
    PROVE  RowsFiled'
<1>1. r \in Row /\ Filed(BlankRow)
  BY LiveFiled, BlankFiled
<1>2. CASE Put(r, row)
  BY <1>1, <1>2, PutFiled
<1>3. CASE Put(r, [row EXCEPT !.protocol = NoProtocol])
  <2>. DEFINE new == [row EXCEPT !.protocol = NoProtocol]
  <2>1. new \in RowContents /\ new.pools = row.pools /\ new.members = row.members
    BY DEF Filed, RowContents
  <2>2. Filed(new)
    <3>. HIDE DEF new
    <3>. QED  BY <2>1, FieldsFiled
  <2>. HIDE DEF new
  <2>3. Put(r, new)
    BY <1>3 DEF new
  <2>. QED  BY <1>1, <2>2, <2>3, PutFiled
<1>4. CASE live' = live \ {r} /\ rows' = [rows EXCEPT ![r] = BlankRow]
  BY <1>1, <1>4, WrittenFiled
<1>. QED  BY <1>2, <1>3, <1>4 DEF PutOrClean

\* What _get_or_create_ovn_lb returns: a row of the load balancer, with another
\* protocol perhaps, or a new one if none is of the protocol or without.
LEMMA ObtainFiled ==
    ASSUME BInv, NEW proto \in Protocol, NEW up \in BOOLEAN,
           NEW o \in Obtain(proto, up)
    PROVE  /\ o.id \in Row /\ Filed(o.row) /\ o.port \in BOOLEAN
           /\ \/ /\ o.id \in live
                 /\ o.row.listeners = rows[o.id].listeners
                 /\ o.row.pools = rows[o.id].pools
                 /\ o.row.members = rows[o.id].members
                 /\ o.row.status = rows[o.id].status
                 /\ o.row.vips = rows[o.id].vips
              \/ /\ o.row = NewRow(proto, up)
                 /\ \A s \in live : rows[s].protocol \notin {proto, NoProtocol}
<1>. DEFINE same == {r \in live : rows[r].protocol = proto}
            unset == {r \in live : rows[r].protocol = NoProtocol}
<1>. RowsFiled /\ oLb.vipPort \in BOOLEAN
  BY DEF BInv, RecordsOK, LbRecord
<1>1. CASE same # {}
  <2>1. PICK r \in same : o = [id |-> r, row |-> rows[r], port |-> oLb.vipPort]
    BY <1>1 DEF Obtain
  <2>. QED  BY <2>1, LiveFiled
<1>2. CASE same = {} /\ unset # {}
  <2>1. PICK r \in unset :
           o = [id |-> r, row |-> [rows[r] EXCEPT !.protocol = proto],
                port |-> oLb.vipPort]
    BY <1>2 DEF Obtain
  <2>. DEFINE row == [rows[r] EXCEPT !.protocol = proto]
  <2>2. Filed(rows[r]) /\ r \in Row
    BY LiveFiled
  <2>3. /\ row \in RowContents
        /\ row.listeners = rows[r].listeners
        /\ row.pools = rows[r].pools /\ row.members = rows[r].members
        /\ row.status = rows[r].status /\ row.vips = rows[r].vips
    BY <2>2 DEF Filed, RowContents
  <2>. HIDE DEF row
  <2>4. Filed(row)
    BY <2>2, <2>3, FieldsFiled
  <2>. QED  BY <2>1, <2>2, <2>3, <2>4 DEF row
<1>3. CASE same = {} /\ unset = {}
  <2>. DEFINE fresh == IF live = {} THEN {} ELSE Row \ live
              ports == IF "later" \in Failures THEN {oLb.vipPort, FALSE}
                                               ELSE {oLb.vipPort}
  <2>0. fresh \subseteq Row /\ ports \subseteq BOOLEAN
    OBVIOUS
  <2>1. o \in NewRows(proto, up)
    BY <1>3 DEF Obtain
  <2>2. PICK r \in fresh, port \in ports :
           o = [id |-> r, row |-> NewRow(proto, up), port |-> port]
    <3>1. NewRows(proto, up) = {[id |-> r, row |-> NewRow(proto, up), port |-> port] :
                                   r \in fresh, port \in ports}
      BY DEF NewRows
    <3>. HIDE DEF fresh, ports
    <3>. QED  BY <2>1, <3>1
  <2>3. Filed(NewRow(proto, up))
    BY BlankFiled
  <2>4. \A s \in live : rows[s].protocol \notin {proto, NoProtocol}
    BY <1>3
  <2>. HIDE DEF fresh, ports, same, unset
  <2>. QED  BY <2>0, <2>2, <2>3, <2>4
<1>. QED  BY <1>1, <1>2, <1>3

-----------------------------------------------------------------------------
(* The types of rows and records, one lemma for each handler               *)

LEMMA OrBlank ==
    /\ ListenerOrBlank \subseteq ListenerRecord /\ ChildOrBlank \subseteq ChildRecord
    /\ AbsentListener \in ListenerOrBlank /\ AbsentChild \in ChildOrBlank
    /\ \A x \in ListenerOrBlank : Exists(x) \/ x = AbsentListener
    /\ \A x \in ChildOrBlank : Exists(x) \/ x = AbsentChild
BY RecordTypes DEF ListenerOrBlank, ChildOrBlank

LEMMA NewListenerRecord ==
    ASSUME NEW prov \in {"ACTIVE", "ERROR"}, NEW up \in BOOLEAN,
           NEW dp \in Pool \cup {None}
    PROVE  [prov |-> prov, up |-> up, pool |-> dp] \in ListenerOrBlank
BY DEF ListenerOrBlank, ListenerRecord, Exists, Prov

LEMMA NewChildRecord ==
    ASSUME NEW prov \in {"ACTIVE", "ERROR", "DELETE_ERROR"}, NEW up \in BOOLEAN
    PROVE  [prov |-> prov, up |-> up] \in ChildOrBlank
BY DEF ChildOrBlank, ChildRecord, Exists, Prov

LEMMA ChildFailed ==
    ASSUME NEW x \in ChildOrBlank, Exists(x), NEW prov \in {"ERROR", "DELETE_ERROR"}
    PROVE  [x EXCEPT !.prov = prov] \in ChildOrBlank
BY OrBlank DEF ChildOrBlank, ChildRecord, Exists, Prov

LEMMA ListenerFailed ==
    ASSUME NEW x \in ListenerOrBlank, Exists(x)
    PROVE  [x EXCEPT !.prov = "ERROR"] \in ListenerOrBlank
BY OrBlank DEF ListenerOrBlank, ListenerRecord, Exists, Prov

\* Another default pool for a listener that exists.
LEMMA ListenerMoves ==
    ASSUME NEW x \in ListenerOrBlank, Exists(x), NEW dp \in Pool \cup {None}
    PROVE  [x EXCEPT !.pool = dp] \in ListenerOrBlank
BY OrBlank DEF ListenerOrBlank, ListenerRecord, Exists

\* A listener with a default pool exists.
LEMMA NamedExists ==
    ASSUME NEW x \in ListenerOrBlank, x.pool \in Pool
    PROVE  Exists(x)
BY OrBlank, ConstantsAssumption DEF AbsentListener

LEMMA InitFiled == Init => BInv
<1>. SUFFICES ASSUME Init PROVE BInv
  OBVIOUS
<1>1. RowsFiled
  BY BlankFiled DEF Init, RowsFiled, Filed
<1>. QED  BY <1>1, OrBlank, RecordTypes DEF Init, BInv, RecordsOK

LEMMA LbCreateFiled ==
    ASSUME BInv, NEW up \in CreateStates, LbCreate(up)
    PROVE  BInv'
<1>1. RowsFiled /\ RecordsOK /\ up \in BOOLEAN
  BY ConstantsAssumption DEF BInv
<1>2. RowsFiled'
  <2>1. \/ \E r \in Row : Put(r, NewRow(NoProtocol, up))
        \/ UNCHANGED <<live, rows>>
    BY DEF LbCreate
  <2>2. Filed(NewRow(NoProtocol, up))
    BY <1>1, BlankFiled
  <2>. QED  BY <1>1, <2>1, <2>2, PutFiled, SameRowsFiled
<1>3. RecordsOK'
  <2>1. \E prov \in {"ACTIVE", "ERROR"}, port \in BOOLEAN :
           oLb' = [prov |-> prov, up |-> up, vipPort |-> port]
    BY DEF LbCreate
  <2>2. oLb' \in LbRecord
    BY <1>1, <2>1 DEF LbRecord, Prov
  <2>3. UNCHANGED <<oListener, oPool, oMember, unanswered>>
    BY DEF LbCreate
  <2>. QED  BY <1>1, <2>2, <2>3 DEF RecordsOK
<1>. QED  BY <1>2, <1>3 DEF BInv

LEMMA LbUpdateFiled ==
    ASSUME BInv, NEW up \in BOOLEAN, LbUpdate(up)
    PROVE  BInv'
<1>1. RowsFiled /\ RecordsOK
  BY DEF BInv
<1>2. PICK done \in SUBSET live :
         /\ rows' = [r \in Row |-> IF r \in done
                                   THEN Refresh([rows[r] EXCEPT !.enabled = up])
                                   ELSE rows[r]]
         /\ \E prov \in {"ACTIVE", "ERROR"} :
               oLb' = [oLb EXCEPT !.up = up, !.prov = prov]
  BY DEF LbUpdate
<1>3. ASSUME NEW r \in Row
      PROVE  Filed(Refresh([rows[r] EXCEPT !.enabled = up]))
  <2>. DEFINE new == [rows[r] EXCEPT !.enabled = up]
  <2>1. Filed(rows[r])
    BY <1>1 DEF RowsFiled
  <2>2. new \in RowContents /\ new.pools = rows[r].pools
        /\ new.members = rows[r].members
    BY <2>1 DEF Filed, RowContents
  <2>. HIDE DEF new
  <2>3. Filed(new)
    BY <2>1, <2>2, FieldsFiled
  <2>4. Filed(Refresh(new))
    BY <2>3, RefreshFiled
  <2>. QED  BY <2>4 DEF new
<1>4. RowsFiled'
  <2>1. live' = live
    BY DEF LbUpdate
  <2>2. \A r \in Row : Filed(rows'[r])
    BY <1>1, <1>2, <1>3 DEF RowsFiled
  <2>3. rows' \in [Row -> RowContents]
    BY <1>1, <1>2, <1>3 DEF RowsFiled, Filed
  <2>. QED  BY <1>1, <2>1, <2>2, <2>3 DEF RowsFiled
<1>5. RecordsOK'
  <2>1. PICK prov \in {"ACTIVE", "ERROR"} :
           oLb' = [oLb EXCEPT !.up = up, !.prov = prov]
    BY <1>2
  <2>2. oLb' \in LbRecord
    BY <1>1, <2>1 DEF RecordsOK, LbRecord, Prov
  <2>3. UNCHANGED <<oListener, oPool, oMember, unanswered>>
    BY DEF LbUpdate
  <2>. QED  BY <1>1, <2>2, <2>3 DEF RecordsOK
<1>. QED  BY <1>4, <1>5 DEF BInv

LEMMA StoppedFiled ==
    ASSUME NEW row, Filed(row), NEW cascade \in BOOLEAN,
           NEW stop \in Stopped(row, cascade)
    PROVE  Filed(stop.row) /\ stop.noted \subseteq Listener \cup Pool
<1>1. Shed(row) \in RowContents /\ SameKeys(Shed(row), row)
  BY DEF Shed, RowContents, MemberStatus, SameKeys, Filed
<1>2. Filed(Shed(row))
  BY <1>1 DEF Shed, Filed
<1>3. ASSUME NEW k \in row.pools, NEW m \in row.members[k]
      PROVE  Filed([row EXCEPT !.members[k] = @ \ {m}, !.status[m] = "none"])
  <2>. DEFINE one == [row EXCEPT !.members[k] = @ \ {m}, !.status[m] = "none"]
  <2>1. row \in RowContents /\ k \in PoolKey /\ m \in Member
    BY DEF Filed, RowContents
  <2>2. one \in RowContents
    BY <2>1 DEF RowContents, MemberStatus
  <2>3. one.pools = row.pools /\ \A x \in PoolKey : one.members[x] \subseteq row.members[x]
    BY <2>1 DEF RowContents
  <2>. HIDE DEF one
  <2>4. Filed(one)
    BY <2>2, <2>3 DEF Filed
  <2>. QED  BY <2>4 DEF one
<1>4. ASSUME NEW one \in OneGone(row)
      PROVE  Filed(one)
  <2>1. PICK k \in row.pools : \E m \in row.members[k] :
           one = [row EXCEPT !.members[k] = @ \ {m}, !.status[m] = "none"]
    BY DEF OneGone
  <2>2. PICK m \in row.members[k] :
           one = [row EXCEPT !.members[k] = @ \ {m}, !.status[m] = "none"]
    BY <2>1
  <2>. QED  BY <1>3, <2>2
<1>5. stop.row \in OneGone(row) \cup {Shed(row), row}
  BY DEF Stopped
<1>6. stop.noted \subseteq PassedBefore(row) \/ stop.noted = Keyed(row)
  BY DEF Stopped
<1>7. PassedBefore(row) \subseteq Listener \cup Pool /\ Keyed(row) \subseteq Listener \cup Pool
  BY DEF PassedBefore, Keyed, Filed, RowContents, ListenerKey, PoolKey
<1>. QED  BY <1>2, <1>4, <1>5, <1>6, <1>7

LEMMA DeletionFailsFiled ==
    ASSUME RecordsOK, NEW noted \in SUBSET (Listener \cup Pool), DeletionFails(noted),
           unanswered' = unanswered
    PROVE  RecordsOK'
<1>1. oLb' \in LbRecord
  BY DEF RecordsOK, DeletionFails, LbRecord, Prov
<1>2. oListener' \in [Listener -> ListenerOrBlank]
  <2>1. ASSUME NEW l \in Listener, oListener[l].pool \in noted
        PROVE  [oListener[l] EXCEPT !.pool = None] \in ListenerOrBlank
    <3>1. oListener[l] \in ListenerOrBlank /\ oListener[l].pool \in Pool
      BY <2>1, OrBlank, ConstantsAssumption DEF RecordsOK, ListenerRecord
    <3>. QED  BY <3>1, NamedExists, ListenerMoves
  <2>. QED  BY <2>1, OrBlank DEF RecordsOK, DeletionFails
<1>3. oPool' \in [Pool -> ChildOrBlank] /\ oMember' \in [Member -> ChildOrBlank]
  BY OrBlank DEF RecordsOK, DeletionFails
<1>. QED  BY <1>1, <1>2, <1>3 DEF RecordsOK

LEMMA LbDeleteFiled ==
    ASSUME BInv, NEW cascade \in BOOLEAN, LbDelete(cascade)
    PROVE  BInv'
<1>1. RowsFiled /\ RecordsOK /\ unanswered' = unanswered
  BY DEF BInv, LbDelete
<1>2. ASSUME AllRowsGo
      PROVE  RowsFiled'
  BY <1>2, BlankFiled DEF AllRowsGo, RowsFiled, Filed
<1>3. ASSUME NEW r \in live, NEW stop \in Stopped(rows[r], cascade)
      PROVE  Filed(stop.row) /\ stop.noted \subseteq Listener \cup Pool
  BY <1>1, LiveFiled, StoppedFiled
<1>4. ASSUME NEW done \in SUBSET live, NEW r \in live, r \notin done,
             NEW stop \in Stopped(rows[r], cascade),
             RowsGoUntil(done, r, stop.row)
      PROVE  RowsFiled'
  <2>1. Filed(Refresh(stop.row)) /\ Filed(BlankRow)
    BY <1>3, RefreshFiled, BlankFiled
  <2>2. \A d \in Row : Filed(rows'[d])
    BY <1>1, <1>4, <2>1 DEF RowsFiled, RowsGoUntil
  <2>3. rows' \in [Row -> RowContents]
    BY <1>1, <1>4, <2>1 DEF RowsFiled, RowsGoUntil, Filed
  <2>. QED  BY <1>1, <1>4, <2>2, <2>3 DEF RowsFiled, RowsGoUntil
<1>5. RowsFiled'
  BY <1>2, <1>4 DEF LbDelete
<1>6. \A r \in live : Keyed(rows[r]) \subseteq Listener \cup Pool
  BY <1>1, LiveFiled DEF Keyed, Filed, RowContents, ListenerKey, PoolKey
<1>7. \/ \E noted \in SUBSET (Listener \cup Pool) : DeletionFails(noted)
      \/ /\ oLb' = AbsentLb
         /\ oListener' = [l \in Listener |-> AbsentListener]
         /\ oPool' = [p \in Pool |-> AbsentChild]
         /\ oMember' = [m \in Member |-> AbsentChild]
  BY <1>3, <1>6 DEF LbDelete
<1>8. RecordsOK'
  <2>1. CASE \E noted \in SUBSET (Listener \cup Pool) : DeletionFails(noted)
    BY <1>1, <2>1, DeletionFailsFiled
  <2>2. CASE /\ oLb' = AbsentLb
             /\ oListener' = [l \in Listener |-> AbsentListener]
             /\ oPool' = [p \in Pool |-> AbsentChild]
             /\ oMember' = [m \in Member |-> AbsentChild]
    BY <1>1, <2>2, OrBlank, RecordTypes DEF RecordsOK
  <2>. QED  BY <1>7, <2>1, <2>2
<1>. QED  BY <1>5, <1>8 DEF BInv

LEMMA ChildHandlerFiled ==
    ASSUME RecordsOK, oLb.prov = "ACTIVE", RowsFiled',
           oListener' \in [Listener -> ListenerOrBlank],
           oPool' \in [Pool -> ChildOrBlank], oMember' \in [Member -> ChildOrBlank],
           unanswered' \in BOOLEAN,
           \/ oLb' = oLb
           \/ oLb' = [oLb EXCEPT !.prov = "ERROR"]
           \/ \E port \in BOOLEAN : oLb' = [oLb EXCEPT !.vipPort = port]
    PROVE  BInv'
<1>1. oLb' \in LbRecord
  BY LbStays DEF RecordsOK
<1>. QED  BY <1>1 DEF BInv, RecordsOK

LEMMA ObtainFailsFiled ==
    ASSUME BInv, NEW proto, ObtainFails(proto)
    PROVE  RowsFiled' /\ unanswered' \in BOOLEAN
           /\ ( oLb' = oLb \/ \E port \in BOOLEAN : oLb' = [oLb EXCEPT !.vipPort = port] )
<1>1. RowsFiled'
  BY SameRowsFiled DEF BInv, ObtainFails
<1>. QED  BY <1>1 DEF ObtainFails

LEMMA ListenerCreateFiled ==
    ASSUME BInv, NEW l \in Listener, NEW up \in CreateStates,
           NEW dp \in Pool \cup {None}, ListenerCreate(l, up, dp)
    PROVE  BInv'
<1>. DEFINE key == <<l, up>>
            ref == IF dp = None THEN {} ELSE {<<dp, TRUE>>}
<1>1. /\ RowsFiled /\ RecordsOK /\ oLb.prov = "ACTIVE" /\ unanswered' \in BOOLEAN
      /\ oPool' = oPool /\ oMember' = oMember
      /\ \E prov \in {"ACTIVE", "ERROR"} : oListener' = [oListener EXCEPT ![l] =
                               [prov |-> prov, up |-> up, pool |-> dp]]
  BY DEF BInv, RecordsOK, ListenerCreate, Mutable, ObtainFails
<1>2. up \in BOOLEAN /\ key \in ListenerKey /\ ref \in SUBSET PoolRef
      /\ ProtocolOf[l] \in Protocol
  <2>1. up \in BOOLEAN /\ ProtocolOf[l] \in Protocol
    BY ConstantsAssumption
  <2>2. <<dp, TRUE>> \in PoolRef
    BY DEF PoolRef
  <2>. QED  BY <2>1, <2>2 DEF ListenerKey
<1>3. oListener' \in [Listener -> ListenerOrBlank]
  BY <1>1, <1>2, NewListenerRecord DEF RecordsOK
<1>4. ASSUME NEW o \in Obtain(ProtocolOf[l], up),
             \/ Put(o.id, Refresh(PutListener(o.row, key, ref)))
             \/ Put(o.id, o.row),
             oLb' = [oLb EXCEPT !.vipPort = o.port]
      PROVE  BInv'
  <2>1. o.id \in Row /\ Filed(o.row) /\ o.port \in BOOLEAN
    BY <1>2, ObtainFiled
  <2>. DEFINE new == Refresh(PutListener(o.row, key, ref))
  <2>2. Filed(new)
    <3>. HIDE DEF key, ref
    <3>. QED  BY <1>2, <2>1, PutListenerFiled, RefreshFiled
  <2>3. RowsFiled'
    <3>1. Put(o.id, new) \/ Put(o.id, o.row)
      BY <1>4
    <3>. HIDE DEF new
    <3>. QED  BY <1>1, <2>1, <2>2, <3>1, PutFiled
  <2>. QED  BY <1>1, <1>3, <1>4, <2>1, <2>3, ChildHandlerFiled DEF RecordsOK
<1>5. ASSUME ObtainFails(ProtocolOf[l])
      PROVE  BInv'
  BY <1>1, <1>3, <1>5, ObtainFailsFiled, ChildHandlerFiled DEF RecordsOK
<1>. QED  BY <1>4, <1>5 DEF ListenerCreate

LEMMA ListenerDeleteFiled ==
    ASSUME BInv, NEW l \in Listener, ListenerDelete(l)
    PROVE  BInv'
<1>. DEFINE key == <<l, TRUE>>
<1>1. /\ RowsFiled /\ RecordsOK /\ oLb.prov = "ACTIVE" /\ Exists(oListener[l])
      /\ UNCHANGED <<oLb, oPool, oMember, unanswered>>
  BY DEF BInv, ListenerDelete, Mutable
<1>2. oListener' \in [Listener -> ListenerOrBlank]
  <2>1. \/ oListener' = [oListener EXCEPT ![l] = AbsentListener]
        \/ oListener' = [oListener EXCEPT ![l].prov = "ERROR"]
    BY DEF ListenerDelete
  <2>. QED  BY <1>1, <2>1, ListenerFailed, OrBlank DEF RecordsOK
<1>3. RowsFiled'
  <2>1. ASSUME NEW r \in FindRow(ProtocolOf[l]),
               PutOrClean(r, Refresh(DropListener(rows[r], key)),
                          DropListener(rows[r], key))
        PROVE  RowsFiled'
    <3>. DEFINE left == DropListener(rows[r], key)
                new == Refresh(left)
    <3>1. r \in live /\ Filed(rows[r]) /\ key \in ListenerKey
      BY <1>1, FindRowLive, LiveFiled DEF ListenerKey
    <3>2. Filed(left)
      <4>. HIDE DEF key
      <4>. QED  BY <3>1, DropListenerFiled
    <3>3. Filed(new)
      <4>. HIDE DEF left
      <4>. QED  BY <3>2, RefreshFiled
    <3>4. PutOrClean(r, new, left)
      BY <2>1
    <3>. HIDE DEF new, left
    <3>. QED  BY <1>1, <3>1, <3>3, <3>4, PutOrCleanFiled
  <2>. QED  BY <1>1, <2>1, SameRowsFiled DEF ListenerDelete
<1>. QED  BY <1>1, <1>2, <1>3, ChildHandlerFiled DEF RecordsOK

LEMMA ListenerUpdateFiled ==
    ASSUME BInv, NEW l \in Listener, NEW up \in Opt(BOOLEAN),
           NEW dp \in Opt(Pool \cup {None}), ListenerUpdate(l, up, dp)
    PROVE  BInv'
<1>1. /\ RowsFiled /\ RecordsOK /\ oLb.prov = "ACTIVE"
      /\ UNCHANGED <<oPool, oMember, unanswered>>
      /\ (oLb' = oLb \/ oLb' = [oLb EXCEPT !.prov = "ERROR"])
  BY DEF BInv, ListenerUpdate, Mutable
<1>2. oListener' \in [Listener -> ListenerOrBlank]
  <2>1. PICK prov \in {"ACTIVE", "ERROR"} : oListener' = [oListener EXCEPT ![l] =
           [prov |-> prov, up |-> Given(up, @.up), pool |-> Given(dp, @.pool)]]
    BY DEF ListenerUpdate
  <2>2. oListener[l].up \in BOOLEAN /\ oListener[l].pool \in Pool \cup {None}
    BY <1>1, OrBlank DEF RecordsOK, ListenerRecord
  <2>3. /\ Given(up, oListener[l].up) \in BOOLEAN
        /\ Given(dp, oListener[l].pool) \in Pool \cup {None}
    BY <2>2 DEF Opt, Given
  <2>4. [prov |-> prov, up |-> Given(up, oListener[l].up),
         pool |-> Given(dp, oListener[l].pool)] \in ListenerOrBlank
    BY <2>3, NewListenerRecord
  <2>. QED  BY <1>1, <2>1, <2>4 DEF RecordsOK
<1>3. RowsFiled'
  <2>1. ASSUME NEW r \in FindRow(ProtocolOf[l]), NEW k \in rows[r].listeners,
               Put(r, ListenerMoved(rows[r], k, up, dp))
        PROVE  RowsFiled'
    <3>. DEFINE new == ListenerMoved(rows[r], k, up, dp)
    <3>1. r \in live /\ Filed(rows[r]) /\ r \in Row
      BY <1>1, FindRowLive, LiveFiled
    <3>2. Filed(new)
      BY <3>1, ListenerMovedFiled
    <3>3. Put(r, new)
      BY <2>1
    <3>. HIDE DEF new
    <3>. QED  BY <1>1, <3>1, <3>2, <3>3, PutFiled
  <2>2. \/ UNCHANGED <<live, rows>>
        \/ \E r \in FindRow(ProtocolOf[l]) : \E k \in rows[r].listeners :
              Put(r, ListenerMoved(rows[r], k, up, dp))
    BY DEF ListenerUpdate
  <2>. QED  BY <1>1, <2>1, <2>2, SameRowsFiled
<1>. QED  BY <1>1, <1>2, <1>3, ChildHandlerFiled DEF RecordsOK

\* A key added to the value of a listener.
LEMMA RefsFiled ==
    ASSUME NEW row, Filed(row), NEW k \in ListenerKey, NEW refs \in SUBSET PoolRef
    PROVE  LET new == [row EXCEPT !.refs[k] = refs]
           IN  /\ Filed(new)
               /\ new.protocol = row.protocol /\ new.enabled = row.enabled
               /\ new.listeners = row.listeners
               /\ new.refs = With(row.refs, k, refs)
               /\ new.pools = row.pools /\ new.members = row.members
               /\ new.status = row.status /\ new.vips = row.vips
<1>. DEFINE new == [row EXCEPT !.refs[k] = refs]
<1>1. /\ new \in RowContents
      /\ new.protocol = row.protocol /\ new.enabled = row.enabled
      /\ new.listeners = row.listeners
      /\ new.refs = With(row.refs, k, refs)
      /\ new.pools = row.pools /\ new.members = row.members
      /\ new.status = row.status /\ new.vips = row.vips
  BY DEF Filed, RowContents, With
<1>2. Filed(new)
  <2>. HIDE DEF new
  <2>. QED  BY <1>1, FieldsFiled
<1>. QED  BY <1>1, <1>2

LEMMA PoolCreateFiled ==
    ASSUME BInv, NEW p \in Pool, NEW up \in CreateStates,
           NEW l \in Listener \cup {None}, PoolCreate(p, up, l)
    PROVE  BInv'
<1>. DEFINE key == <<p, up>>
            lkey == <<l, TRUE>>
            attached(row) == IF l # None /\ lkey \in row.listeners
                             THEN [row EXCEPT !.refs[lkey] = @ \cup {key}] ELSE row
<1>1. /\ RowsFiled /\ RecordsOK /\ oLb.prov = "ACTIVE" /\ unanswered' \in BOOLEAN
      /\ oMember' = oMember
  BY DEF BInv, RecordsOK, PoolCreate, Mutable, ObtainFails
<1>2. up \in BOOLEAN /\ ProtocolOf[p] \in Protocol /\ key \in PoolKey
      /\ key \in PoolRef
  <2>1. up \in BOOLEAN /\ ProtocolOf[p] \in Protocol
    BY ConstantsAssumption
  <2>. QED  BY <2>1 DEF PoolKey, PoolRef
<1>3. oPool' \in [Pool -> ChildOrBlank]
  <2>1. PICK prov \in {"ACTIVE", "ERROR"} :
           oPool' = [oPool EXCEPT ![p] = [prov |-> prov, up |-> up]]
    BY DEF PoolCreate
  <2>. QED  BY <1>1, <1>2, <2>1, NewChildRecord DEF RecordsOK
<1>4. oListener' \in [Listener -> ListenerOrBlank]
  <2>1. oListener' = [k \in Listener |->
           IF k = l THEN [oListener[k] EXCEPT !.pool = p] ELSE oListener[k]]
    BY DEF PoolCreate
  <2>2. l \in Listener => Exists(oListener[l])
    BY ConstantsAssumption DEF PoolCreate
  <2>3. l \in Listener => [oListener[l] EXCEPT !.pool = p] \in ListenerOrBlank
    BY <1>1, <2>2, ListenerMoves DEF RecordsOK
  <2>. QED  BY <1>1, <2>1, <2>3 DEF RecordsOK
<1>5. ASSUME NEW o \in Obtain(ProtocolOf[p], up),
             \/ Put(o.id, PutPool(attached(o.row), key, {}))
             \/ Put(o.id, o.row),
             oLb' = [oLb EXCEPT !.vipPort = o.port]
      PROVE  BInv'
  <2>1. o.id \in Row /\ Filed(o.row) /\ o.port \in BOOLEAN
    BY <1>2, ObtainFiled
  <2>2. Filed(attached(o.row))
    <3>1. ASSUME lkey \in o.row.listeners
          PROVE  Filed([o.row EXCEPT !.refs[lkey] = @ \cup {key}])
      <4>1. lkey \in ListenerKey /\ o.row.refs[lkey] \cup {key} \in SUBSET PoolRef
        BY <1>2, <2>1, <3>1 DEF Filed, RowContents
      <4>. HIDE DEF lkey, key
      <4>2. Filed([o.row EXCEPT !.refs[lkey] = o.row.refs[lkey] \cup {key}])
        BY <2>1, <4>1, RefsFiled
      <4>. QED  BY <4>2
    <3>. HIDE DEF lkey, key
    <3>. QED  BY <2>1, <3>1
  <2>. DEFINE put == PutPool(attached(o.row), key, {})
  <2>3. Filed(put)
    <3>. HIDE DEF key, attached
    <3>. QED  BY <1>2, <2>2, PutPoolFiled
  <2>4. RowsFiled'
    <3>1. Put(o.id, put) \/ Put(o.id, o.row)
      BY <1>5
    <3>. HIDE DEF put
    <3>. QED  BY <1>1, <2>1, <2>3, <3>1, PutFiled
  <2>. QED  BY <1>1, <1>3, <1>4, <1>5, <2>1, <2>4, ChildHandlerFiled DEF RecordsOK
<1>6. ASSUME ObtainFails(ProtocolOf[p])
      PROVE  BInv'
  BY <1>1, <1>3, <1>4, <1>6, ObtainFailsFiled, ChildHandlerFiled DEF RecordsOK
<1>. QED  BY <1>5, <1>6 DEF PoolCreate

LEMMA PoolDeleteFiled ==
    ASSUME BInv, NEW p \in Pool, PoolDelete(p)
    PROVE  BInv'
<1>. DEFINE plain(row) == IF <<p, TRUE>> \in row.pools
                          THEN Refresh(DropPool(row, <<p, TRUE>>)) ELSE row
            believed(row) == DetachPool(plain(row), p)
            final(row) == DropPool(believed(row), <<p, FALSE>>)
<1>1. RowsFiled /\ RecordsOK /\ oLb.prov = "ACTIVE" /\ UNCHANGED <<oLb, unanswered>>
      /\ Exists(oPool[p])
  BY DEF BInv, PoolDelete, Mutable
<1>2. /\ oListener' \in [Listener -> ListenerOrBlank]
      /\ oPool' \in [Pool -> ChildOrBlank]
      /\ oMember' \in [Member -> ChildOrBlank]
  <2>1. CASE /\ oPool' = [oPool EXCEPT ![p] = AbsentChild]
             /\ oListener' = [l \in Listener |->
                   IF oListener[l].pool = p
                   THEN [oListener[l] EXCEPT !.pool = None] ELSE oListener[l]]
             /\ oMember' = [m \in Member |->
                   IF PoolOf[m] = p THEN AbsentChild ELSE oMember[m]]
    <3>1. \A l \in Listener : oListener[l].pool = p =>
              [oListener[l] EXCEPT !.pool = None] \in ListenerOrBlank
      BY <1>1, NamedExists, ListenerMoves DEF RecordsOK
    <3>. QED  BY <1>1, <2>1, <3>1, OrBlank DEF RecordsOK
  <2>2. CASE /\ oPool' = [oPool EXCEPT ![p].prov = "ERROR"]
             /\ UNCHANGED <<oListener, oMember>>
    BY <1>1, <2>2, ChildFailed DEF RecordsOK
  <2>. QED  BY <2>1, <2>2 DEF PoolDelete
<1>3. RowsFiled'
  <2>1. ASSUME NEW r \in FindRow(ProtocolOf[p]),
               PutOrClean(r, final(rows[r]), believed(rows[r]))
        PROVE  RowsFiled'
    <3>1. r \in live /\ Filed(rows[r])
      BY <1>1, FindRowLive, LiveFiled
    <3>. <<p, TRUE>> \in PoolKey /\ <<p, FALSE>> \in PoolKey
      BY DEF PoolKey
    <3>2. Filed(plain(rows[r]))
      <4>. DEFINE row == DropPool(rows[r], <<p, TRUE>>)
      <4>1. Filed(row)
        BY <3>1, DropPoolFiled
      <4>. HIDE DEF row
      <4>2. Filed(Refresh(row))
        BY <4>1, RefreshFiled
      <4>. QED  BY <3>1, <4>2 DEF row
    <3>3. Filed(believed(rows[r]))
      <4>. HIDE DEF plain
      <4>. QED  BY <3>2, DetachPoolFiled
    <3>4. Filed(final(rows[r]))
      <4>. HIDE DEF believed
      <4>. QED  BY <3>3, DropPoolFiled
    <3>. HIDE DEF plain, believed, final
    <3>. QED  BY <1>1, <2>1, <3>1, <3>4, PutOrCleanFiled
  <2>. QED  BY <1>1, <2>1, SameRowsFiled DEF PoolDelete
<1>. QED  BY <1>1, <1>2, <1>3, ChildHandlerFiled DEF RecordsOK

LEMMA PoolUpdateFiled ==
    ASSUME BInv, NEW p \in Pool, NEW up \in Opt(BOOLEAN), PoolUpdate(p, up)
    PROVE  BInv'
<1>1. /\ RowsFiled /\ RecordsOK /\ oLb.prov = "ACTIVE"
      /\ UNCHANGED <<oListener, oMember, unanswered>>
      /\ (oLb' = oLb \/ oLb' = [oLb EXCEPT !.prov = "ERROR"])
  BY DEF BInv, PoolUpdate, Mutable
<1>2. oPool' \in [Pool -> ChildOrBlank]
  <2>1. PICK prov \in {"ACTIVE", "ERROR"} : oPool' = [oPool EXCEPT ![p] =
           [prov |-> prov, up |-> Given(up, @.up)]]
    BY DEF PoolUpdate
  <2>2. Given(up, oPool[p].up) \in BOOLEAN
    BY <1>1, OrBlank DEF Opt, Given, RecordsOK, ChildRecord
  <2>. QED  BY <1>1, <2>1, <2>2, NewChildRecord DEF RecordsOK
<1>3. RowsFiled'
  <2>1. ASSUME NEW r \in FindRow(ProtocolOf[p]), NEW b \in BOOLEAN,
               Put(r, PoolSwitched(rows[r], <<p, ~b>>, <<p, b>>))
        PROVE  RowsFiled'
    <3>. DEFINE new == PoolSwitched(rows[r], <<p, ~b>>, <<p, b>>)
    <3>1. r \in live /\ Filed(rows[r]) /\ r \in Row
      BY <1>1, FindRowLive, LiveFiled
    <3>2. Filed(new)
      BY <3>1, PoolSwitchedFiled
    <3>3. Put(r, new)
      BY <2>1
    <3>. HIDE DEF new
    <3>. QED  BY <1>1, <3>1, <3>2, <3>3, PutFiled
  <2>2. Given(up, TRUE) \in BOOLEAN
    BY DEF Opt, Given
  <2>3. \/ UNCHANGED <<live, rows>>
        \/ \E r \in FindRow(ProtocolOf[p]) :
              Put(r, PoolSwitched(rows[r], <<p, ~Given(up, TRUE)>>,
                                           <<p, Given(up, TRUE)>>))
    BY DEF PoolUpdate
  <2>. QED  BY <1>1, <2>1, <2>2, <2>3, SameRowsFiled
<1>. QED  BY <1>1, <1>2, <1>3, ChildHandlerFiled DEF RecordsOK

LEMMA PutRowFiled ==
    ASSUME RowsFiled, NEW r \in live, NEW row, Filed(row), Put(r, row)
    PROVE  RowsFiled'
BY LiveFiled, PutFiled

LEMMA MemberRowMissingFiled ==
    ASSUME RowsFiled, NEW m, NEW record, MemberRowMissing(m, record)
    PROVE  /\ RowsFiled' /\ unanswered' \in BOOLEAN
           /\ oMember' = [oMember EXCEPT ![m] = record]
<1>1. /\ UNCHANGED <<live, rows>> /\ unanswered' = TRUE
      /\ oMember' = [oMember EXCEPT ![m] = record]
  BY DEF MemberRowMissing
<1>. QED  BY <1>1, SameRowsFiled

\* The row and the key that a member handler finds.
LEMMA PoolRowsFiled ==
    ASSUME RowsFiled, NEW p \in Pool, NEW rk \in PoolRows(p)
    PROVE  /\ rk[1] \in live /\ rk[1] \in Row /\ Filed(rows[rk[1]])
           /\ rk[2] \in rows[rk[1]].pools /\ rk[2][1] = p
           /\ rk[2] \in PoolKey
<1>1. rk[1] \in live /\ rk[2] \in rows[rk[1]].pools
  BY PoolRowsLive
<1>3. rk[2][1] = p
  BY PoolRowsHold
<1>2. rk[1] \in Row /\ Filed(rows[rk[1]])
  BY <1>1, LiveFiled
<1>. QED  BY <1>1, <1>2, <1>3 DEF Filed, RowContents

LEMMA MemberCreateFiled ==
    ASSUME BInv, NEW m \in Member, NEW up \in CreateStates, MemberCreate(m, up)
    PROVE  BInv'
<1>. DEFINE record == [prov |-> "ACTIVE", up |-> up]
            marked(row, status) == SetStatus(row, m, IF up THEN status ELSE "OFFLINE")
<1>1. /\ RowsFiled /\ RecordsOK /\ oLb.prov = "ACTIVE" /\ up \in BOOLEAN
      /\ UNCHANGED <<oLb, oListener, oPool>> /\ PoolOf[m] \in Pool
  BY ConstantsAssumption DEF BInv, MemberCreate, Mutable
<1>2. record \in ChildOrBlank
  BY <1>1, NewChildRecord
<1>. HIDE DEF record
<1>3. ASSUME NEW rk \in PoolRows(PoolOf[m]), NEW status \in {"NO_MONITOR", "ERROR"},
             NEW base, base \in {rows[rk[1]], MemberJoined(rows[rk[1]], rk[2], m, up)},
             Put(rk[1], marked(base, status))
      PROVE  RowsFiled'
  <2>1. rk[1] \in live /\ rk[2] \in rows[rk[1]].pools /\ rk[2][1] = PoolOf[m]
        /\ Filed(rows[rk[1]])
    BY <1>1, PoolRowsFiled
  <2>2. Filed(base)
    <3>1. Filed(MemberJoined(rows[rk[1]], rk[2], m, up))
      BY <1>1, <2>1, MemberJoinedFiled
    <3>. QED  BY <1>3, <2>1, <3>1
  <2>3. Filed(marked(base, status))
    <3>1. (IF up THEN status ELSE "OFFLINE") \in MemberStatus
      BY DEF MemberStatus
    <3>. QED  BY <2>2, <3>1, StatusFiled
  <2>. HIDE DEF marked
  <2>. QED  BY <1>1, <1>3, <2>1, <2>3, PutRowFiled
<1>4. \/ MemberRowMissing(m, record)
      \/ /\ RowsFiled' /\ unanswered' \in BOOLEAN
         /\ oMember' = [oMember EXCEPT ![m] = record]
  <2>1. SUFFICES ASSUME NEW rk \in PoolRows(PoolOf[m]),
                        NEW status \in {"NO_MONITOR", "ERROR"},
                        NEW base \in {rows[rk[1]],
                                      MemberJoined(rows[rk[1]], rk[2], m, up)},
                        Put(rk[1], marked(base, status)),
                        Report(marked(base, status), m, record)
                 PROVE  /\ RowsFiled' /\ unanswered' \in BOOLEAN
                        /\ oMember' = [oMember EXCEPT ![m] = record]
    BY DEF MemberCreate, record
  <2>2. RowsFiled'
    BY <1>3, <2>1
  <2>. HIDE DEF marked
  <2>. QED  BY <2>1, <2>2, ReportGives
<1>5. RowsFiled' /\ unanswered' \in BOOLEAN /\ oMember' = [oMember EXCEPT ![m] = record]
  BY <1>1, <1>4, MemberRowMissingFiled
<1>6. oMember' \in [Member -> ChildOrBlank]
  BY <1>1, <1>2, <1>5 DEF RecordsOK
<1>. QED  BY <1>1, <1>5, <1>6, ChildHandlerFiled DEF RecordsOK

LEMMA MemberDeleteFiled ==
    ASSUME BInv, NEW m \in Member, MemberDelete(m)
    PROVE  BInv'
<1>. DEFINE failed == [oMember[m] EXCEPT !.prov = "DELETE_ERROR"]
            Result == /\ RowsFiled' /\ unanswered' \in BOOLEAN
                      /\ \E record \in {failed, AbsentChild, oMember[m]} :
                            oMember' = [oMember EXCEPT ![m] = record]
<1>1. /\ RowsFiled /\ RecordsOK /\ oLb.prov = "ACTIVE" /\ Exists(oMember[m])
      /\ UNCHANGED <<oLb, oListener, oPool>> /\ PoolOf[m] \in Pool
  BY ConstantsAssumption DEF BInv, MemberDelete, Mutable
<1>2. ASSUME NEW rk \in PoolRows(PoolOf[m]), NEW sent,
             NEW record \in {failed, AbsentChild, oMember[m]},
             NEW base \in {rows[rk[1]], MemberLeft(rows[rk[1]], rk[2], m)},
             Put(rk[1], Forget(base, m)), Report(sent, m, record)
      PROVE  Result
  <2>1. rk[1] \in live /\ rk[2] \in rows[rk[1]].pools /\ Filed(rows[rk[1]])
    BY <1>1, PoolRowsFiled
  <2>2. Filed(base)
    BY <2>1, MemberLeftFiled
  <2>3. Filed(Forget(base, m))
    BY <2>2, ForgetFiled
  <2>4. RowsFiled'
    BY <1>1, <1>2, <2>1, <2>3, PutRowFiled
  <2>5. unanswered' \in BOOLEAN /\ oMember' = [oMember EXCEPT ![m] = record]
    <3>. HIDE DEF failed
    <3>. QED  BY <1>2, ReportGives
  <2>. QED  BY <1>2, <2>4, <2>5
<1>3. ASSUME MemberRowMissing(m, oMember[m])
      PROVE  Result
  BY <1>1, <1>3, MemberRowMissingFiled
<1>4. Result
  <2>. HIDE DEF Result
  <2>1. CASE MemberRowMissing(m, oMember[m])
    BY <1>3, <2>1
  <2>2. ASSUME NEW rk \in PoolRows(PoolOf[m]),
               LET row == rows[rk[1]]
                   left == MemberLeft(row, rk[2], m)
               IN  \/ Put(rk[1], Forget(left, m)) /\ Report(left, m, AbsentChild)
                   \/ Put(rk[1], Forget(row, m)) /\ Report(row, m, failed)
                   \/ Put(rk[1], Forget(left, m)) /\ Report(row, m, failed)
        PROVE  Result
    <3>. HIDE DEF failed
    <3>. QED  BY <1>2, <2>2
  <2>. QED  BY <2>1, <2>2 DEF MemberDelete
<1>5. oMember' \in [Member -> ChildOrBlank]
  <2>1. failed \in ChildOrBlank
    BY <1>1, ChildFailed DEF RecordsOK
  <2>2. PICK record \in {failed, AbsentChild, oMember[m]} :
           oMember' = [oMember EXCEPT ![m] = record]
    BY <1>4
  <2>. HIDE DEF failed
  <2>3. record \in ChildOrBlank
    BY <1>1, <2>1, OrBlank DEF RecordsOK
  <2>. QED  BY <1>1, <2>2, <2>3 DEF RecordsOK
<1>. QED  BY <1>1, <1>4, <1>5, ChildHandlerFiled DEF RecordsOK

LEMMA MemberUpdateFiled ==
    ASSUME BInv, NEW m \in Member, NEW up \in Opt(BOOLEAN), MemberUpdate(m, up)
    PROVE  BInv'
<1>. DEFINE status(row) == SetStatus(row, m, IF Given(up, TRUE) THEN "NO_MONITOR"
                                                                ELSE "OFFLINE")
            asked(prov) == [prov |-> prov, up |-> Given(up, oMember[m].up)]
            Result == /\ RowsFiled' /\ unanswered' \in BOOLEAN
                      /\ \E prov \in {"ACTIVE", "ERROR"} :
                            oMember' = [oMember EXCEPT ![m] = asked(prov)]
<1>1. /\ RowsFiled /\ RecordsOK /\ oLb.prov = "ACTIVE"
      /\ UNCHANGED <<oLb, oListener, oPool>> /\ PoolOf[m] \in Pool
  BY ConstantsAssumption DEF BInv, MemberUpdate, Mutable
<1>2. ASSUME NEW rk \in PoolRows(PoolOf[m]), NEW sent, NEW prov \in {"ACTIVE", "ERROR"},
             NEW new \in {rows[rk[1]], status(rows[rk[1]]),
                          Refresh(status(rows[rk[1]]))},
             Put(rk[1], new), Report(sent, m, asked(prov))
      PROVE  Result
  <2>1. rk[1] \in live /\ Filed(rows[rk[1]])
    BY <1>1, PoolRowsFiled
  <2>2. Filed(status(rows[rk[1]]))
    <3>1. (IF Given(up, TRUE) THEN "NO_MONITOR" ELSE "OFFLINE") \in MemberStatus
      BY DEF MemberStatus
    <3>. QED  BY <2>1, <3>1, StatusFiled
  <2>. HIDE DEF status
  <2>3. Filed(Refresh(status(rows[rk[1]])))
    BY <2>2, RefreshFiled
  <2>4. RowsFiled'
    BY <1>1, <1>2, <2>1, <2>2, <2>3, PutRowFiled
  <2>5. unanswered' \in BOOLEAN /\ oMember' = [oMember EXCEPT ![m] = asked(prov)]
    <3>. HIDE DEF asked
    <3>. QED  BY <1>2, ReportGives
  <2>. QED  BY <1>2, <2>4, <2>5
<1>3. ASSUME MemberRowMissing(m, asked("ACTIVE"))
      PROVE  Result
  BY <1>1, <1>3, MemberRowMissingFiled
<1>4. Result
  <2>. HIDE DEF Result
  <2>1. CASE MemberRowMissing(m, asked("ACTIVE"))
    BY <1>3, <2>1
  <2>2. ASSUME NEW rk \in PoolRows(PoolOf[m]),
               LET row == rows[rk[1]]
                   Sends(new, prov) == Put(rk[1], new) /\ Report(row, m, asked(prov))
               IN  \/ Sends(row, "ACTIVE")
                   \/ Sends(Refresh(status(row)), "ACTIVE")
                   \/ Sends(status(row), "ACTIVE")
                   \/ Sends(status(row), "ERROR")
        PROVE  Result
    <3>. HIDE DEF status, asked
    <3>. QED  BY <1>2, <2>2
  <2>. QED  BY <2>1, <2>2 DEF MemberUpdate
<1>5. oMember' \in [Member -> ChildOrBlank]
  <2>1. PICK prov \in {"ACTIVE", "ERROR"} :
           oMember' = [oMember EXCEPT ![m] = asked(prov)]
    BY <1>4
  <2>2. oMember[m].up \in BOOLEAN
    BY <1>1, OrBlank DEF RecordsOK, ChildRecord
  <2>3. asked(prov) \in ChildOrBlank
    <3>1. Given(up, oMember[m].up) \in BOOLEAN
      BY <2>2 DEF Opt, Given
    <3>. QED  BY <3>1, NewChildRecord
  <2>. HIDE DEF asked
  <2>. QED  BY <1>1, <2>1, <2>3 DEF RecordsOK
<1>. QED  BY <1>1, <1>4, <1>5, ChildHandlerFiled DEF RecordsOK

LEMMA NextFiled ==
    ASSUME BInv, Next
    PROVE  BInv'
<1>. CreateStates \subseteq BOOLEAN
  BY ConstantsAssumption
<1>1. ASSUME NEW up \in CreateStates, LbCreate(up) PROVE BInv'
  BY <1>1, LbCreateFiled
<1>2. ASSUME NEW up \in BOOLEAN, LbUpdate(up) PROVE BInv'
  BY <1>2, LbUpdateFiled
<1>3. ASSUME NEW cascade \in BOOLEAN, LbDelete(cascade) PROVE BInv'
  BY <1>3, LbDeleteFiled
<1>4. ASSUME NEW l \in Listener,
             \/ \E up \in CreateStates, dp \in Pool \cup {None} :
                   ListenerCreate(l, up, dp)
             \/ \E up \in Opt(BOOLEAN), dp \in Opt(Pool \cup {None}) :
                   ListenerUpdate(l, up, dp)
             \/ ListenerDelete(l)
      PROVE  BInv'
  BY <1>4, ListenerCreateFiled, ListenerUpdateFiled, ListenerDeleteFiled
<1>5. ASSUME NEW p \in Pool,
             \/ \E up \in CreateStates, l \in Listener \cup {None} :
                   PoolCreate(p, up, l)
             \/ \E up \in Opt(BOOLEAN) : PoolUpdate(p, up)
             \/ PoolDelete(p)
      PROVE  BInv'
  BY <1>5, PoolCreateFiled, PoolUpdateFiled, PoolDeleteFiled
<1>6. ASSUME NEW m \in Member,
             \/ \E up \in CreateStates : MemberCreate(m, up)
             \/ \E up \in Opt(BOOLEAN) : MemberUpdate(m, up)
             \/ MemberDelete(m)
      PROVE  BInv'
  BY <1>6, MemberCreateFiled, MemberUpdateFiled, MemberDeleteFiled
<1>. QED  BY <1>1, <1>2, <1>3, <1>4, <1>5, <1>6 DEF Next

-----------------------------------------------------------------------------
(* What the tool makes of a row                                            *)

LEMMA FrameSame ==
    ASSUME NEW one, NEW two, one.enabled = two.enabled, one.status = two.status,
           one.listeners = two.listeners, one.refs = two.refs,
           one.pools = two.pools, one.members = two.members
    PROVE  FrameVips(one) = FrameVips(two)
BY DEF FrameVips, Routes

LEMMA LbSyncGives ==
    ASSUME BInv, NEW row, Filed(row)
    PROVE  LET new == LbSync(row)
           IN  /\ Filed(new)
               /\ oLb.vipPort => new.enabled = oLb.up
               /\ oLb.up /\ row.enabled => new.enabled
               /\ new.listeners = row.listeners /\ new.refs = row.refs
               /\ new.pools = row.pools /\ new.members = row.members
               /\ new.status = row.status /\ new.vips = row.vips
<1>. DEFINE new == LbSync(row)
<1>1. row \in RowContents /\ oLb.up \in BOOLEAN
  BY DEF Filed, BInv, RecordsOK, LbRecord
<1>2. /\ new \in RowContents
      /\ oLb.vipPort => new.enabled = oLb.up
      /\ oLb.up /\ row.enabled => new.enabled
      /\ new.listeners = row.listeners /\ new.refs = row.refs
      /\ new.pools = row.pools /\ new.members = row.members
      /\ new.status = row.status /\ new.vips = row.vips
  BY <1>1 DEF LbSync, RowContents
<1>3. Filed(new)
  <2>. HIDE DEF new
  <2>. QED  BY <1>2, FieldsFiled
<1>. QED  BY <1>2, <1>3

LEMMA RefOfType ==
    ASSUME BInv, NEW l \in Listener
    PROVE  /\ RefOf(l) \in SUBSET PoolRef /\ oListener[l].up \in BOOLEAN
           /\ <<l, oListener[l].up>> \in ListenerKey
<1>1. oListener[l] \in ListenerRecord
  BY OrBlank DEF BInv, RecordsOK
<1>2. RefOf(l) \in SUBSET PoolRef
  <2>1. oListener[l].pool \in Pool \cup {None}
    BY <1>1 DEF ListenerRecord
  <2>2. <<oListener[l].pool, TRUE>> \in PoolRef
    BY <2>1 DEF PoolRef
  <2>. QED  BY <2>2 DEF RefOf
<1>. QED  BY <1>1, <1>2 DEF ListenerRecord, ListenerKey

LEMMA PoolKeyType ==
    ASSUME BInv, NEW p \in Pool
    PROVE  oPool[p].up \in BOOLEAN /\ <<p, oPool[p].up>> \in PoolKey
           /\ <<p, oPool[p].up>> \in PoolRef
<1>1. oPool[p] \in ChildRecord
  BY OrBlank DEF BInv, RecordsOK
<1>. QED  BY <1>1 DEF ChildRecord, PoolKey, PoolRef

LEMMA ListenerSyncGives ==
    ASSUME BInv, NEW row, Filed(row), NEW l \in Listener
    PROVE  LET new == ListenerSync(row, l)
           IN  /\ Filed(new)
               /\ new.enabled = row.enabled
               /\ new.listeners = row.listeners \cup {<<l, oListener[l].up>>}
               /\ new.refs = With(row.refs, <<l, oListener[l].up>>, RefOf(l))
               /\ new.pools = row.pools /\ new.members = row.members
               /\ new.status = row.status /\ new.vips = FrameVips(new)
<1>. DEFINE key == <<l, oListener[l].up>>
            put == PutListener(row, key, RefOf(l))
            served == [put EXCEPT !.protocol = ProtocolOf[l]]
<1>1. key \in ListenerKey /\ RefOf(l) \in SUBSET PoolRef /\ ProtocolOf[l] \in Protocol
  BY RefOfType, ConstantsAssumption
<1>2. /\ Filed(put) /\ put.enabled = row.enabled
      /\ put.listeners = row.listeners \cup {key}
      /\ put.refs = With(row.refs, key, RefOf(l))
      /\ put.pools = row.pools /\ put.members = row.members
      /\ put.status = row.status
  <2>. HIDE DEF key
  <2>. QED  BY <1>1, PutListenerFiled
<1>3. /\ served \in RowContents /\ served.enabled = put.enabled
      /\ served.listeners = put.listeners /\ served.refs = put.refs
      /\ served.pools = put.pools /\ served.members = put.members
      /\ served.status = put.status
  <2>. HIDE DEF put
  <2>. QED  BY <1>1, <1>2 DEF Filed, RowContents
<1>4. Filed(served)
  <2>. HIDE DEF served, put
  <2>. QED  BY <1>2, <1>3, FieldsFiled
<1>5. ListenerSync(row, l) = Refresh(served)
  BY DEF ListenerSync
<1>6. LET new == Refresh(served)
      IN  /\ Filed(new) /\ new.vips = FrameVips(served)
          /\ new.enabled = served.enabled
          /\ new.listeners = served.listeners /\ new.refs = served.refs
          /\ new.pools = served.pools /\ new.members = served.members
          /\ new.status = served.status
  <2>. HIDE DEF served
  <2>. QED  BY <1>4, RefreshFiled
<1>7. FrameVips(Refresh(served)) = FrameVips(served)
  <2>. HIDE DEF served
  <2>. QED  BY <1>6, FrameSame
<1>. QED
  <2>. HIDE DEF served, put
  <2>. QED  BY <1>2, <1>3, <1>5, <1>6, <1>7

PoolSynced(new, row, p, l) ==
    LET key == <<p, oPool[p].up>>
        ends == {<<p, TRUE>>, <<p, FALSE>>}
    IN  /\ Filed(new)
        /\ new.enabled = row.enabled
        /\ new.listeners = row.listeners
        /\ \/ new.refs = row.refs
           \/ /\ l \in Listener /\ oListener[l].pool = p
              /\ <<l, TRUE>> \in row.listeners
              /\ new.refs = With(row.refs, <<l, TRUE>>,
                                 (row.refs[<<l, TRUE>>] \ ends) \cup {key})
        /\ new.pools = row.pools \cup {key}
        /\ new.members = With(row.members, key, {})
        /\ new.status = row.status /\ new.vips = row.vips

LEMMA PoolSyncGives ==
    ASSUME BInv, NEW row, Filed(row), NEW p \in Pool, NEW l \in NamedFor(p)
    PROVE  PoolSynced(PoolSync(row, p, l), row, p, l)
<1>. DEFINE key == <<p, oPool[p].up>>
            ends == {<<p, TRUE>>, <<p, FALSE>>}
            emptied == PutPool(row, key, {})
            lkey == <<l, TRUE>>
            refs == (row.refs[lkey] \ ends) \cup {key}
<1>1. key \in PoolKey /\ key \in PoolRef
  BY PoolKeyType
<1>2. /\ Filed(emptied)
      /\ emptied.enabled = row.enabled
      /\ emptied.listeners = row.listeners /\ emptied.refs = row.refs
      /\ emptied.pools = row.pools \cup {key}
      /\ emptied.members = With(row.members, key, {})
      /\ emptied.status = row.status /\ emptied.vips = row.vips
  <2>. HIDE DEF key
  <2>. QED  BY <1>1, PutPoolFiled
<1>3. CASE lkey \in row.listeners
  <2>1. lkey \in ListenerKey /\ row.refs[lkey] \in SUBSET PoolRef
        /\ l \in Listener /\ oListener[l].pool = p
    BY <1>3, ConstantsAssumption DEF Filed, RowContents, ListenerKey, NamedFor
  <2>2. refs \in SUBSET PoolRef
    BY <1>1, <2>1
  <2>3. PoolSync(row, p, l) = [emptied EXCEPT !.refs[lkey] = refs]
    BY <1>2, <1>3 DEF PoolSync
  <2>4. LET new == [emptied EXCEPT !.refs[lkey] = refs]
        IN  /\ Filed(new)
            /\ new.enabled = emptied.enabled
            /\ new.listeners = emptied.listeners
            /\ new.refs = With(emptied.refs, lkey, refs)
            /\ new.pools = emptied.pools /\ new.members = emptied.members
            /\ new.status = emptied.status /\ new.vips = emptied.vips
    <3>. HIDE DEF emptied, lkey, refs
    <3>. QED  BY <1>2, <2>1, <2>2, RefsFiled
  <2>. HIDE DEF emptied, key
  <2>. QED  BY <1>2, <1>3, <2>1, <2>3, <2>4 DEF key, PoolSynced
<1>4. CASE lkey \notin row.listeners
  <2>1. PoolSync(row, p, l) = emptied
    BY <1>4 DEF PoolSync
  <2>. HIDE DEF emptied
  <2>. QED  BY <1>2, <2>1 DEF PoolSynced
<1>. QED  BY <1>3, <1>4

LEMMA MemberSyncGives ==
    ASSUME BInv, NEW row, Filed(row), NEW m \in Member
    PROVE  LET new == MemberSync(row, m)
               key == <<PoolOf[m], oPool[PoolOf[m]].up>>
               joined == PutPool(row, key, row.members[key] \cup {m})
           IN  /\ Filed(new)
               /\ new.enabled = row.enabled
               /\ new.listeners = row.listeners /\ new.refs = row.refs
               /\ new.pools = row.pools \cup {key}
               /\ new.members = With(row.members, key, row.members[key] \cup {m})
               /\ new.status = With(row.status, m, "NO_MONITOR")
               /\ Filed(joined) /\ joined.enabled = row.enabled
               /\ joined.listeners = row.listeners /\ joined.refs = row.refs
               /\ joined.pools = new.pools /\ joined.members = new.members
               /\ joined.status = row.status
               /\ new.vips = IF oMember[m].up THEN FrameVips(joined) ELSE row.vips
<1>. DEFINE key == <<PoolOf[m], oPool[PoolOf[m]].up>>
            mems == row.members[key] \cup {m}
            joined == PutPool(row, key, mems)
            fresh == IF oMember[m].up THEN Refresh(joined) ELSE joined
<1>1. key \in PoolKey /\ PoolOf[m] \in Pool
  BY PoolKeyType, ConstantsAssumption
<1>2. mems \in SUBSET Member /\ \A x \in mems : PoolOf[x] = key[1]
  <2>1. row.members[key] \in SUBSET Member /\ \A x \in row.members[key] : PoolOf[x] = key[1]
    <3>. HIDE DEF key
    <3>. QED  BY <1>1 DEF Filed, RowContents
  <2>. QED  BY <2>1
<1>3. /\ Filed(joined)
      /\ joined.enabled = row.enabled
      /\ joined.listeners = row.listeners /\ joined.refs = row.refs
      /\ joined.pools = row.pools \cup {key}
      /\ joined.members = With(row.members, key, mems)
      /\ joined.status = row.status /\ joined.vips = row.vips
  <2>. HIDE DEF key, mems
  <2>. QED  BY <1>1, <1>2, PutPoolFiled
<1>4. /\ Filed(fresh)
      /\ fresh.enabled = joined.enabled
      /\ fresh.listeners = joined.listeners /\ fresh.refs = joined.refs
      /\ fresh.pools = joined.pools /\ fresh.members = joined.members
      /\ fresh.status = joined.status
      /\ fresh.vips = IF oMember[m].up THEN FrameVips(joined) ELSE joined.vips
  <2>. HIDE DEF joined
  <2>. QED  BY <1>3, RefreshFiled
<1>5. MemberSync(row, m) = SetStatus(fresh, m, "NO_MONITOR")
  BY DEF MemberSync
<1>6. "NO_MONITOR" \in MemberStatus
  BY DEF MemberStatus
<1>7. LET new == SetStatus(fresh, m, "NO_MONITOR")
      IN  /\ Filed(new)
          /\ new.enabled = fresh.enabled
          /\ new.listeners = fresh.listeners /\ new.refs = fresh.refs
          /\ new.pools = fresh.pools /\ new.members = fresh.members
          /\ new.status = With(fresh.status, m, "NO_MONITOR")
          /\ new.vips = fresh.vips
  <2>. HIDE DEF fresh
  <2>. QED  BY <1>4, <1>6, StatusFiled
<1>. QED
  <2>. HIDE DEF fresh, joined
  <2>. QED  BY <1>3, <1>4, <1>5, <1>7 DEF joined

-----------------------------------------------------------------------------
(* The types of the tool                                                   *)

ToolTyped == tool \in {Idle} \cup Working /\ runs \in 0..2

LEMMA AtWork ==
    ASSUME ToolTyped, tool # Idle \/ tool.phase \in {"sync", "make"}
    PROVE  tool \in Working
BY DEF ToolTyped, Idle

LEMMA PhaseIdle ==
    ASSUME ToolTyped
    PROVE  /\ tool = Idle <=> tool.phase = "idle"
           /\ tool \in Working => tool.phase \in {"sync", "make"}
BY DEF ToolTyped, Idle, Working

LEMMA EntersTyped ==
    ASSUME NEW phase \in {"sync", "make"}, NEW r \in Row, NEW todo \in SUBSET Row,
           NEW kept \in SUBSET (Row \X Member \X Listener),
           Enters(phase, r, todo, kept), runs' \in 0..2
    PROVE  ToolTyped'
BY DEF Enters, ToolTyped, Working

LEMMA EndsTyped ==
    ASSUME ToolTyped, NEW n \in 0..2, Ends(n)
    PROVE  ToolTyped'
BY DEF Ends, ToolTyped, Idle

LEMMA MoreTyped == ASSUME ToolTyped PROVE More \in 0..2
BY DEF More, ToolTyped

LEMMA OwedType == ASSUME RowsFiled PROVE Owed \in SUBSET (Row \X Member \X Listener)
<1>1. live \X Member \X Listener \subseteq Row \X Member \X Listener
  BY DEF RowsFiled
<1>. QED  BY <1>1 DEF Owed

\* The records, and what the tool knows of them, once a row was reported.
LEMMA ReportedSame ==
    ASSUME RecordsOK, AllReported
    PROVE  /\ RecordsOK'
           /\ oLb'.up = oLb.up /\ oLb'.vipPort = oLb.vipPort
           /\ \A l \in Listener : /\ Exists(oListener[l])' = Exists(oListener[l])
                                  /\ oListener'[l].up = oListener[l].up
                                  /\ oListener'[l].pool = oListener[l].pool
           /\ \A p \in Pool : /\ Exists(oPool[p])' = Exists(oPool[p])
                              /\ oPool'[p].up = oPool[p].up
           /\ \A m \in Member : /\ Exists(oMember[m])' = Exists(oMember[m])
                                /\ oMember'[m].up = oMember[m].up
<1>1. ASSUME NEW x \in ListenerOrBlank
      PROVE  /\ Reported(x) \in ListenerOrBlank
             /\ (Reported(x).prov # "ABSENT") = (x.prov # "ABSENT")
             /\ Reported(x).up = x.up /\ Reported(x).pool = x.pool
  <2>1. CASE Exists(x)
    <3>1. x \in ListenerRecord
      BY OrBlank
    <3>2. [x EXCEPT !.prov = "ACTIVE"] \in ListenerRecord
          /\ Exists([x EXCEPT !.prov = "ACTIVE"])
      BY <3>1 DEF ListenerRecord, Prov, Exists
    <3>. QED  BY <2>1, <3>1, <3>2 DEF Reported, ListenerOrBlank, Exists, ListenerRecord
  <2>2. CASE ~Exists(x)
    BY <2>2 DEF Reported
  <2>. QED  BY <2>1, <2>2
<1>2. ASSUME NEW x \in ChildOrBlank
      PROVE  /\ Reported(x) \in ChildOrBlank
             /\ (Reported(x).prov # "ABSENT") = (x.prov # "ABSENT")
             /\ Reported(x).up = x.up
  <2>1. CASE Exists(x)
    <3>1. x \in ChildRecord
      BY OrBlank
    <3>2. [x EXCEPT !.prov = "ACTIVE"] \in ChildRecord
          /\ Exists([x EXCEPT !.prov = "ACTIVE"])
      BY <3>1 DEF ChildRecord, Prov, Exists
    <3>. QED  BY <2>1, <3>1, <3>2 DEF Reported, ChildOrBlank, Exists, ChildRecord
  <2>2. CASE ~Exists(x)
    BY <2>2 DEF Reported
  <2>. QED  BY <2>1, <2>2
<1>3. oLb' \in LbRecord /\ oLb'.up = oLb.up /\ oLb'.vipPort = oLb.vipPort
  BY DEF RecordsOK, AllReported, Reported, LbRecord, Prov
<1>4. /\ oListener' \in [Listener -> ListenerOrBlank]
      /\ \A l \in Listener : /\ oListener'[l] = Reported(oListener[l])
                             /\ oListener[l] \in ListenerOrBlank
  BY <1>1 DEF RecordsOK, AllReported
<1>5. /\ oPool' \in [Pool -> ChildOrBlank]
      /\ \A p \in Pool : oPool'[p] = Reported(oPool[p]) /\ oPool[p] \in ChildOrBlank
  BY <1>2 DEF RecordsOK, AllReported
<1>6. /\ oMember' \in [Member -> ChildOrBlank]
      /\ \A m \in Member : oMember'[m] = Reported(oMember[m]) /\ oMember[m] \in ChildOrBlank
  BY <1>2 DEF RecordsOK, AllReported
<1>7. RecordsOK'
  BY <1>3, <1>4, <1>5, <1>6 DEF RecordsOK, AllReported
<1>. QED  BY <1>1, <1>2, <1>3, <1>4, <1>5, <1>6, <1>7 DEF Exists

\* A step of the tool writes the row it is at and leaves the records alone.
LEMMA RowWritten ==
    ASSUME BInv, ToolTyped, tool \in Working, NEW row, Filed(row),
           rows' = [rows EXCEPT ![tool.row] = row],
           UNCHANGED <<live, oLb, oListener, oPool, oMember, unanswered>>
    PROVE  BInv'
<1>1. tool.row \in Row
  BY DEF Working
<1>2. RowsFiled'
  <2>1. live' \subseteq live \cup {tool.row}
    OBVIOUS
  <2>. HIDE DEF ToolTyped
  <2>. QED  BY <1>1, <2>1, WrittenFiled DEF BInv
<1>. QED  BY <1>2 DEF BInv, RecordsOK

LEMMA CurrentFiled ==
    ASSUME BInv, tool \in Working
    PROVE  tool.row \in Row /\ Filed(rows[tool.row])
BY DEF BInv, RowsFiled, Working

LEMMA BeginTyped ==
    ASSUME BInv, ToolTyped, Begin
    PROVE  BInv' /\ ToolTyped'
<1>1. PICK r \in live : SyncRow(r, live \ {r}, Owed)
  BY DEF Begin
<1>2. r \in Row /\ Filed(rows[r]) /\ live \subseteq Row
  BY LiveFiled DEF BInv, RowsFiled
<1>3. Filed(LbSync(rows[r]))
  BY <1>2, LbSyncGives
<1>4. RowsFiled'
  <2>1. rows' = [rows EXCEPT ![r] = LbSync(rows[r])] /\ live' \subseteq live \cup {r}
    BY <1>1 DEF SyncRow, Begin
  <2>. QED  BY <1>2, <1>3, <2>1, WrittenFiled DEF BInv
<1>5. BInv'
  BY <1>4 DEF BInv, RecordsOK, Begin
<1>6. ToolTyped'
  <2>1. Enters("sync", r, live \ {r}, Owed) /\ runs' \in 0..2
    BY <1>1 DEF SyncRow, Begin, ToolTyped
  <2>2. live \ {r} \in SUBSET Row /\ Owed \in SUBSET (Row \X Member \X Listener)
    BY <1>2, OwedType DEF BInv
  <2>. QED  BY <1>2, <2>1, <2>2, EntersTyped
<1>. QED  BY <1>5, <1>6

LEMMA SyncListenerTyped ==
    ASSUME BInv, ToolTyped, NEW l \in Listener, SyncListener(l)
    PROVE  BInv' /\ ToolTyped'
<1>1. tool \in Working /\ Filed(rows[tool.row])
  BY AtWork, CurrentFiled DEF SyncListener
<1>2. Filed(ListenerSync(rows[tool.row], l))
  BY <1>1, ListenerSyncGives
<1>3. BInv'
  BY <1>1, <1>2, RowWritten DEF SyncListener
<1>4. ToolTyped'
  BY <1>1 DEF SyncListener, ToolTyped, Working
<1>. QED  BY <1>3, <1>4

LEMMA SyncPoolTyped ==
    ASSUME BInv, ToolTyped, NEW p \in Pool, SyncPool(p)
    PROVE  BInv' /\ ToolTyped'
<1>1. tool \in Working /\ Filed(rows[tool.row])
  BY AtWork, CurrentFiled DEF SyncPool
<1>2. PICK l \in NamedFor(p) : rows' = [rows EXCEPT ![tool.row] = PoolSync(@, p, l)]
  BY DEF SyncPool
<1>3. Filed(PoolSync(rows[tool.row], p, l))
  BY <1>1, PoolSyncGives DEF PoolSynced
<1>4. BInv'
  BY <1>1, <1>2, <1>3, RowWritten DEF SyncPool
<1>5. MembersOf(p) \in SUBSET Member
  BY DEF MembersOf
<1>6. ToolTyped'
  BY <1>1, <1>5 DEF SyncPool, ToolTyped, Working
<1>. QED  BY <1>4, <1>6

LEMMA SyncMemberTyped ==
    ASSUME BInv, ToolTyped, NEW m \in Member, SyncMember(m)
    PROVE  BInv' /\ ToolTyped'
<1>1. tool \in Working /\ Filed(rows[tool.row])
  BY AtWork, CurrentFiled DEF SyncMember
<1>2. Filed(MemberSync(rows[tool.row], m))
  BY <1>1, MemberSyncGives
<1>3. BInv'
  BY <1>1, <1>2, RowWritten DEF SyncMember
<1>4. ToolTyped'
  BY <1>1 DEF SyncMember, ToolTyped, Working
<1>. QED  BY <1>3, <1>4

LEMMA EndRowTyped ==
    ASSUME BInv, ToolTyped, EndRow
    PROVE  BInv' /\ ToolTyped'
<1>1. tool \in Working
  BY AtWork DEF EndRow
<1>2. tool.todo \in SUBSET Row /\ tool.kept \in SUBSET (Row \X Member \X Listener)
  BY <1>1 DEF Working
<1>3. More \in 0..2 /\ 0 \in 0..2
  BY MoreTyped
<1>4. CASE Ends(IF tool.todo = {} THEN More ELSE 0) /\ UNCHANGED vars
  <2>1. BInv'
    BY <1>4 DEF vars, BInv, RowsFiled, RecordsOK
  <2>2. ToolTyped'
    BY <1>3, <1>4, EndsTyped
  <2>. QED  BY <2>1, <2>2
<1>5. CASE AllReported /\ Ends(More) /\ UNCHANGED <<live, rows>>
  <2>1. RowsFiled' /\ RecordsOK'
    BY <1>5, SameRowsFiled, ReportedSame DEF BInv
  <2>2. ToolTyped'
    BY <1>3, <1>5, EndsTyped
  <2>. QED  BY <2>1, <2>2 DEF BInv
<1>6. ASSUME NEW r \in tool.todo, AllReported, UNCHANGED <<live, runs>>,
             SyncRow(r, tool.todo \ {r}, tool.kept)
      PROVE  BInv' /\ ToolTyped'
  <2>1. r \in Row /\ Filed(rows[r])
    BY <1>2 DEF BInv, RowsFiled
  <2>2. Filed(LbSync(rows[r]))
    BY <2>1, LbSyncGives
  <2>3. RowsFiled'
    <3>1. rows' = [rows EXCEPT ![r] = LbSync(rows[r])] /\ live' \subseteq live \cup {r}
      BY <1>6 DEF SyncRow
    <3>. QED  BY <2>1, <2>2, <3>1, WrittenFiled DEF BInv
  <2>4. RecordsOK'
    BY <1>6, ReportedSame DEF BInv
  <2>5. ToolTyped'
    <3>1. Enters("sync", r, tool.todo \ {r}, tool.kept) /\ runs' \in 0..2
      BY <1>6 DEF SyncRow, ToolTyped
    <3>2. tool.todo \ {r} \in SUBSET Row
      BY <1>2
    <3>. QED  BY <1>2, <2>1, <3>1, <3>2, EntersTyped
  <2>. QED  BY <2>3, <2>4, <2>5 DEF BInv
<1>. QED  BY <1>4, <1>5, <1>6 DEF EndRow

LEMMA MakeTyped ==
    ASSUME BInv, ToolTyped, Make
    PROVE  BInv' /\ ToolTyped'
<1>1. PICK r \in Row : Put(r, NewRow(NoProtocol, oLb.up)) /\ Enters("make", r, {}, {})
  BY DEF Make
<1>2. oLb.up \in BOOLEAN
  BY DEF BInv, RecordsOK, LbRecord
<1>3. RowsFiled'
  BY <1>1, <1>2, BlankFiled, PutFiled DEF BInv
<1>4. RecordsOK'
  BY DEF BInv, RecordsOK, Make
<1>5. ToolTyped'
  <2>1. runs' \in 0..2
    BY DEF Make, ToolTyped
  <2>. QED  BY <1>1, <2>1, EntersTyped
<1>. QED  BY <1>3, <1>4, <1>5 DEF BInv

\* What listener_create of the tool puts.
LEMMA MakeListenerGives ==
    ASSUME BInv, ToolTyped, NEW l \in Listener, MakeListener(l)
    PROVE  \E o \in Obtain(ProtocolOf[l], oListener[l].up) :
              LET new == Refresh(PutListener(o.row, <<l, oListener[l].up>>, RefOf(l)))
              IN  /\ Put(o.id, new) /\ oLb' = [oLb EXCEPT !.vipPort = o.port]
                  /\ o.id \in Row /\ o.port \in BOOLEAN /\ Filed(new)
                  /\ new.status = o.row.status
<1>1. PICK o \in Obtain(ProtocolOf[l], oListener[l].up) :
         /\ Put(o.id, Refresh(PutListener(o.row, <<l, oListener[l].up>>, RefOf(l))))
         /\ oLb' = [oLb EXCEPT !.vipPort = o.port]
  BY DEF MakeListener
<1>. DEFINE key == <<l, oListener[l].up>>
            put == PutListener(o.row, key, RefOf(l))
<1>2. key \in ListenerKey /\ RefOf(l) \in SUBSET PoolRef /\ oListener[l].up \in BOOLEAN
  BY RefOfType
<1>3. o.id \in Row /\ Filed(o.row) /\ o.port \in BOOLEAN
  BY <1>2, ObtainFiled, ConstantsAssumption
<1>4. Filed(put) /\ put.status = o.row.status
  <2>. HIDE DEF key
  <2>. QED  BY <1>2, <1>3, PutListenerFiled
<1>5. Filed(Refresh(put)) /\ Refresh(put).status = o.row.status
  <2>. HIDE DEF put
  <2>. QED  BY <1>4, RefreshFiled
<1>. QED  BY <1>1, <1>3, <1>5

LEMMA MakeListenerTyped ==
    ASSUME BInv, ToolTyped, NEW l \in Listener, MakeListener(l)
    PROVE  BInv' /\ ToolTyped'
<1>1. PICK id \in Row, port \in BOOLEAN, new \in RowContents :
         Put(id, new) /\ oLb' = [oLb EXCEPT !.vipPort = port] /\ Filed(new)
  <2>1. PICK o \in Obtain(ProtocolOf[l], oListener[l].up) :
              LET new == Refresh(PutListener(o.row, <<l, oListener[l].up>>, RefOf(l)))
              IN  /\ Put(o.id, new) /\ oLb' = [oLb EXCEPT !.vipPort = o.port]
                  /\ o.id \in Row /\ o.port \in BOOLEAN /\ Filed(new)
    BY MakeListenerGives
  <2>. DEFINE new == Refresh(PutListener(o.row, <<l, oListener[l].up>>, RefOf(l)))
  <2>2. /\ Put(o.id, new) /\ oLb' = [oLb EXCEPT !.vipPort = o.port]
        /\ o.id \in Row /\ o.port \in BOOLEAN /\ Filed(new)
    BY <2>1
  <2>. HIDE DEF new
  <2>. QED  BY <2>2 DEF Filed
<1>2. RowsFiled'
  BY <1>1, PutFiled DEF BInv
<1>3. RecordsOK'
  <2>1. oLb' \in LbRecord
    BY <1>1 DEF BInv, RecordsOK, LbRecord
  <2>. QED  BY <2>1 DEF BInv, RecordsOK, MakeListener
<1>4. ToolTyped'
  <2>1. tool \in Working
    BY AtWork DEF MakeListener
  <2>. QED  BY <2>1 DEF MakeListener, ToolTyped, Working
<1>. QED  BY <1>2, <1>3, <1>4 DEF BInv

\* What pool_create of the tool puts.
LEMMA MakePoolGives ==
    ASSUME BInv, ToolTyped, NEW p \in Pool, MakePool(p)
    PROVE  \E o \in Obtain(ProtocolOf[p], oPool[p].up), new \in RowContents :
              /\ Put(o.id, new) /\ oLb' = [oLb EXCEPT !.vipPort = o.port]
              /\ o.id \in Row /\ o.port \in BOOLEAN /\ Filed(new)
              /\ new.status = o.row.status /\ new.vips = o.row.vips
              /\ new.listeners = o.row.listeners
              /\ new.pools = o.row.pools \cup {<<p, oPool[p].up>>}
              /\ new.members = With(o.row.members, <<p, oPool[p].up>>, {})
<1>. DEFINE key == <<p, oPool[p].up>>
            attached(row, l) == IF <<l, TRUE>> \in row.listeners
                                THEN [row EXCEPT !.refs[<<l, TRUE>>] = @ \cup {key}]
                                ELSE row
<1>1. PICK o \in Obtain(ProtocolOf[p], oPool[p].up), l \in NamedFor(p) :
         /\ Put(o.id, PutPool(attached(o.row, l), key, {}))
         /\ oLb' = [oLb EXCEPT !.vipPort = o.port]
  BY DEF MakePool
<1>2. key \in PoolKey /\ key \in PoolRef /\ oPool[p].up \in BOOLEAN
  BY PoolKeyType
<1>3. o.id \in Row /\ Filed(o.row) /\ o.port \in BOOLEAN
  BY <1>2, ObtainFiled, ConstantsAssumption
<1>4. LET new == attached(o.row, l)
      IN  /\ Filed(new) /\ new.status = o.row.status /\ new.vips = o.row.vips
          /\ new.listeners = o.row.listeners
          /\ new.pools = o.row.pools /\ new.members = o.row.members
  <2>1. CASE <<l, TRUE>> \in o.row.listeners
    <3>. DEFINE lkey == <<l, TRUE>>
                refs == o.row.refs[lkey] \cup {key}
    <3>1. lkey \in ListenerKey /\ refs \in SUBSET PoolRef
      BY <1>2, <1>3, <2>1 DEF Filed, RowContents
    <3>2. LET new == [o.row EXCEPT !.refs[lkey] = refs]
          IN  /\ Filed(new) /\ new.status = o.row.status /\ new.vips = o.row.vips
              /\ new.listeners = o.row.listeners
              /\ new.pools = o.row.pools /\ new.members = o.row.members
      <4>. DEFINE row == o.row
      <4>1. Filed(row)
        BY <1>3
      <4>2. LET new == [row EXCEPT !.refs[lkey] = refs]
            IN  /\ Filed(new) /\ new.status = row.status /\ new.vips = row.vips
                /\ new.listeners = row.listeners
                /\ new.pools = row.pools /\ new.members = row.members
        <5>. HIDE DEF row, lkey, refs
        <5>. QED  BY <3>1, <4>1, RefsFiled
      <4>. QED  BY <4>2
    <3>3. attached(o.row, l) = [o.row EXCEPT !.refs[lkey] = refs]
      BY <2>1
    <3>. HIDE DEF attached, lkey, refs
    <3>. QED  BY <3>2, <3>3
  <2>2. CASE <<l, TRUE>> \notin o.row.listeners
    BY <1>3, <2>2
  <2>. QED  BY <2>1, <2>2
<1>5. LET new == PutPool(attached(o.row, l), key, {})
      IN  /\ Filed(new) /\ new.status = o.row.status /\ new.vips = o.row.vips
          /\ new.listeners = o.row.listeners
          /\ new.pools = o.row.pools \cup {key}
          /\ new.members = With(o.row.members, key, {})
  <2>. HIDE DEF attached, key
  <2>. QED  BY <1>2, <1>4, PutPoolFiled
<1>. QED
  <2>. DEFINE new == PutPool(attached(o.row, l), key, {})
  <2>1. new \in RowContents
    BY <1>5 DEF Filed
  <2>. HIDE DEF attached
  <2>. QED  BY <1>1, <1>3, <1>5, <2>1

LEMMA MakePoolTyped ==
    ASSUME BInv, ToolTyped, NEW p \in Pool, MakePool(p)
    PROVE  BInv' /\ ToolTyped'
<1>1. PICK id \in Row, port \in BOOLEAN, new \in RowContents :
         Put(id, new) /\ oLb' = [oLb EXCEPT !.vipPort = port] /\ Filed(new)
  <2>1. PICK o \in Obtain(ProtocolOf[p], oPool[p].up), new \in RowContents :
              /\ Put(o.id, new) /\ oLb' = [oLb EXCEPT !.vipPort = o.port]
              /\ o.id \in Row /\ o.port \in BOOLEAN /\ Filed(new)
    BY MakePoolGives
  <2>. QED  BY <2>1
<1>2. RowsFiled'
  BY <1>1, PutFiled DEF BInv
<1>3. RecordsOK'
  <2>1. oLb' \in LbRecord
    BY <1>1 DEF BInv, RecordsOK, LbRecord
  <2>. QED  BY <2>1 DEF BInv, RecordsOK, MakePool
<1>4. ToolTyped'
  <2>1. tool \in Working /\ MembersOf(p) \in SUBSET Member
    BY AtWork DEF MakePool, MembersOf
  <2>2. CASE Ends(0)
    BY <2>2, EndsTyped
  <2>3. CASE tool' = [tool EXCEPT !.pools = @ \ {p}, !.members = MembersOf(p)]
             /\ UNCHANGED runs
    BY <2>1, <2>3 DEF ToolTyped, Working
  <2>. QED  BY <2>2, <2>3 DEF MakePool
<1>. QED  BY <1>2, <1>3, <1>4 DEF BInv

\* What member_create of the tool puts.
LEMMA MakeMemberGives ==
    ASSUME BInv, ToolTyped, NEW m \in Member, MakeMember(m)
    PROVE  \E rk \in PoolRows(PoolOf[m]), new \in RowContents :
              /\ Put(rk[1], new) /\ rk[1] \in live /\ rk[1] \in Row
              /\ rk[2] \in rows[rk[1]].pools /\ rk[2][1] = PoolOf[m]
              /\ Filed(new)
              /\ new.listeners = rows[rk[1]].listeners
              /\ new.pools = rows[rk[1]].pools
              /\ new.members = With(rows[rk[1]].members, rk[2],
                                    rows[rk[1]].members[rk[2]] \cup {m})
              /\ new.status = With(rows[rk[1]].status, m,
                                   IF oMember[m].up THEN "NO_MONITOR" ELSE "OFFLINE")
              /\ new.vips = MemberJoined(rows[rk[1]], rk[2], m, oMember[m].up).vips
              /\ \/ Ends(0)
                 \/ /\ ~StatusRaises(new)
                    /\ tool' = [tool EXCEPT !.members = @ \ {m}]
                    /\ UNCHANGED runs
<1>. DEFINE up == oMember[m].up
            status == IF up THEN "NO_MONITOR" ELSE "OFFLINE"
            made(row, k) == SetStatus(MemberJoined(row, k, m, up), m, status)
<1>1. PICK rk \in PoolRows(PoolOf[m]) :
         /\ Put(rk[1], made(rows[rk[1]], rk[2]))
         /\ \/ Ends(0)
            \/ /\ ~StatusRaises(made(rows[rk[1]], rk[2]))
               /\ tool' = [tool EXCEPT !.members = @ \ {m}]
               /\ UNCHANGED runs
  BY DEF MakeMember
<1>2. PoolOf[m] \in Pool /\ up \in BOOLEAN /\ status \in MemberStatus
  BY OrBlank, ConstantsAssumption DEF BInv, RecordsOK, ChildRecord, MemberStatus
<1>3. /\ rk[1] \in live /\ rk[1] \in Row /\ Filed(rows[rk[1]])
      /\ rk[2] \in rows[rk[1]].pools /\ rk[2][1] = PoolOf[m]
  BY <1>2, PoolRowsFiled DEF BInv
<1>. DEFINE joined == MemberJoined(rows[rk[1]], rk[2], m, up)
<1>4. /\ Filed(joined)
      /\ joined.listeners = rows[rk[1]].listeners
      /\ joined.pools = rows[rk[1]].pools
      /\ joined.members = With(rows[rk[1]].members, rk[2],
                               rows[rk[1]].members[rk[2]] \cup {m})
      /\ joined.status = rows[rk[1]].status
  <2>. HIDE DEF up
  <2>. QED  BY <1>2, <1>3, MemberJoinedFiled
<1>5. LET new == SetStatus(joined, m, status)
      IN  /\ Filed(new)
          /\ new.listeners = joined.listeners
          /\ new.pools = joined.pools /\ new.members = joined.members
          /\ new.status = With(joined.status, m, status)
          /\ new.vips = joined.vips
  <2>. HIDE DEF joined, status
  <2>. QED  BY <1>2, <1>4, StatusFiled
<1>. DEFINE new == SetStatus(joined, m, status)
<1>6. /\ Put(rk[1], new)
      /\ \/ Ends(0)
         \/ /\ ~StatusRaises(new)
            /\ tool' = [tool EXCEPT !.members = @ \ {m}]
            /\ UNCHANGED runs
  <2>. HIDE DEF status
  <2>. QED  BY <1>1
<1>7. joined.vips = MemberJoined(rows[rk[1]], rk[2], m, oMember[m].up).vips
  OBVIOUS
<1>. HIDE DEF joined
<1>8. /\ Filed(new)
      /\ new.listeners = rows[rk[1]].listeners /\ new.pools = rows[rk[1]].pools
      /\ new.members = With(rows[rk[1]].members, rk[2],
                            rows[rk[1]].members[rk[2]] \cup {m})
      /\ new.status = With(rows[rk[1]].status, m, status)
      /\ new.vips = MemberJoined(rows[rk[1]], rk[2], m, oMember[m].up).vips
  <2>. HIDE DEF status
  <2>. QED  BY <1>4, <1>5, <1>7
<1>9. new \in RowContents
  BY <1>8 DEF Filed
<1>. QED
  <2>. HIDE DEF new
  <2>. QED  BY <1>1, <1>3, <1>6, <1>8, <1>9

LEMMA MakeMemberTyped ==
    ASSUME BInv, ToolTyped, NEW m \in Member, MakeMember(m)
    PROVE  BInv' /\ ToolTyped'
<1>1. PICK rk \in PoolRows(PoolOf[m]), new \in RowContents :
         /\ Put(rk[1], new) /\ rk[1] \in Row /\ Filed(new)
         /\ \/ Ends(0)
            \/ /\ tool' = [tool EXCEPT !.members = @ \ {m}]
               /\ UNCHANGED runs
  <2>1. PICK rk \in PoolRows(PoolOf[m]), new \in RowContents :
           /\ Put(rk[1], new) /\ rk[1] \in Row /\ Filed(new)
           /\ \/ Ends(0)
              \/ /\ ~StatusRaises(new)
                 /\ tool' = [tool EXCEPT !.members = @ \ {m}]
                 /\ UNCHANGED runs
    BY MakeMemberGives
  <2>. QED  BY <2>1
<1>2. RowsFiled'
  BY <1>1, PutFiled DEF BInv
<1>3. RecordsOK'
  BY DEF BInv, RecordsOK, MakeMember
<1>4. ToolTyped'
  <2>1. tool \in Working
    BY AtWork DEF MakeMember
  <2>2. CASE Ends(0)
    BY <2>2, EndsTyped
  <2>3. CASE tool' = [tool EXCEPT !.members = @ \ {m}] /\ UNCHANGED runs
    BY <2>1, <2>3 DEF ToolTyped, Working
  <2>. QED  BY <1>1, <2>2, <2>3
<1>. QED  BY <1>2, <1>3, <1>4 DEF BInv

LEMMA LoseFiled ==
    ASSUME RowsFiled, NEW r \in live, LoseRow(r) \/ LoseContents(r)
    PROVE  RowsFiled'
<1>1. r \in Row /\ Filed(rows[r]) /\ rows[r] \in RowContents
  BY LiveFiled DEF Filed
<1>2. CASE LoseRow(r)
  BY <1>1, <1>2, BlankFiled, WrittenFiled DEF LoseRow
<1>3. CASE LoseContents(r)
  <2>1. PICK L \in SUBSET rows[r].listeners, P \in SUBSET rows[r].pools,
             vips \in {rows[r].vips, BlankRow.vips} :
          rows' = [rows EXCEPT
              ![r].listeners = L,
              ![r].refs = [k \in ListenerKey |-> IF k \in L THEN @[k] ELSE {}],
              ![r].pools = P,
              ![r].members = [k \in PoolKey |-> IF k \in P THEN @[k] ELSE {}],
              ![r].vips = vips]
    BY <1>3 DEF LoseContents
  <2>. DEFINE new == [rows[r] EXCEPT
              !.listeners = L,
              !.refs = [k \in ListenerKey |-> IF k \in L THEN @[k] ELSE {}],
              !.pools = P,
              !.members = [k \in PoolKey |-> IF k \in P THEN @[k] ELSE {}],
              !.vips = vips]
  <2>2. rows' = [rows EXCEPT ![r] = new]
    BY <1>1, <2>1 DEF RowsFiled, RowContents
  <2>3. new \in RowContents
    BY <1>1, BlankRowType DEF RowContents
  <2>4. /\ new.pools = P
        /\ new.members = [k \in PoolKey |-> IF k \in P THEN rows[r].members[k] ELSE {}]
    BY <1>1 DEF RowContents
  <2>. HIDE DEF new
  <2>5. Filed(new)
    BY <1>1, <2>3, <2>4 DEF Filed
  <2>. QED  BY <1>1, <1>3, <2>2, <2>5, WrittenFiled DEF LoseContents
<1>. QED  BY <1>2, <1>3

TypesInv == BInv /\ ToolTyped

LEMMA TypesHold ==
    ASSUME TypesInv, [SyncNext]_syncVars
    PROVE  TypesInv'
<1>. BInv /\ ToolTyped
  BY DEF TypesInv
<1>1. CASE Begin
  BY <1>1, BeginTyped DEF TypesInv
<1>2. ASSUME NEW l \in Listener, SyncListener(l) \/ MakeListener(l) PROVE TypesInv'
  BY <1>2, SyncListenerTyped, MakeListenerTyped DEF TypesInv
<1>3. ASSUME NEW p \in Pool, SyncPool(p) \/ MakePool(p) PROVE TypesInv'
  BY <1>3, SyncPoolTyped, MakePoolTyped DEF TypesInv
<1>4. ASSUME NEW m \in Member, SyncMember(m) \/ MakeMember(m) PROVE TypesInv'
  BY <1>4, SyncMemberTyped, MakeMemberTyped DEF TypesInv
<1>5. CASE EndRow
  BY <1>5, EndRowTyped DEF TypesInv
<1>6. CASE Make
  BY <1>6, MakeTyped DEF TypesInv
<1>7. CASE EndMake \/ Stop
  <2>1. BInv'
    BY <1>7 DEF EndMake, Stop, vars, BInv, RowsFiled, RecordsOK
  <2>2. PICK n \in 0..2 : Ends(n)
    BY <1>7, MoreTyped DEF EndMake, Stop
  <2>. QED  BY <2>1, <2>2, EndsTyped DEF TypesInv
<1>8. CASE Lose
  <2>1. RowsFiled'
    BY <1>8, LoseFiled DEF Lose, BInv
  <2>2. RecordsOK'
    BY <1>8 DEF BInv, RecordsOK, Lose
  <2>3. ToolTyped'
    BY <1>8 DEF ToolTyped, Lose
  <2>. QED  BY <2>1, <2>2, <2>3 DEF TypesInv, BInv
<1>9. CASE Handled
  <2>1. BInv'
    BY <1>9, NextFiled DEF Handled
  <2>2. ToolTyped'
    BY <1>9 DEF ToolTyped, Handled
  <2>. QED  BY <2>1, <2>2 DEF TypesInv
<1>10. CASE UNCHANGED syncVars
  BY <1>10 DEF syncVars, vars, TypesInv, BInv, RowsFiled, RecordsOK, ToolTyped
<1>. QED
  BY <1>1, <1>2, <1>3, <1>4, <1>5, <1>6, <1>7, <1>8, <1>9, <1>10 DEF SyncNext, Sync

LEMMA TypesAlways == SyncSpec => []TypesInv
<1>1. SyncInit => TypesInv
  BY InitFiled DEF SyncInit, TypesInv, ToolTyped
<1>. QED  BY <1>1, TypesHold, PTL DEF SyncSpec

\* Rows, records and the tool keep their types, whatever the tool, the handlers and
\* the database do in turn (do_sync, _ensure_loadbalancer).
THEOREM SyncTypes == SyncSpec => []SyncTypeOK
<1>1. TypesInv => SyncTypeOK
  <2>. SUFFICES ASSUME TypesInv PROVE SyncTypeOK
    OBVIOUS
  <2>1. /\ oListener \in [Listener -> ListenerRecord]
        /\ oPool \in [Pool -> ChildRecord] /\ oMember \in [Member -> ChildRecord]
    BY OrBlank DEF TypesInv, BInv, RecordsOK
  <2>. QED
    BY <2>1 DEF TypesInv, BInv, RowsFiled, RecordsOK, ToolTyped, SyncTypeOK, TypeOK
<1>. QED  BY <1>1, TypesAlways, PTL

-----------------------------------------------------------------------------
(* What the tool has done so far                                           *)

KeyOf(p) == <<p, oPool[p].up>>

ListenerDone(l) == Exists(oListener[l]) /\ l \notin tool.listeners
PoolDone(p)     == Exists(oPool[p]) /\ p \notin tool.pools
MemberDone(m)   == Exists(oMember[m]) /\ PoolDone(PoolOf[m]) /\ m \notin tool.members

\* No member that is enabled is stored OFFLINE: the next refreshes will do.
Wanted(m) == oMember[m].up = TRUE /\ oPool[PoolOf[m]].up = TRUE
Fit(row)  == \A m \in Member : Wanted(m) => row.status[m] # "OFFLINE"
AllFit    == \A r \in live : Fit(rows[r])

\* Whom the tool must have served once it is through with row r.
Fine(r, m, l) == (runs > 0 /\ oLb.vipPort = TRUE) \/ <<r, m, l>> \in tool.kept

Serves(r) == \A m \in Member, l \in Listener :
                Due(m, l) /\ Fine(r, m, l) => m \in rows[r].vips[l]

KeptOK ==
    \A served \in tool.kept :
        /\ served[1] \in live
        /\ Due(served[2], served[3])
        /\ served[1] \in tool.todo \cup {tool.row} =>
              /\ rows[served[1]].enabled = TRUE
              /\ rows[served[1]].status[served[2]] # "OFFLINE"

Switched == oLb.vipPort = TRUE => rows[tool.row].enabled = oLb.up

ListenersIn ==
    \A l \in Listener : ListenerDone(l) /\ oListener[l].up = TRUE =>
        /\ <<l, TRUE>> \in rows[tool.row].listeners
        /\ \A p \in Pool : oListener[l].pool = p /\ oPool[p].up = TRUE =>
              rows[tool.row].refs[<<l, TRUE>>] = {<<p, TRUE>>}

PoolsIn ==
    /\ \A p \in Pool : PoolDone(p) => KeyOf(p) \in rows[tool.row].pools
    /\ \A m \in Member : MemberDone(m) =>
          /\ m \in rows[tool.row].members[KeyOf(PoolOf[m])]
          /\ rows[tool.row].status[m] = "NO_MONITOR"

MembersServed ==
    \A m \in Member, l \in Listener :
        /\ MemberDone(m) /\ ListenerDone(l)
        /\ Due(m, l) /\ Fine(tool.row, m, l)
        => m \in rows[tool.row].vips[l]

RowsBefore ==
    \A r \in live \ (tool.todo \cup {tool.row}) : Fit(rows[r]) /\ Serves(r)

AtRow ==
    /\ tool.row \in live /\ tool.todo \subseteq live \ {tool.row}
    /\ KeptOK
    /\ Switched /\ ListenersIn /\ PoolsIn /\ MembersServed
    /\ RowsBefore

SyncInv ==
    /\ TypesInv
    /\ tool.phase = "sync" => AtRow
    /\ tool.phase = "make" => runs = 0 /\ tool.kept = {} /\ live # {} /\ AllFit
    /\ runs > 0 => live # {} /\ AllFit
    /\ tool = Idle /\ runs = 2 /\ oLb.vipPort = TRUE =>
          \A r \in live, m \in Member, l \in Listener :
              Due(m, l) => m \in rows[r].vips[l]

LEMMA DueExists ==
    ASSUME BInv, NEW m \in Member
    PROVE  /\ Wanted(m) => Exists(oMember[m]) /\ Exists(oPool[PoolOf[m]])
           /\ \A l \in Listener : Due(m, l) => Wanted(m) /\ Exists(oListener[l])
<1>. PoolOf[m] \in Pool
  BY ConstantsAssumption
<1>1. oMember[m] \in ChildOrBlank /\ oPool[PoolOf[m]] \in ChildOrBlank
      /\ \A l \in Listener : oListener[l] \in ListenerOrBlank
  BY DEF BInv, RecordsOK
<1>2. \A x \in ChildOrBlank : x.up \in BOOLEAN /\ (x.up = TRUE => Exists(x))
  BY OrBlank DEF ChildRecord, AbsentChild
<1>3. \A x \in ListenerOrBlank : x.up \in BOOLEAN /\ (x.up = TRUE => Exists(x))
  BY OrBlank DEF ListenerRecord, AbsentListener
<1>. QED  BY <1>1, <1>2, <1>3 DEF Wanted, Due

LEMMA DueMeans ==
    ASSUME BInv, NEW m \in Member, NEW l \in Listener, Due(m, l)
    PROVE  /\ oLb.up = TRUE /\ oMember[m].up = TRUE /\ oPool[PoolOf[m]].up = TRUE
           /\ oListener[l].up = TRUE /\ oListener[l].pool = PoolOf[m]
           /\ KeyOf(PoolOf[m]) = <<PoolOf[m], TRUE>> /\ PoolOf[m] \in Pool
<1>1. PoolOf[m] \in Pool
  BY ConstantsAssumption
<1>2. /\ oLb.up \in BOOLEAN /\ oMember[m].up \in BOOLEAN
      /\ oPool[PoolOf[m]].up \in BOOLEAN /\ oListener[l].up \in BOOLEAN
  <2>1. oMember[m] \in ChildRecord /\ oPool[PoolOf[m]] \in ChildRecord
        /\ oListener[l] \in ListenerRecord /\ oLb \in LbRecord
    BY <1>1, OrBlank DEF BInv, RecordsOK
  <2>. QED  BY <2>1 DEF ChildRecord, ListenerRecord, LbRecord
<1>. QED  BY <1>1, <1>2 DEF Due, KeyOf

\* What _frame_vip_ips makes of a listener with a pool and an enabled member.
LEMMA DueFramed ==
    ASSUME NEW row, NEW m \in Member, NEW l \in Listener, NEW p \in Pool,
           row.enabled = TRUE, row.status[m] # "OFFLINE",
           <<l, TRUE>> \in row.listeners, <<p, TRUE>> \in row.pools,
           row.refs[<<l, TRUE>>] = {<<p, TRUE>>}, m \in row.members[<<p, TRUE>>]
    PROVE  m \in FrameVips(row)[l]
<1>1. <<p, TRUE>> \in PoolKey
  BY DEF PoolKey
<1>2. Routes(row, l, <<p, TRUE>>)
  BY DEF Routes
<1>. QED  BY <1>1, <1>2 DEF FrameVips

\* Enabled and not OFFLINE is the row for whom it must serve.
LEMMA FineMeans ==
    ASSUME SyncInv, tool.phase = "sync", NEW m \in Member, NEW l \in Listener,
           Due(m, l), Fine(tool.row, m, l)
    PROVE  rows[tool.row].enabled = TRUE /\ rows[tool.row].status[m] # "OFFLINE"
<1>1. AtRow /\ BInv
  BY DEF SyncInv, TypesInv
<1>2. CASE runs > 0 /\ oLb.vipPort = TRUE
  <2>1. rows[tool.row].enabled = TRUE
    BY <1>1, <1>2, DueMeans DEF AtRow, Switched
  <2>2. Fit(rows[tool.row]) /\ Wanted(m)
    BY <1>1, <1>2, DueExists DEF SyncInv, AllFit, AtRow
  <2>. QED  BY <2>1, <2>2 DEF Fit
<1>3. CASE <<tool.row, m, l>> \in tool.kept
  BY <1>1, <1>3 DEF AtRow, KeptOK
<1>. QED  BY <1>2, <1>3 DEF Fine

\* The row the tool is through with.
LEMMA RowDone ==
    ASSUME SyncInv, tool.phase = "sync", Done
    PROVE  Fit(rows[tool.row]) /\ Serves(tool.row)
<1>1. AtRow /\ BInv
  BY DEF SyncInv, TypesInv
<1>2. ASSUME NEW m \in Member, Wanted(m)
      PROVE  MemberDone(m)
  BY <1>1, <1>2, DueExists DEF MemberDone, PoolDone, Done
<1>3. Fit(rows[tool.row])
  BY <1>1, <1>2 DEF Fit, AtRow, PoolsIn
<1>4. ASSUME NEW m \in Member, NEW l \in Listener, Due(m, l), Fine(tool.row, m, l)
      PROVE  m \in rows[tool.row].vips[l]
  <2>1. MemberDone(m) /\ ListenerDone(l)
    BY <1>1, <1>2, <1>4, DueExists DEF ListenerDone, Done
  <2>. QED  BY <1>1, <1>4, <2>1 DEF AtRow, MembersServed
<1>. QED  BY <1>3, <1>4 DEF Serves

\* A step of the tool that leaves the row it is at as it should.
LEMMA RowStep ==
    ASSUME SyncInv, tool.phase = "sync", NEW row,
           rows' = [rows EXCEPT ![tool.row] = row],
           row.enabled = rows[tool.row].enabled,
           \A m \in Member : row.status[m] \in {rows[tool.row].status[m], "NO_MONITOR"},
           UNCHANGED <<live, oLb, oListener, oPool, oMember, runs>>,
           tool'.phase = "sync", tool'.row = tool.row, tool'.todo = tool.todo,
           tool'.kept = tool.kept,
           TypesInv', ListenersIn', PoolsIn', MembersServed'
    PROVE  SyncInv'
<1>1. AtRow /\ BInv /\ tool.row \in Row /\ rows \in [Row -> RowContents]
  BY LiveFiled DEF SyncInv, TypesInv, BInv, AtRow, RowsFiled
<1>2. \A r \in Row : rows'[r] = IF r = tool.row THEN row ELSE rows[r]
  BY <1>1
<1>3. live \subseteq Row
  BY <1>1 DEF BInv, RowsFiled
<1>4. ASSUME NEW r \in live, Fit(rows[r])
      PROVE  Fit(rows[r])'
  BY <1>2, <1>3, <1>4 DEF Fit, Wanted
<1>5. KeptOK'
  <2>1. ASSUME NEW served \in tool.kept
        PROVE  /\ served[1] \in live /\ Due(served[2], served[3])' /\ served[2] \in Member
               /\ served[1] \in tool.todo \cup {tool.row} =>
                     /\ rows'[served[1]].enabled = TRUE
                     /\ rows'[served[1]].status[served[2]] # "OFFLINE"
    <3>1. served[2] \in Member
      BY AtWork DEF SyncInv, TypesInv, Working
    <3>2. /\ served[1] \in live /\ Due(served[2], served[3])
          /\ served[1] \in tool.todo \cup {tool.row} =>
                     /\ rows[served[1]].enabled = TRUE
                     /\ rows[served[1]].status[served[2]] # "OFFLINE"
      BY <1>1 DEF AtRow, KeptOK
    <3>3. Due(served[2], served[3])'
      BY <3>2 DEF Due
    <3>. QED  BY <1>2, <1>3, <3>1, <3>2, <3>3
  <2>. QED  BY <2>1 DEF KeptOK
<1>6. Switched'
  BY <1>1, <1>2 DEF AtRow, Switched
<1>7. RowsBefore'
  <2>1. ASSUME NEW r \in live \ (tool.todo \cup {tool.row})
        PROVE  Fit(rows[r])' /\ Serves(r)'
    <3>1. Fit(rows[r]) /\ Serves(r)
      BY <1>1 DEF AtRow, RowsBefore
    <3>2. rows'[r] = rows[r]
      BY <1>2, <1>3
    <3>3. Serves(r)'
      BY <3>1, <3>2 DEF Serves, Due, Fine
    <3>. QED  BY <1>4, <3>1, <3>3
  <2>. QED  BY <2>1 DEF RowsBefore
<1>8. AtRow'
  BY <1>1, <1>5, <1>6, <1>7 DEF AtRow
<1>9. runs' > 0 => live' # {} /\ AllFit'
  BY <1>4 DEF SyncInv, AllFit
<1>10. tool' # Idle /\ tool'.phase # "make"
  BY DEF Idle
<1>. QED  BY <1>8, <1>9, <1>10 DEF SyncInv

LEMMA SyncListenerServes ==
    ASSUME SyncInv, NEW l \in Listener, SyncListener(l), TypesInv'
    PROVE  SyncInv'
<1>. DEFINE old == rows[tool.row]
            row == ListenerSync(old, l)
            key == <<l, oListener[l].up>>
<1>1. /\ tool.phase = "sync" /\ AtRow /\ BInv /\ tool \in Working
      /\ tool.row \in Row /\ Filed(old) /\ rows \in [Row -> RowContents]
  BY AtWork, CurrentFiled DEF SyncListener, SyncInv, TypesInv, BInv, RowsFiled
<1>2. /\ rows' = [rows EXCEPT ![tool.row] = row]
      /\ UNCHANGED <<live, oLb, oListener, oPool, oMember, runs>>
      /\ tool'.phase = "sync" /\ tool'.row = tool.row /\ tool'.todo = tool.todo
      /\ tool'.kept = tool.kept /\ tool'.pools = tool.pools
      /\ tool'.members = tool.members /\ tool'.listeners = tool.listeners \ {l}
  BY <1>1 DEF SyncListener, Working
<1>3. /\ row.enabled = old.enabled
      /\ row.listeners = old.listeners \cup {key}
      /\ row.refs = With(old.refs, key, RefOf(l))
      /\ row.pools = old.pools /\ row.members = old.members
      /\ row.status = old.status /\ row.vips = FrameVips(row)
  BY <1>1, ListenerSyncGives
<1>4. rows'[tool'.row] = row
  BY <1>1, <1>2
<1>5. old.refs \in [ListenerKey -> SUBSET PoolRef]
  BY <1>1 DEF Filed, RowContents
<1>6. ListenersIn /\ PoolsIn
  BY <1>1 DEF AtRow
<1>. HIDE DEF row, old
<1>7. ListenersIn'
  <2>1. ASSUME NEW k \in Listener, ListenerDone(k)', oListener[k].up = TRUE
        PROVE  /\ <<k, TRUE>> \in row.listeners
               /\ \A p \in Pool : oListener[k].pool = p /\ oPool[p].up = TRUE =>
                     row.refs[<<k, TRUE>>] = {<<p, TRUE>>}
    <3>1. <<k, TRUE>> \in ListenerKey
      BY DEF ListenerKey
    <3>2. CASE k = l
      <4>1. <<k, TRUE>> \in row.listeners /\ row.refs[<<k, TRUE>>] = RefOf(l)
        BY <1>3, <1>5, <2>1, <3>1, <3>2 DEF With
      <4>. QED  BY <3>2, <4>1, ConstantsAssumption DEF RefOf
    <3>3. CASE k # l
      <4>1. ListenerDone(k)
        BY <1>2, <2>1, <3>3 DEF ListenerDone, Exists
      <4>2. row.refs[<<k, TRUE>>] = old.refs[<<k, TRUE>>]
        BY <1>3, <1>5, <3>1, <3>3 DEF With
      <4>. QED  BY <1>3, <1>6, <2>1, <4>1, <4>2 DEF ListenersIn, old
    <3>. QED  BY <3>2, <3>3
  <2>. QED  BY <1>2, <1>4, <2>1 DEF ListenersIn
<1>8. PoolsIn'
  <2>1. \A p \in Pool : PoolDone(p)' = PoolDone(p) /\ KeyOf(p)' = KeyOf(p)
    BY <1>2 DEF PoolDone, KeyOf, Exists
  <2>2. \A m \in Member : MemberDone(m)' = MemberDone(m)
    BY <1>2 DEF MemberDone, PoolDone, Exists
  <2>3. \A m \in Member : PoolOf[m] \in Pool
    BY ConstantsAssumption
  <2>. QED  BY <1>3, <1>4, <1>6, <2>1, <2>2, <2>3 DEF PoolsIn, old
<1>9. MembersServed'
  <2>1. ASSUME NEW m \in Member, NEW k \in Listener, MemberDone(m)', ListenerDone(k)',
               Due(m, k)', Fine(tool.row, m, k)'
        PROVE  m \in rows'[tool'.row].vips[k]
    <3>1. Due(m, k) /\ Fine(tool.row, m, k)
      BY <1>2, <2>1 DEF Due, Fine
    <3>2. row.enabled = TRUE /\ row.status[m] # "OFFLINE"
      BY <1>1, <1>3, <3>1, FineMeans DEF old
    <3>3. /\ oListener[k].up = TRUE /\ oListener[k].pool = PoolOf[m]
          /\ oPool[PoolOf[m]].up = TRUE /\ PoolOf[m] \in Pool
          /\ KeyOf(PoolOf[m]) = <<PoolOf[m], TRUE>>
      BY <1>1, <3>1, DueMeans
    <3>4. /\ <<k, TRUE>> \in row.listeners
          /\ row.refs[<<k, TRUE>>] = {<<PoolOf[m], TRUE>>}
      BY <1>2, <1>4, <1>7, <2>1, <3>3 DEF ListenersIn
    <3>5. KeyOf(PoolOf[m])' = KeyOf(PoolOf[m])
      BY <1>2 DEF KeyOf
    <3>6. PoolDone(PoolOf[m])'
      BY <2>1 DEF MemberDone
    <3>7. <<PoolOf[m], TRUE>> \in row.pools /\ m \in row.members[<<PoolOf[m], TRUE>>]
      BY <1>4, <1>8, <2>1, <3>3, <3>5, <3>6 DEF PoolsIn
    <3>8. m \in FrameVips(row)[k]
      BY <3>2, <3>3, <3>4, <3>7, DueFramed
    <3>. QED  BY <1>3, <1>4, <3>8
  <2>. QED  BY <1>2, <2>1 DEF MembersServed
<1>10. \A m \in Member : row.status[m] \in {rows[tool.row].status[m], "NO_MONITOR"}
  BY <1>3 DEF old
<1>. QED  BY <1>1, <1>2, <1>3, <1>7, <1>8, <1>9, <1>10, RowStep DEF old

LEMMA SyncPoolServes ==
    ASSUME SyncInv, NEW p \in Pool, SyncPool(p), TypesInv'
    PROVE  SyncInv'
<1>. DEFINE old == rows[tool.row]
            ends == {<<p, TRUE>>, <<p, FALSE>>}
            key == KeyOf(p)
<1>1. /\ tool.phase = "sync" /\ AtRow /\ BInv /\ tool \in Working
      /\ tool.row \in Row /\ Filed(old) /\ rows \in [Row -> RowContents]
      /\ tool.members = {}
  BY AtWork, CurrentFiled DEF SyncPool, SyncInv, TypesInv, BInv, RowsFiled
<1>2. PICK named \in NamedFor(p) :
         rows' = [rows EXCEPT ![tool.row] = PoolSync(old, p, named)]
  BY DEF SyncPool
<1>. DEFINE row == PoolSync(old, p, named)
<1>3. /\ rows' = [rows EXCEPT ![tool.row] = row]
      /\ UNCHANGED <<live, oLb, oListener, oPool, oMember, runs>>
      /\ tool'.phase = "sync" /\ tool'.row = tool.row /\ tool'.todo = tool.todo
      /\ tool'.kept = tool.kept /\ tool'.pools = tool.pools \ {p}
      /\ tool'.members = MembersOf(p) /\ tool'.listeners = tool.listeners
  BY <1>1, <1>2 DEF SyncPool, Working
<1>4. /\ row.enabled = old.enabled
      /\ row.listeners = old.listeners
      /\ \/ row.refs = old.refs
         \/ /\ named \in Listener /\ oListener[named].pool = p
            /\ <<named, TRUE>> \in old.listeners
            /\ row.refs = With(old.refs, <<named, TRUE>>,
                               (old.refs[<<named, TRUE>>] \ ends) \cup {key})
      /\ row.pools = old.pools \cup {key}
      /\ row.members = With(old.members, key, {})
      /\ row.status = old.status /\ row.vips = old.vips
  <2>. HIDE DEF old, row
  <2>1. PoolSynced(PoolSync(old, p, named), old, p, named)
    BY <1>1, <1>2, PoolSyncGives
  <2>. QED  BY <2>1 DEF KeyOf, row, PoolSynced
<1>5. rows'[tool'.row] = row
  BY <1>1, <1>3
<1>6. old.refs \in [ListenerKey -> SUBSET PoolRef] /\ old.members \in [PoolKey -> SUBSET Member]
  BY <1>1 DEF Filed, RowContents
<1>7. ListenersIn /\ PoolsIn /\ MembersServed
  BY <1>1 DEF AtRow
<1>8. ASSUME NEW m \in Member, MemberDone(m)'
      PROVE  MemberDone(m) /\ PoolOf[m] # p
  BY <1>3, <1>8 DEF MemberDone, PoolDone, Exists, MembersOf, SyncPool
<1>. HIDE DEF row, old
<1>9. ListenersIn'
  <2>1. ASSUME NEW k \in Listener, ListenerDone(k)', oListener[k].up = TRUE
        PROVE  /\ <<k, TRUE>> \in row.listeners
               /\ \A q \in Pool : oListener[k].pool = q /\ oPool[q].up = TRUE =>
                     row.refs[<<k, TRUE>>] = {<<q, TRUE>>}
    <3>1. <<k, TRUE>> \in ListenerKey
      BY DEF ListenerKey
    <3>2. ListenerDone(k)
      BY <1>3, <2>1 DEF ListenerDone, Exists
    <3>3. /\ <<k, TRUE>> \in old.listeners
          /\ \A q \in Pool : oListener[k].pool = q /\ oPool[q].up = TRUE =>
                old.refs[<<k, TRUE>>] = {<<q, TRUE>>}
      BY <1>7, <2>1, <3>2 DEF ListenersIn, old
    <3>4. ASSUME NEW q \in Pool, oListener[k].pool = q, oPool[q].up = TRUE
          PROVE  row.refs[<<k, TRUE>>] = {<<q, TRUE>>}
      <4>1. old.refs[<<k, TRUE>>] = {<<q, TRUE>>}
        BY <3>3, <3>4
      <4>2. CASE row.refs = old.refs
        BY <4>1, <4>2
      <4>3. CASE /\ named \in Listener /\ oListener[named].pool = p
                 /\ row.refs = With(old.refs, <<named, TRUE>>,
                                    (old.refs[<<named, TRUE>>] \ ends) \cup {key})
        <5>1. CASE k = named
          <6>1. q = p /\ key = <<p, TRUE>>
            BY <3>4, <4>3, <5>1 DEF KeyOf
          <6>2. ({<<p, TRUE>>} \ ends) \cup {<<p, TRUE>>} = {<<p, TRUE>>}
            OBVIOUS
          <6>. HIDE DEF ends
          <6>. QED  BY <1>6, <3>1, <4>1, <4>3, <5>1, <6>1, <6>2 DEF With
        <5>2. CASE k # named
          <6>. HIDE DEF ends, key
          <6>. QED  BY <1>6, <3>1, <4>1, <4>3, <5>2 DEF With
        <5>. QED  BY <5>1, <5>2
      <4>. QED  BY <1>4, <4>2, <4>3
    <3>. QED  BY <1>4, <3>3, <3>4
  <2>. QED  BY <1>3, <1>5, <2>1 DEF ListenersIn
<1>10. PoolsIn'
  <2>1. ASSUME NEW q \in Pool, PoolDone(q)'
        PROVE  KeyOf(q)' \in row.pools
    <3>1. KeyOf(q)' = KeyOf(q)
      BY <1>3 DEF KeyOf
    <3>2. CASE q = p
      BY <1>4, <3>1, <3>2
    <3>3. CASE q # p
      <4>1. PoolDone(q)
        BY <1>3, <2>1, <3>3 DEF PoolDone, Exists
      <4>. QED  BY <1>4, <1>7, <3>1, <4>1 DEF PoolsIn, old
    <3>. QED  BY <3>2, <3>3
  <2>2. ASSUME NEW m \in Member, MemberDone(m)'
        PROVE  m \in row.members[KeyOf(PoolOf[m])'] /\ row.status[m] = "NO_MONITOR"
    <3>1. MemberDone(m) /\ PoolOf[m] # p /\ PoolOf[m] \in Pool
      BY <1>8, <2>2, ConstantsAssumption
    <3>2. KeyOf(PoolOf[m])' = KeyOf(PoolOf[m]) /\ KeyOf(PoolOf[m]) # key
          /\ KeyOf(PoolOf[m]) \in PoolKey
      BY <1>1, <1>3, <3>1, PoolKeyType DEF KeyOf
    <3>3. row.members[KeyOf(PoolOf[m])] = old.members[KeyOf(PoolOf[m])]
      <4>. HIDE DEF key
      <4>. QED  BY <1>4, <1>6, <3>2 DEF With
    <3>. QED  BY <1>4, <1>7, <3>1, <3>2, <3>3 DEF PoolsIn, old
  <2>. QED  BY <1>5, <2>1, <2>2 DEF PoolsIn
<1>11. MembersServed'
  <2>1. ASSUME NEW m \in Member, NEW k \in Listener, MemberDone(m)', ListenerDone(k)',
               Due(m, k)', Fine(tool.row, m, k)'
        PROVE  m \in rows'[tool'.row].vips[k]
    <3>1. Due(m, k) /\ Fine(tool.row, m, k) /\ ListenerDone(k) /\ MemberDone(m)
      BY <1>3, <1>8, <2>1 DEF Due, Fine, ListenerDone, Exists
    <3>. QED  BY <1>4, <1>5, <1>7, <3>1 DEF MembersServed, old
  <2>. QED  BY <1>3, <2>1 DEF MembersServed
<1>12. \A m \in Member : row.status[m] \in {rows[tool.row].status[m], "NO_MONITOR"}
  BY <1>4 DEF old
<1>. QED  BY <1>1, <1>3, <1>4, <1>9, <1>10, <1>11, <1>12, RowStep DEF old

LEMMA SyncMemberServes ==
    ASSUME SyncInv, NEW m \in Member, SyncMember(m), TypesInv'
    PROVE  SyncInv'
<1>. DEFINE old == rows[tool.row]
            row == MemberSync(old, m)
            key == KeyOf(PoolOf[m])
            joined == PutPool(old, key, old.members[key] \cup {m})
<1>1. /\ tool.phase = "sync" /\ AtRow /\ BInv /\ tool \in Working
      /\ tool.row \in Row /\ Filed(old) /\ rows \in [Row -> RowContents]
      /\ PoolOf[m] \in Pool
  BY AtWork, CurrentFiled, ConstantsAssumption
     DEF SyncMember, SyncInv, TypesInv, BInv, RowsFiled
<1>2. /\ rows' = [rows EXCEPT ![tool.row] = row]
      /\ UNCHANGED <<live, oLb, oListener, oPool, oMember, runs>>
      /\ tool'.phase = "sync" /\ tool'.row = tool.row /\ tool'.todo = tool.todo
      /\ tool'.kept = tool.kept /\ tool'.pools = tool.pools
      /\ tool'.members = tool.members \ {m} /\ tool'.listeners = tool.listeners
  BY <1>1 DEF SyncMember, Working
<1>3. /\ row.enabled = old.enabled
      /\ row.listeners = old.listeners /\ row.refs = old.refs
      /\ row.pools = old.pools \cup {key}
      /\ row.members = With(old.members, key, old.members[key] \cup {m})
      /\ row.status = With(old.status, m, "NO_MONITOR")
      /\ joined.enabled = old.enabled
      /\ joined.listeners = old.listeners /\ joined.refs = old.refs
      /\ joined.pools = row.pools /\ joined.members = row.members
      /\ joined.status = old.status
      /\ row.vips = IF oMember[m].up THEN FrameVips(joined) ELSE old.vips
  <2>. HIDE DEF old
  <2>. QED  BY <1>1, MemberSyncGives DEF KeyOf
<1>4. rows'[tool'.row] = row
  BY <1>1, <1>2
<1>5. /\ old.members \in [PoolKey -> SUBSET Member]
      /\ old.status \in [Member -> MemberStatus] /\ key \in PoolKey
  BY <1>1, PoolKeyType DEF Filed, RowContents, KeyOf
<1>6. ListenersIn /\ PoolsIn /\ MembersServed
  BY <1>1 DEF AtRow
<1>7. \A k \in Member : MemberDone(k)' => k = m \/ MemberDone(k)
  BY <1>2 DEF MemberDone, PoolDone, Exists
<1>8. \A k \in Member : MemberDone(k)' => PoolDone(PoolOf[k])
  BY <1>2 DEF MemberDone, PoolDone, Exists
<1>. HIDE DEF row, old, joined, key
<1>9. ListenersIn'
  <2>1. \A l \in Listener : ListenerDone(l)' = ListenerDone(l)
    BY <1>2 DEF ListenerDone, Exists
  <2>2. ASSUME NEW l \in Listener, ListenerDone(l), oListener[l].up = TRUE
        PROVE  /\ <<l, TRUE>> \in row.listeners
               /\ \A p \in Pool : oListener[l].pool = p /\ oPool[p].up = TRUE =>
                     row.refs[<<l, TRUE>>] = {<<p, TRUE>>}
    BY <1>3, <1>6, <2>2 DEF ListenersIn, old
  <2>. QED  BY <1>2, <1>4, <2>1, <2>2 DEF ListenersIn
<1>10. ASSUME NEW k \in Member, MemberDone(k)'
       PROVE  /\ k \in row.members[KeyOf(PoolOf[k])] /\ row.status[k] = "NO_MONITOR"
              /\ KeyOf(PoolOf[k]) \in row.pools
  <2>0. PoolOf[k] \in Pool /\ KeyOf(PoolOf[k]) \in PoolKey
    BY <1>1, PoolKeyType, ConstantsAssumption DEF KeyOf
  <2>1. KeyOf(PoolOf[k]) \in row.pools
    BY <1>3, <1>6, <1>8, <1>10, <2>0 DEF PoolsIn, old
  <2>2. CASE k = m
    <3>1. row.members[key] = old.members[key] \cup {m} /\ row.status[m] = "NO_MONITOR"
      BY <1>3, <1>5 DEF With
    <3>. QED  BY <2>1, <2>2, <3>1 DEF key
  <2>3. CASE k # m
    <3>1. MemberDone(k)
      BY <1>7, <1>10, <2>3
    <3>2. k \in old.members[KeyOf(PoolOf[k])] /\ old.status[k] = "NO_MONITOR"
      BY <1>6, <3>1 DEF PoolsIn, old
    <3>. QED  BY <1>3, <1>5, <2>0, <2>1, <2>3, <3>2 DEF With
  <2>. QED  BY <2>2, <2>3
<1>11. PoolsIn'
  <2>1. \A p \in Pool : PoolDone(p)' = PoolDone(p) /\ KeyOf(p)' = KeyOf(p)
    BY <1>2 DEF PoolDone, KeyOf, Exists
  <2>2. \A k \in Member : PoolOf[k] \in Pool
    BY ConstantsAssumption
  <2>3. \A p \in Pool : PoolDone(p) => KeyOf(p) \in row.pools
    BY <1>3, <1>6 DEF PoolsIn, old
  <2>. QED  BY <1>4, <1>10, <2>1, <2>2, <2>3 DEF PoolsIn
<1>12. MembersServed'
  <2>1. ASSUME NEW k \in Member, NEW l \in Listener, MemberDone(k)', ListenerDone(l)',
               Due(k, l)', Fine(tool.row, k, l)'
        PROVE  k \in rows'[tool'.row].vips[l]
    <3>1. Due(k, l) /\ Fine(tool.row, k, l) /\ ListenerDone(l)
      BY <1>2, <2>1 DEF Due, Fine, ListenerDone, Exists
    <3>2. old.enabled = TRUE /\ old.status[k] # "OFFLINE"
      BY <1>1, <3>1, FineMeans DEF old
    <3>3. /\ oListener[l].up = TRUE /\ oListener[l].pool = PoolOf[k]
          /\ oPool[PoolOf[k]].up = TRUE /\ PoolOf[k] \in Pool
          /\ KeyOf(PoolOf[k]) = <<PoolOf[k], TRUE>> /\ oMember[k].up = TRUE
      BY <1>1, <3>1, DueMeans
    <3>4. CASE oMember[m].up = TRUE
      <4>1. /\ <<l, TRUE>> \in old.listeners
            /\ old.refs[<<l, TRUE>>] = {<<PoolOf[k], TRUE>>}
        BY <1>6, <3>1, <3>3 DEF ListenersIn, old
      <4>2. k \in row.members[<<PoolOf[k], TRUE>>] /\ <<PoolOf[k], TRUE>> \in row.pools
        BY <1>10, <2>1, <3>3
      <4>3. k \in FrameVips(joined)[l]
        BY <1>3, <3>2, <3>3, <4>1, <4>2, DueFramed
      <4>. QED  BY <1>3, <1>4, <3>4, <4>3
    <3>5. CASE oMember[m].up # TRUE
      <4>1. k # m
        BY <3>3, <3>5
      <4>2. MemberDone(k)
        BY <1>7, <2>1, <4>1
      <4>3. k \in old.vips[l]
        BY <1>6, <3>1, <4>2 DEF MembersServed, old
      <4>4. oMember[m].up = FALSE
        <5>1. oMember[m] \in ChildRecord
          BY <1>1, OrBlank DEF BInv, RecordsOK
        <5>. QED  BY <3>5, <5>1 DEF ChildRecord
      <4>. QED  BY <1>3, <1>4, <4>3, <4>4
    <3>. QED  BY <3>4, <3>5
  <2>. QED  BY <1>2, <2>1 DEF MembersServed
<1>13. \A k \in Member : row.status[k] \in {rows[tool.row].status[k], "NO_MONITOR"}
  BY <1>3, <1>5 DEF old, With
<1>. QED  BY <1>1, <1>2, <1>3, <1>9, <1>11, <1>12, <1>13, RowStep DEF old

\* The records still say the same of what exists and is to be served.
SameSaid ==
    /\ oLb'.up = oLb.up /\ oLb'.vipPort = oLb.vipPort
    /\ \A l \in Listener : /\ Exists(oListener[l])' = Exists(oListener[l])
                            /\ oListener'[l].up = oListener[l].up
                            /\ oListener'[l].pool = oListener[l].pool
    /\ \A p \in Pool : /\ Exists(oPool[p])' = Exists(oPool[p])
                        /\ oPool'[p].up = oPool[p].up
    /\ \A m \in Member : /\ Exists(oMember[m])' = Exists(oMember[m])
                          /\ oMember'[m].up = oMember[m].up

\* What was kept, with the rows still to come to, and what is served by the others.
KeptSoFar(todo, kept) ==
    \A served \in kept :
        /\ Due(served[2], served[3])
        /\ served[1] \in todo => /\ rows[served[1]].enabled = TRUE
                                 /\ rows[served[1]].status[served[2]] # "OFFLINE"

ServedSoFar(todo, kept) ==
    \A s \in live \ todo :
        /\ Fit(rows[s])
        /\ \A m \in Member, l \in Listener :
              Due(m, l) /\ ((runs > 0 /\ oLb.vipPort = TRUE) \/ <<s, m, l>> \in kept)
                  => m \in rows[s].vips[l]

\* The tool comes to the first row, or the next one.
LEMMA EntersServes ==
    ASSUME BInv, TypesInv', NEW r \in live, NEW todo \in SUBSET (live \ {r}),
           NEW kept \in SUBSET (live \X Member \X Listener),
           SyncRow(r, todo, kept), live' = live, runs' = runs, SameSaid,
           KeptSoFar(todo \cup {r}, kept), ServedSoFar(todo \cup {r}, kept),
           runs > 0 => AllFit
    PROVE  SyncInv'
<1>0. /\ oLb'.up = oLb.up /\ oLb'.vipPort = oLb.vipPort
      /\ \A l \in Listener : oListener'[l].up = oListener[l].up
                              /\ oListener'[l].pool = oListener[l].pool
      /\ \A p \in Pool : oPool'[p].up = oPool[p].up
      /\ \A m \in Member : oMember'[m].up = oMember[m].up
  BY DEF SameSaid
<1>1. /\ rows' = [rows EXCEPT ![r] = LbSync(rows[r])]
      /\ tool' = [phase |-> "sync", row |-> r, todo |-> todo,
                  listeners |-> {l \in Listener : Exists(oListener[l])},
                  pools |-> {p \in Pool : Exists(oPool[p])},
                  members |-> {}, kept |-> kept]
  BY DEF SyncRow, Enters
<1>2. live \subseteq Row /\ rows \in [Row -> RowContents] /\ Filed(rows[r])
  BY DEF BInv, RowsFiled
<1>3. /\ oLb.vipPort => LbSync(rows[r]).enabled = oLb.up
      /\ oLb.up /\ rows[r].enabled => LbSync(rows[r]).enabled
      /\ LbSync(rows[r]).status = rows[r].status /\ LbSync(rows[r]).enabled \in BOOLEAN
      /\ rows[r].enabled \in BOOLEAN
  <2>. DEFINE row == LbSync(rows[r])
  <2>1. /\ Filed(row)
        /\ oLb.vipPort => row.enabled = oLb.up
        /\ oLb.up /\ rows[r].enabled => row.enabled
        /\ row.status = rows[r].status
    BY <1>2, LbSyncGives
  <2>. HIDE DEF row
  <2>2. row.enabled \in BOOLEAN /\ rows[r].enabled \in BOOLEAN
    BY <1>2, <2>1 DEF Filed, RowContents
  <2>. QED  BY <2>1, <2>2 DEF row
<1>4. \A s \in Row : rows'[s] = IF s = r THEN LbSync(rows[r]) ELSE rows[s]
  BY <1>1, <1>2
<1>5. \A m \in Member : PoolOf[m] \in Pool
  BY ConstantsAssumption
<1>6. \A m \in Member, l \in Listener : Due(m, l)' <=> Due(m, l)
  BY <1>0, <1>5 DEF Due
<1>7. ASSUME NEW s \in live, Fit(rows[s])
      PROVE  Fit(rows[s])'
  BY <1>0, <1>2, <1>3, <1>4, <1>5, <1>7 DEF Fit, Wanted
<1>8. KeptOK'
  <2>1. ASSUME NEW served \in kept
        PROVE  /\ served[1] \in live /\ Due(served[2], served[3])'
               /\ served[1] \in todo \cup {r} =>
                     /\ rows'[served[1]].enabled = TRUE
                     /\ rows'[served[1]].status[served[2]] # "OFFLINE"
    <3>1. served[1] \in live /\ served[2] \in Member /\ served[3] \in Listener
      OBVIOUS
    <3>2. Due(served[2], served[3]) /\ oLb.up = TRUE
      BY <3>1, DueMeans DEF KeptSoFar
    <3>3. Due(served[2], served[3])'
      BY <1>6, <3>1, <3>2
    <3>4. ASSUME served[1] \in todo \cup {r}
          PROVE  /\ rows'[served[1]].enabled = TRUE
                 /\ rows'[served[1]].status[served[2]] # "OFFLINE"
      <4>1. /\ rows[served[1]].enabled = TRUE
            /\ rows[served[1]].status[served[2]] # "OFFLINE"
        BY <3>4 DEF KeptSoFar
      <4>2. CASE served[1] = r
        BY <1>2, <1>3, <1>4, <3>2, <4>1, <4>2
      <4>3. CASE served[1] # r
        BY <1>2, <1>4, <3>1, <4>1, <4>3
      <4>. QED  BY <4>2, <4>3
    <3>. QED  BY <3>1, <3>3, <3>4
  <2>. QED  BY <1>1, <2>1 DEF KeptOK
<1>9. Switched'
  BY <1>0, <1>1, <1>2, <1>3, <1>4 DEF Switched
<1>10. \A l \in Listener : ~ListenerDone(l)'
  BY <1>1 DEF ListenerDone, SameSaid, Exists
<1>11. \A p \in Pool : ~PoolDone(p)'
  BY <1>1 DEF PoolDone, SameSaid, Exists
<1>12. \A m \in Member : ~MemberDone(m)'
  BY <1>5, <1>11 DEF MemberDone
<1>13. ListenersIn' /\ PoolsIn' /\ MembersServed'
  BY <1>10, <1>11, <1>12 DEF ListenersIn, PoolsIn, MembersServed
<1>14. RowsBefore'
  <2>1. ASSUME NEW s \in live \ (todo \cup {r})
        PROVE  Fit(rows[s])' /\ Serves(s)'
    <3>1. Fit(rows[s])'
      BY <1>7 DEF ServedSoFar
    <3>2. rows'[s] = rows[s]
      BY <1>2, <1>4
    <3>3. Serves(s)'
      BY <1>0, <1>1, <1>6, <3>2 DEF Serves, Fine, ServedSoFar
    <3>. QED  BY <3>1, <3>3
  <2>. QED  BY <1>1, <2>1 DEF RowsBefore
<1>15. AtRow'
  BY <1>1, <1>8, <1>9, <1>13, <1>14 DEF AtRow
<1>16. runs' > 0 => live' # {} /\ AllFit'
  BY <1>7 DEF AllFit
<1>17. tool' # Idle /\ tool'.phase = "sync"
  BY <1>1 DEF Idle
<1>. QED  BY <1>15, <1>16, <1>17 DEF SyncInv

LEMMA BeginServes ==
    ASSUME SyncInv, Begin, TypesInv'
    PROVE  SyncInv'
<1>1. BInv /\ (runs > 0 => AllFit) /\ live \subseteq Row /\ rows \in [Row -> RowContents]
  BY DEF SyncInv, TypesInv, BInv, RowsFiled
<1>2. PICK r \in live : SyncRow(r, live \ {r}, Owed)
  BY DEF Begin
<1>3. Owed \in SUBSET (live \X Member \X Listener)
  BY DEF Owed
<1>4. ASSUME NEW served \in Owed
      PROVE  /\ Due(served[2], served[3])
             /\ rows[served[1]].enabled = TRUE
             /\ rows[served[1]].status[served[2]] # "OFFLINE"
  <2>1. /\ served[1] \in live /\ served[2] \in Member /\ served[3] \in Listener
        /\ Due(served[2], served[3])
        /\ served[2] \in FrameVips(rows[served[1]])[served[3]]
    BY DEF Owed
  <2>2. rows[served[1]].enabled \in BOOLEAN
    BY <1>1, <2>1 DEF RowContents
  <2>. QED  BY <2>1, <2>2 DEF FrameVips
<1>5. UNCHANGED <<live, oLb, oListener, oPool, oMember, runs>>
  BY DEF Begin
<1>6. /\ live \ {r} \in SUBSET (live \ {r}) /\ live \ ((live \ {r}) \cup {r}) = {}
      /\ live' = live /\ runs' = runs
  BY <1>5
<1>7. SameSaid
  BY <1>5 DEF SameSaid, Exists
<1>8. KeptSoFar((live \ {r}) \cup {r}, Owed)
  BY <1>4 DEF KeptSoFar
<1>9. ServedSoFar((live \ {r}) \cup {r}, Owed)
  BY <1>6 DEF ServedSoFar
<1>10. Owed = Owed /\ SyncRow(r, live \ {r}, Owed)
  BY <1>2
<1>. HIDE DEF SyncInv
<1>. QED  BY <1>1, <1>3, <1>6, <1>7, <1>8, <1>9, <1>10, EntersServes

LEMMA IdleServes ==
    ASSUME TypesInv', tool' = Idle, runs' = 0
    PROVE  SyncInv'
BY DEF SyncInv, Idle

LEMMA EndRowServes ==
    ASSUME SyncInv, EndRow, TypesInv'
    PROVE  SyncInv'
<1>1. /\ tool.phase = "sync" /\ AtRow /\ BInv /\ tool \in Working /\ runs \in 0..2
      /\ (runs > 0 => AllFit)
  BY AtWork DEF EndRow, SyncInv, TypesInv, ToolTyped
<1>2. Fit(rows[tool.row]) /\ Serves(tool.row)
  BY <1>1, RowDone DEF EndRow
<1>3. \A r \in live \ tool.todo : Fit(rows[r]) /\ Serves(r)
  BY <1>1, <1>2 DEF AtRow, RowsBefore
<1>4. ASSUME tool.todo = {}, Ends(More), UNCHANGED <<live, rows>>,
             oLb'.up = oLb.up, oLb'.vipPort = oLb.vipPort,
             \A l \in Listener : oListener'[l].up = oListener[l].up
                                 /\ oListener'[l].pool = oListener[l].pool,
             \A p \in Pool : oPool'[p].up = oPool[p].up,
             \A m \in Member : oMember'[m].up = oMember[m].up
      PROVE  SyncInv'
  <2>1. \A m \in Member : PoolOf[m] \in Pool
    BY ConstantsAssumption
  <2>2. AllFit'
    BY <1>3, <1>4, <2>1 DEF AllFit, Fit, Wanted
  <2>3. live' # {} /\ tool' = Idle /\ tool'.phase = "idle"
    BY <1>1, <1>4 DEF AtRow, Ends, Idle
  <2>4. ASSUME runs' = 2, oLb'.vipPort = TRUE, NEW r \in live,
               NEW m \in Member, NEW l \in Listener, Due(m, l)'
        PROVE  m \in rows'[r].vips[l]
    <3>1. runs > 0
      BY <1>1, <1>4, <2>4 DEF Ends, More
    <3>2. Due(m, l)
      BY <1>4, <2>1, <2>4 DEF Due
    <3>3. Fine(r, m, l)
      BY <1>4, <2>4, <3>1 DEF Fine
    <3>. QED  BY <1>3, <1>4, <3>2, <3>3 DEF Serves
  <2>. QED  BY <1>4, <2>2, <2>3, <2>4 DEF SyncInv
<1>5. CASE Ends(IF tool.todo = {} THEN More ELSE 0) /\ UNCHANGED vars
  <2>1. CASE tool.todo = {}
    BY <1>4, <1>5, <2>1 DEF vars
  <2>2. CASE tool.todo # {}
    BY <1>5, <2>2, IdleServes DEF Ends
  <2>. QED  BY <2>1, <2>2
<1>6. CASE AllReported /\ tool.todo = {} /\ Ends(More) /\ UNCHANGED <<live, rows>>
  BY <1>1, <1>4, <1>6, ReportedSame DEF BInv
<1>7. ASSUME NEW r \in tool.todo, AllReported, UNCHANGED <<live, runs>>,
             SyncRow(r, tool.todo \ {r}, tool.kept)
      PROVE  SyncInv'
  <2>. DEFINE todo == tool.todo \ {r}
              kept == tool.kept
  <2>1. r \in live /\ todo \in SUBSET (live \ {r}) /\ todo \cup {r} = tool.todo
    BY <1>1 DEF AtRow
  <2>2. kept \in SUBSET (live \X Member \X Listener)
    <3>1. kept \in SUBSET (Row \X Member \X Listener) /\ \A served \in kept : served[1] \in live
      BY <1>1 DEF AtRow, KeptOK, Working
    <3>. QED  BY <3>1
  <2>3. KeptSoFar(tool.todo, kept)
    BY <1>1 DEF AtRow, KeptOK, KeptSoFar
  <2>4. ServedSoFar(tool.todo, kept)
    BY <1>3 DEF Serves, Fine, ServedSoFar
  <2>5. SyncRow(r, todo, kept) /\ live' = live /\ runs' = runs
    BY <1>7
  <2>6. SameSaid
    BY <1>1, <1>7, ReportedSame DEF BInv, SameSaid
  <2>. HIDE DEF todo, kept
  <2>. QED  BY <1>1, <2>1, <2>2, <2>3, <2>4, <2>5, <2>6, EntersServes
<1>. QED  BY <1>5, <1>6, <1>7 DEF EndRow

\* What the make phase keeps of statuses.
LEMMA MakeStep ==
    ASSUME SyncInv, tool.phase = "make", TypesInv', NEW r \in Row, NEW row \in RowContents,
           Put(r, row), UNCHANGED <<oPool, oMember>>,
           Fit(row), runs' = 0,
           tool' = Idle \/ (tool'.phase = "make" /\ tool'.kept = tool.kept)
    PROVE  SyncInv'
<1>1. tool.kept = {} /\ AllFit /\ rows \in [Row -> RowContents] /\ live \subseteq Row
  BY DEF SyncInv, TypesInv, BInv, RowsFiled
<1>2. CASE tool' = Idle
  BY <1>2, IdleServes
<1>3. CASE tool'.phase = "make" /\ tool'.kept = tool.kept
  <2>1. live' = live \cup {r} /\ \A s \in live' : rows'[s] = row \/ (s \in live /\ rows'[s] = rows[s])
    BY <1>1 DEF Put
  <2>2. AllFit' /\ live' # {}
    BY <1>1, <2>1 DEF AllFit, Fit, Wanted
  <2>3. tool' # Idle
    BY <1>3 DEF Idle
  <2>. QED  BY <1>1, <1>3, <2>2, <2>3 DEF SyncInv
<1>. QED  BY <1>2, <1>3

LEMMA NewRowFit == \A proto, up : Fit(NewRow(proto, up))
BY DEF Fit, NewRow

LEMMA ObtainFit ==
    ASSUME BInv, AllFit, NEW proto \in Protocol, NEW up \in BOOLEAN,
           NEW o \in Obtain(proto, up)
    PROVE  Fit(o.row)
<1>1. \/ o.id \in live /\ o.row.status = rows[o.id].status
      \/ o.row = NewRow(proto, up)
  BY ObtainFiled
<1>. QED  BY <1>1, NewRowFit DEF AllFit, Fit

LEMMA MakeServes ==
    ASSUME SyncInv, Make, TypesInv'
    PROVE  SyncInv'
<1>1. PICK r \in Row : Put(r, NewRow(NoProtocol, oLb.up)) /\ Enters("make", r, {}, {})
  BY DEF Make
<1>2. tool'.phase = "make" /\ tool'.kept = {} /\ tool' # Idle
  BY <1>1 DEF Enters, Idle
<1>3. rows \in [Row -> RowContents] /\ live = {} /\ runs' = runs /\ (runs > 0 => live # {})
      /\ runs \in 0..2
  BY DEF SyncInv, TypesInv, BInv, RowsFiled, Make, ToolTyped
<1>4. live' = {r} /\ rows'[r] = NewRow(NoProtocol, oLb.up)
  BY <1>1, <1>3 DEF Put
<1>5. AllFit'
  BY <1>4, NewRowFit DEF AllFit, Fit, NewRow
<1>6. runs' = 0
  BY <1>3
<1>. QED  BY <1>2, <1>4, <1>5, <1>6 DEF SyncInv

LEMMA MakeListenerServes ==
    ASSUME SyncInv, NEW l \in Listener, MakeListener(l), TypesInv'
    PROVE  SyncInv'
<1>1. BInv /\ ToolTyped /\ AllFit /\ tool.phase = "make" /\ tool \in Working /\ runs = 0
  BY AtWork DEF SyncInv, TypesInv, MakeListener
<1>2. PICK o \in Obtain(ProtocolOf[l], oListener[l].up) :
              LET new == Refresh(PutListener(o.row, <<l, oListener[l].up>>, RefOf(l)))
              IN  /\ Put(o.id, new) /\ o.id \in Row /\ Filed(new)
                  /\ new.status = o.row.status
  BY <1>1, MakeListenerGives
<1>. DEFINE new == Refresh(PutListener(o.row, <<l, oListener[l].up>>, RefOf(l)))
<1>3. Fit(o.row)
  BY <1>1, ObtainFit, RefOfType, ConstantsAssumption
<1>4. Put(o.id, new) /\ o.id \in Row /\ new \in RowContents /\ new.status = o.row.status
  BY <1>2 DEF Filed
<1>5. tool'.phase = "make" /\ tool'.kept = tool.kept /\ runs' = 0
      /\ UNCHANGED <<oPool, oMember>>
  BY <1>1 DEF MakeListener, Working
<1>. HIDE DEF new
<1>6. Fit(new)
  BY <1>3, <1>4 DEF Fit
<1>. QED  BY <1>1, <1>4, <1>5, <1>6, MakeStep

LEMMA MakePoolServes ==
    ASSUME SyncInv, NEW p \in Pool, MakePool(p), TypesInv'
    PROVE  SyncInv'
<1>1. BInv /\ ToolTyped /\ AllFit /\ tool.phase = "make" /\ tool \in Working /\ runs = 0
  BY AtWork DEF SyncInv, TypesInv, MakePool
<1>2. PICK o \in Obtain(ProtocolOf[p], oPool[p].up), new \in RowContents :
         Put(o.id, new) /\ o.id \in Row /\ new.status = o.row.status
  BY <1>1, MakePoolGives
<1>3. Fit(o.row)
  BY <1>1, ObtainFit, PoolKeyType, ConstantsAssumption
<1>4. Fit(new)
  BY <1>2, <1>3 DEF Fit
<1>5. /\ tool' = Idle \/ (tool'.phase = "make" /\ tool'.kept = tool.kept)
      /\ runs' = 0
      /\ UNCHANGED <<oPool, oMember>>
  BY <1>1 DEF MakePool, Working, Ends
<1>. QED  BY <1>1, <1>2, <1>4, <1>5, MakeStep

LEMMA MakeMemberServes ==
    ASSUME SyncInv, NEW m \in Member, MakeMember(m), TypesInv'
    PROVE  SyncInv'
<1>1. BInv /\ ToolTyped /\ AllFit /\ tool.phase = "make" /\ tool \in Working /\ runs = 0
  BY AtWork DEF SyncInv, TypesInv, MakeMember
<1>2. PICK rk \in PoolRows(PoolOf[m]), new \in RowContents :
         /\ Put(rk[1], new) /\ rk[1] \in live /\ rk[1] \in Row
         /\ new.status = With(rows[rk[1]].status, m,
                              IF oMember[m].up THEN "NO_MONITOR" ELSE "OFFLINE")
         /\ \/ Ends(0)
            \/ tool' = [tool EXCEPT !.members = @ \ {m}] /\ UNCHANGED runs
  <2>1. PICK rk \in PoolRows(PoolOf[m]), new \in RowContents :
         /\ Put(rk[1], new) /\ rk[1] \in live /\ rk[1] \in Row
         /\ new.status = With(rows[rk[1]].status, m,
                              IF oMember[m].up THEN "NO_MONITOR" ELSE "OFFLINE")
         /\ \/ Ends(0)
            \/ /\ ~StatusRaises(new)
               /\ tool' = [tool EXCEPT !.members = @ \ {m}]
               /\ UNCHANGED runs
    BY <1>1, MakeMemberGives
  <2>. QED  BY <2>1
<1>3. rows[rk[1]].status \in [Member -> MemberStatus] /\ oMember[m].up \in BOOLEAN
  <2>1. oMember[m] \in ChildRecord
    BY <1>1, OrBlank DEF BInv, RecordsOK
  <2>. QED  BY <1>1, <1>2, <2>1 DEF BInv, RowsFiled, RowContents, ChildRecord
<1>4. Fit(new)
  BY <1>1, <1>2, <1>3 DEF Fit, AllFit, Wanted, With
<1>5. /\ tool' = Idle \/ (tool'.phase = "make" /\ tool'.kept = tool.kept)
      /\ runs' = 0
      /\ UNCHANGED <<oPool, oMember>>
  BY <1>1, <1>2 DEF MakeMember, Working, Ends
<1>. QED  BY <1>1, <1>2, <1>4, <1>5, MakeStep

LEMMA EndMakeServes ==
    ASSUME SyncInv, EndMake, TypesInv'
    PROVE  SyncInv'
<1>1. runs = 0 /\ live # {} /\ AllFit
  BY DEF SyncInv, EndMake
<1>2. tool' = Idle /\ runs' = 1 /\ tool'.phase = "idle"
  BY <1>1 DEF EndMake, Ends, More, Idle
<1>3. live' # {} /\ AllFit'
  BY <1>1 DEF EndMake, vars, AllFit, Fit, Wanted
<1>. QED  BY <1>2, <1>3 DEF SyncInv

LEMMA StillServes ==
    ASSUME SyncInv, UNCHANGED syncVars, TypesInv'
    PROVE  SyncInv'
<1>1. UNCHANGED <<live, rows, oLb, oListener, oPool, oMember, tool, runs>>
  BY DEF syncVars, vars
<1>2. \A m \in Member, l \in Listener : Due(m, l)' <=> Due(m, l)
  BY <1>1 DEF Due
<1>3. \A m \in Member : Wanted(m)' <=> Wanted(m)
  BY <1>1 DEF Wanted
<1>4. \A r \in live : Fit(rows[r])' <=> Fit(rows[r])
  BY <1>1, <1>3 DEF Fit
<1>5. \A r \in live : Serves(r)' <=> Serves(r)
  BY <1>1, <1>2 DEF Serves, Fine
<1>6. tool.phase = "sync" /\ AtRow => AtRow'
  <2>. SUFFICES ASSUME tool.phase = "sync", AtRow PROVE AtRow'
    OBVIOUS
  <2>1. KeptOK'
    BY <1>1 DEF AtRow, KeptOK, Due
  <2>2. ListenersIn' /\ Switched'
    BY <1>1 DEF AtRow, ListenersIn, Switched, ListenerDone, Exists
  <2>3. PoolsIn'
    BY <1>1 DEF AtRow, PoolsIn, PoolDone, MemberDone, KeyOf, Exists
  <2>4. MembersServed'
    BY <1>1, <1>2
       DEF AtRow, MembersServed, MemberDone, PoolDone, ListenerDone, Fine, Exists
  <2>5. RowsBefore'
    BY <1>1, <1>4, <1>5 DEF AtRow, RowsBefore
  <2>. QED  BY <1>1, <2>1, <2>2, <2>3, <2>4, <2>5 DEF AtRow
<1>7. AllFit => AllFit'
  BY <1>1, <1>4 DEF AllFit
<1>. QED  BY <1>1, <1>2, <1>6, <1>7 DEF SyncInv

LEMMA ServesHolds ==
    ASSUME SyncInv, [SyncNext]_syncVars
    PROVE  SyncInv'
<1>0. TypesInv'
  BY TypesHold DEF SyncInv
<1>1. CASE Begin
  BY <1>0, <1>1, BeginServes
<1>2. ASSUME NEW l \in Listener, SyncListener(l) \/ MakeListener(l) PROVE SyncInv'
  BY <1>0, <1>2, SyncListenerServes, MakeListenerServes
<1>3. ASSUME NEW p \in Pool, SyncPool(p) \/ MakePool(p) PROVE SyncInv'
  BY <1>0, <1>3, SyncPoolServes, MakePoolServes
<1>4. ASSUME NEW m \in Member, SyncMember(m) \/ MakeMember(m) PROVE SyncInv'
  BY <1>0, <1>4, SyncMemberServes, MakeMemberServes
<1>5. CASE EndRow
  BY <1>0, <1>5, EndRowServes
<1>6. CASE Make
  BY <1>0, <1>6, MakeServes
<1>7. CASE EndMake
  BY <1>0, <1>7, EndMakeServes
<1>8. CASE Stop
  BY <1>0, <1>8, IdleServes DEF Stop, Ends
<1>9. CASE Lose
  BY <1>0, <1>9, IdleServes DEF Lose
<1>10. CASE Handled
  BY <1>0, <1>10, IdleServes DEF Handled
<1>11. CASE UNCHANGED syncVars
  BY <1>0, <1>11, StillServes
<1>. QED
  BY <1>1, <1>2, <1>3, <1>4, <1>5, <1>6, <1>7, <1>8, <1>9, <1>10, <1>11
     DEF SyncNext, Sync

LEMMA ServesAlways == SyncSpec => []SyncInv
<1>1. SyncInit => SyncInv
  BY InitFiled DEF SyncInit, SyncInv, TypesInv, ToolTyped, Idle
<1>. QED  BY <1>1, ServesHolds, PTL DEF SyncSpec

\* After two runs of the tool that went through (do_sync, _ensure_loadbalancer)
\* whatever is configured and enabled is served, in any number of rows.
THEOREM TwiceServes == SyncSpec => []SyncServes
<1>1. ASSUME SyncInv PROVE SyncServes
  <2>. SUFFICES ASSUME tool = Idle, runs = 2, oLb.vipPort = TRUE,
                       NEW m \in Member, NEW l \in Listener, Due(m, l)
                PROVE  m \in Backends(l)
    <3>1. oLb.vipPort \in BOOLEAN
      BY <1>1 DEF SyncInv, TypesInv, BInv, RecordsOK, LbRecord
    <3>. QED  BY <3>1 DEF SyncServes
  <2>1. live # {} /\ \A r \in live : m \in rows[r].vips[l]
    BY <1>1 DEF SyncInv
  <2>. QED  BY <2>1 DEF Backends
<1>. QED  BY <1>1, ServesAlways, PTL

\* The step with which a run ends, once it went through, leaves whatever a row
\* served, or would after a refresh, and what Octavia's records want served: no
\* pool stays emptied by pool_sync, no listener without the key of its pool.
THEOREM OnceKeepsServing == SyncSpec => SyncKeepsServing
<1>. DEFINE Kept == tool # Idle /\ tool' = Idle /\ runs' > 0 =>
                       \A served \in tool.kept : served[2] \in Backends(served[3])'
<1>1. ASSUME SyncInv, [SyncNext]_syncVars
      PROVE  [Kept]_syncVars
  <2>. SUFFICES ASSUME tool # Idle, tool' = Idle, runs' > 0, NEW served \in tool.kept
                PROVE  served[2] \in Backends(served[3])'
    OBVIOUS
  <2>1. tool \in Working /\ BInv /\ ToolTyped /\ tool.phase \in {"sync", "make"}
    BY <1>1, AtWork, PhaseIdle DEF SyncInv, TypesInv
  <2>2. tool.phase = "sync"
    BY <1>1, <2>1 DEF SyncInv
  <2>3. AtRow
    BY <1>1, <2>2 DEF SyncInv
  <2>4. served[1] \in live /\ served[2] \in Member /\ served[3] \in Listener
        /\ Due(served[2], served[3]) /\ served = <<served[1], served[2], served[3]>>
    BY <2>1, <2>3 DEF AtRow, KeptOK, Working
  <2>5. EndRow /\ tool.todo = {} /\ UNCHANGED <<live, rows>>
    <3>1. ~Begin /\ ~Lose /\ ~Handled /\ ~Make
      BY DEF Begin, Lose, Handled, Make
    <3>2. ~Stop /\ ~EndMake
      BY <2>2 DEF Stop, EndMake, Ends
    <3>3. \A l \in Listener : ~SyncListener(l) /\ ~MakeListener(l)
      BY <2>1, <2>2 DEF SyncListener, MakeListener, Working, Idle
    <3>4. \A p \in Pool : ~SyncPool(p) /\ ~MakePool(p)
      BY <2>1, <2>2 DEF SyncPool, MakePool, Working, Idle
    <3>5. \A m \in Member : ~SyncMember(m) /\ ~MakeMember(m)
      BY <2>1, <2>2 DEF SyncMember, MakeMember, Working, Idle
    <3>6. EndRow
      BY <1>1, <3>1, <3>2, <3>3, <3>4, <3>5 DEF SyncNext, Sync, syncVars
    <3>7. ASSUME NEW r \in tool.todo, SyncRow(r, tool.todo \ {r}, tool.kept)
          PROVE  FALSE
      BY <3>7 DEF SyncRow, Enters, Idle
    <3>8. CASE Ends(IF tool.todo = {} THEN More ELSE 0) /\ UNCHANGED vars
      BY <3>6, <3>8 DEF Ends, vars
    <3>9. CASE tool.todo = {} /\ UNCHANGED <<live, rows>>
      BY <3>6, <3>9
    <3>. QED  BY <3>6, <3>7, <3>8, <3>9 DEF EndRow
  <2>6. Serves(served[1])
    <3>1. Serves(tool.row)
      BY <1>1, <2>2, <2>5, RowDone DEF EndRow
    <3>. QED  BY <2>3, <2>4, <2>5, <3>1 DEF AtRow, RowsBefore
  <2>7. served[2] \in rows[served[1]].vips[served[3]]
    BY <2>4, <2>6 DEF Serves, Fine
  <2>. QED  BY <2>4, <2>5, <2>7 DEF Backends
<1>. QED  BY <1>1, ServesAlways, PTL DEF SyncSpec, SyncKeepsServing

-----------------------------------------------------------------------------
(* What users deleted does not come back                                   *)

OListeners == {l \in Listener : Exists(oListener[l])}
OPools     == {p \in Pool : Exists(oPool[p])}
OMembers   == {m \in Member : Exists(oMember[m])}

\* The listeners and pools of plain keys, the members listed, the members listed
\* under a plain key, and what vips say, are known.
KeysKnown(row, L, P) ==
    /\ \A l \in Listener : <<l, TRUE>> \in row.listeners => l \in L
    /\ \A p \in Pool : <<p, TRUE>> \in row.pools => p \in P

ListedKnown(row, M) == \A k \in PoolKey : \A m \in row.members[k] : m \in M

PlainKnown(row, P, M) == \A p \in P : \A m \in row.members[<<p, TRUE>>] : m \in M

VipsKnown(row, L, M) == \A l \in Listener : \A m \in row.vips[l] : l \in L /\ m \in M

\* A row of a load balancer that takes calls mentions nothing that was deleted.  While
\* it takes none, what a plain key of a pool lists has not been deleted before the
\* pool: a member that member_delete leaves behind is under the other key.
RowKnown(r) ==
    /\ PlainKnown(rows[r], OPools, OMembers)
    /\ Mutable => ListedKnown(rows[r], OMembers)
    /\ oLb.prov = "ACTIVE" => KeysKnown(rows[r], OListeners, OPools)

OneRow      == \A r, s \in live : r = s
OneProtocol == \A x, y \in Protocol : x = y

KnownInv == OneRow /\ DeletedLeavesNothing /\ \A r \in live : RowKnown(r)

LEMMA NewKnown ==
    ASSUME NEW proto, NEW up, NEW L, NEW P \in SUBSET Pool, NEW M
    PROVE  LET row == NewRow(proto, up)
           IN  /\ KeysKnown(row, L, P) /\ ListedKnown(row, M) /\ PlainKnown(row, P, M)
               /\ VipsKnown(row, L, M)
BY DEF NewRow, KeysKnown, ListedKnown, PlainKnown, VipsKnown, PoolKey

LEMMA SameKnown ==
    ASSUME NEW a, NEW b, NEW L, NEW P, NEW M,
           a.listeners = b.listeners, a.pools = b.pools, a.members = b.members
    PROVE  /\ KeysKnown(a, L, P) <=> KeysKnown(b, L, P)
           /\ ListedKnown(a, M) <=> ListedKnown(b, M)
           /\ PlainKnown(a, P, M) <=> PlainKnown(b, P, M)
BY DEF KeysKnown, ListedKnown, PlainKnown

LEMMA KnownMore ==
    ASSUME NEW row, NEW L, NEW P, NEW M, NEW L2, NEW P2, NEW M2,
           L \subseteq L2, P \subseteq P2, M \subseteq M2
    PROVE  /\ KeysKnown(row, L, P) => KeysKnown(row, L2, P2)
           /\ ListedKnown(row, M) => ListedKnown(row, M2)
BY DEF KeysKnown, ListedKnown

\* With one protocol and one row, every request finds that row.
LEMMA FindAll ==
    ASSUME OneProtocol, BInv, OneRow, NEW proto \in Protocol
    PROVE  FindRow(proto) = live
<1>1. \A r \in live : rows[r].protocol \in {proto, NoProtocol} /\ live = {r}
  BY LiveFiled DEF OneProtocol, BInv, OneRow, Filed, RowContents
<1>. QED  BY <1>1 DEF FindRow

LEMMA ObtainOne ==
    ASSUME OneProtocol, BInv, OneRow, NEW proto \in Protocol, NEW up \in BOOLEAN,
           NEW o \in Obtain(proto, up)
    PROVE  /\ o.id \in live /\ Filed(o.row)
           /\ o.row.listeners = rows[o.id].listeners
           /\ o.row.pools = rows[o.id].pools
           /\ o.row.members = rows[o.id].members
           /\ o.row.vips = rows[o.id].vips
<1>1. live # {}
  <2>1. live = {} => NewRows(proto, up) = {}
    BY DEF NewRows
  <2>2. live = {} => Obtain(proto, up) = NewRows(proto, up)
    BY DEF Obtain
  <2>. QED  BY <2>1, <2>2
<1>2. \A s \in live : rows[s].protocol \in {proto, NoProtocol}
  BY LiveFiled DEF OneProtocol, BInv, OneRow, Filed, RowContents
<1>. QED  BY <1>1, <1>2, ObtainFiled

LEMMA PutOne ==
    ASSUME BInv, OneRow, NEW r \in live, NEW row, Put(r, row)
    PROVE  live' = live /\ \A s \in live : rows'[s] = row
BY DEF Put, BInv, RowsFiled, OneRow

LEMMA PutOrCleanOne ==
    ASSUME BInv, OneRow, NEW r \in live, NEW row, Filed(row), NEW left,
           PutOrClean(r, row, left)
    PROVE  /\ live' = live
           /\ \A s \in live : /\ rows'[s].listeners = row.listeners
                              /\ rows'[s].pools = row.pools
                              /\ rows'[s].members = row.members
<1>1. live = {r}
  BY DEF OneRow
<1>2. CASE Put(r, row)
  BY <1>2, PutOne
<1>3. CASE Put(r, [row EXCEPT !.protocol = NoProtocol])
  <2>. DEFINE new == [row EXCEPT !.protocol = NoProtocol]
  <2>1. new.listeners = row.listeners /\ new.pools = row.pools
        /\ new.members = row.members
    BY DEF Filed, RowContents
  <2>. HIDE DEF new
  <2>2. live' = live /\ \A s \in live : rows'[s] = new
    BY <1>3, PutOne DEF new
  <2>. QED  BY <2>1, <2>2
<1>. QED  BY <1>1, <1>2, <1>3 DEF PutOrClean

\* What handlers that were let in find, and have to leave.
LEMMA KnownFound ==
    ASSUME KnownInv, Mutable, NEW r \in live
    PROVE  KeysKnown(rows[r], OListeners, OPools) /\ ListedKnown(rows[r], OMembers)
BY DEF KnownInv, RowKnown, Mutable

LEMMA KnownLeft ==
    ASSUME KnownInv, live' = live, oLb'.prov # "ABSENT",
           \A s \in live : /\ KeysKnown(rows'[s], OListeners', OPools')
                           /\ ListedKnown(rows'[s], OMembers')
    PROVE  KnownInv'
<1>1. \A s \in live : PlainKnown(rows'[s], OPools', OMembers')
  BY DEF ListedKnown, PlainKnown, OPools, PoolKey
<1>. QED  BY <1>1 DEF KnownInv, OneRow, RowKnown, DeletedLeavesNothing

LEMMA LbCreateKnown ==
    ASSUME BInv, KnownInv, NEW up, LbCreate(up)
    PROVE  KnownInv'
<1>1. live = {} /\ rows \in [Row -> RowContents]
  BY DEF LbCreate, KnownInv, DeletedLeavesNothing, AbsentLb, BInv, RowsFiled
<1>2. oLb'.prov # "ABSENT"
  BY DEF LbCreate
<1>3. \/ live' = {}
      \/ \E r \in Row : live' = {r} /\ rows'[r] = NewRow(NoProtocol, up)
  BY <1>1 DEF LbCreate, Put
<1>4. OPools' \in SUBSET Pool
  BY DEF OPools
<1>5. \A r \in live' : RowKnown(r)'
  BY <1>3, <1>4, NewKnown DEF RowKnown
<1>6. OneRow'
  BY <1>3 DEF OneRow
<1>. QED  BY <1>2, <1>5, <1>6 DEF KnownInv, DeletedLeavesNothing

LEMMA LbUpdateKnown ==
    ASSUME BInv, KnownInv, NEW up \in BOOLEAN, LbUpdate(up)
    PROVE  KnownInv'
<1>1. Mutable /\ live' = live /\ UNCHANGED <<oListener, oPool, oMember>>
      /\ oLb'.prov # "ABSENT" /\ live \subseteq Row
  BY DEF LbUpdate, BInv, RecordsOK, LbRecord, RowsFiled
<1>2. PICK done \in SUBSET live :
         rows' = [r \in Row |-> IF r \in done
                                THEN Refresh([rows[r] EXCEPT !.enabled = up])
                                ELSE rows[r]]
  BY DEF LbUpdate
<1>3. ASSUME NEW s \in live
      PROVE  /\ rows'[s].listeners = rows[s].listeners
             /\ rows'[s].pools = rows[s].pools
             /\ rows'[s].members = rows[s].members
  BY <1>1, <1>2, LiveFiled DEF BInv, Filed, RowContents, Refresh
<1>4. UNCHANGED <<OListeners, OPools, OMembers>>
  BY <1>1 DEF OListeners, OPools, OMembers, Exists
<1>5. \A s \in live : /\ KeysKnown(rows'[s], OListeners', OPools')
                      /\ ListedKnown(rows'[s], OMembers')
  BY <1>1, <1>3, <1>4, KnownFound, SameKnown
<1>. QED  BY <1>1, <1>5, KnownLeft

\* A deletion that stops leaves nothing in a row that was not there.
LEMMA StoppedLists ==
    ASSUME NEW row, Filed(row), NEW cascade, NEW stop \in Stopped(row, cascade),
           NEW k \in PoolKey, NEW m \in stop.row.members[k]
    PROVE  m \in row.members[k]
<1>1. stop.row \in OneGone(row) \cup {Shed(row), row}
  BY DEF Stopped
<1>2. CASE stop.row = Shed(row)
  BY <1>2 DEF Shed, Filed, RowContents
<1>3. CASE stop.row \in OneGone(row)
  <2>1. PICK j \in row.pools : \E x \in row.members[j] :
           stop.row = [row EXCEPT !.members[j] = @ \ {x}, !.status[x] = "none"]
    BY <1>3 DEF OneGone
  <2>. QED  BY <2>1 DEF Filed, RowContents
<1>. QED  BY <1>1, <1>2, <1>3

LEMMA LbDeleteKnown ==
    ASSUME BInv, KnownInv, NEW cascade \in BOOLEAN, LbDelete(cascade)
    PROVE  KnownInv'
<1>1. CASE live' = {}
  BY <1>1 DEF KnownInv, OneRow, DeletedLeavesNothing
<1>2. ASSUME NEW done \in SUBSET live, NEW r \in live, r \notin done,
             NEW stop \in Stopped(rows[r], cascade), NEW noted,
             RowsGoUntil(done, r, stop.row), DeletionFails(noted)
      PROVE  KnownInv'
  <2>1. Filed(rows[r]) /\ r \in Row /\ oLb'.prov = "ERROR"
    BY <1>2, LiveFiled DEF BInv, DeletionFails, RecordsOK, LbRecord
  <2>2. \A s \in live' : s = r /\ rows'[s] = Refresh(stop.row)
    BY <1>2, <2>1 DEF RowsGoUntil, KnownInv, OneRow
  <2>3. Refresh(stop.row).members = stop.row.members
    <3>1. Filed(stop.row)
      BY <2>1, StoppedFiled
    <3>. QED  BY <3>1 DEF Refresh, Filed, RowContents
  <2>4. \A p \in OPools' : p \in OPools /\ p \notin noted
    BY <1>2 DEF OPools, DeletionFails, AbsentChild, Exists
  <2>5. \A m \in OMembers : PoolOf[m] \notin noted => m \in OMembers'
    BY <1>2 DEF OMembers, DeletionFails, Exists
  <2>6. ASSUME NEW p \in OPools', NEW m \in stop.row.members[<<p, TRUE>>]
        PROVE  m \in OMembers'
    <3>1. p \in OPools /\ p \notin noted /\ p \in Pool /\ <<p, TRUE>> \in PoolKey
      BY <2>4 DEF OPools, PoolKey
    <3>2. m \in rows[r].members[<<p, TRUE>>]
      BY <2>1, <3>1, StoppedLists
    <3>3. PoolOf[m] = p
      BY <2>1, <3>1, <3>2 DEF Filed
    <3>4. m \in OMembers
      BY <3>1, <3>2 DEF KnownInv, RowKnown, PlainKnown
    <3>. QED  BY <2>5, <3>1, <3>3, <3>4
  <2>7. \A s \in live' : PlainKnown(rows'[s], OPools', OMembers')
    BY <2>2, <2>3, <2>6 DEF PlainKnown
  <2>. QED  BY <2>1, <2>2, <2>7 DEF KnownInv, OneRow, DeletedLeavesNothing, RowKnown, Mutable
<1>3. \/ live' = {}
      \/ \E done \in SUBSET live : \E r \in live \ done :
         \E stop \in Stopped(rows[r], cascade) : \E noted :
            RowsGoUntil(done, r, stop.row) /\ DeletionFails(noted)
  BY DEF LbDelete, AllRowsGo
<1>. QED  BY <1>1, <1>2, <1>3

LEMMA ListenerCreateKnown ==
    ASSUME OneProtocol, BInv, KnownInv, NEW l \in Listener, NEW up \in CreateStates,
           NEW dp \in Pool \cup {None}, ListenerCreate(l, up, dp)
    PROVE  KnownInv'
<1>. DEFINE key == <<l, up>>
            ref == IF dp = None THEN {} ELSE {<<dp, TRUE>>}
<1>1. /\ Mutable /\ oPool' = oPool /\ oMember' = oMember /\ OneRow
      /\ \E prov \in {"ACTIVE", "ERROR"} : oListener' = [oListener EXCEPT ![l] =
                               [prov |-> prov, up |-> up, pool |-> dp]]
  BY DEF ListenerCreate, KnownInv
<1>2. up \in BOOLEAN /\ key \in ListenerKey /\ ref \in SUBSET PoolRef
      /\ ProtocolOf[l] \in Protocol
  <2>1. up \in BOOLEAN /\ ProtocolOf[l] \in Protocol
    BY ConstantsAssumption
  <2>2. <<dp, TRUE>> \in PoolRef
    BY DEF PoolRef
  <2>. QED  BY <2>1, <2>2 DEF ListenerKey
<1>3. /\ OListeners \subseteq OListeners' /\ l \in OListeners'
      /\ OPools' = OPools /\ OMembers' = OMembers
  <2>1. oListener \in [Listener -> ListenerOrBlank]
    BY DEF BInv, RecordsOK
  <2>. QED  BY <1>1, <2>1 DEF OListeners, OPools, OMembers, Exists
<1>4. oLb'.prov # "ABSENT"
  <2>1. oLb' = oLb \/ \E port : oLb' = [oLb EXCEPT !.vipPort = port]
    BY DEF ListenerCreate, ObtainFails
  <2>. QED  BY <1>1, <2>1 DEF Mutable, BInv, RecordsOK, LbRecord
<1>5. ASSUME NEW o \in Obtain(ProtocolOf[l], up),
             \/ Put(o.id, Refresh(PutListener(o.row, key, ref)))
             \/ Put(o.id, o.row)
      PROVE  KnownInv'
  <2>1. /\ o.id \in live /\ Filed(o.row)
        /\ o.row.listeners = rows[o.id].listeners
        /\ o.row.pools = rows[o.id].pools
        /\ o.row.members = rows[o.id].members
    BY <1>1, <1>2, ObtainOne
  <2>2. KeysKnown(o.row, OListeners', OPools') /\ ListedKnown(o.row, OMembers')
    <3>1. /\ KeysKnown(rows[o.id], OListeners, OPools)
          /\ ListedKnown(rows[o.id], OMembers)
      BY <1>1, <2>1, KnownFound
    <3>2. KeysKnown(o.row, OListeners, OPools) /\ ListedKnown(o.row, OMembers)
      BY <2>1, <3>1, SameKnown
    <3>. QED  BY <1>3, <3>2, KnownMore
  <2>. DEFINE put == PutListener(o.row, key, ref)
              new == Refresh(put)
  <2>3. /\ Filed(put) /\ put.listeners = o.row.listeners \cup {key}
        /\ put.pools = o.row.pools /\ put.members = o.row.members
    <3>. HIDE DEF key, ref
    <3>. QED  BY <1>2, <2>1, PutListenerFiled
  <2>4. new.listeners = put.listeners /\ new.pools = put.pools
        /\ new.members = put.members
    <3>. HIDE DEF put
    <3>. QED  BY <2>3 DEF Refresh, Filed, RowContents
  <2>. HIDE DEF put, new
  <2>5. KeysKnown(new, OListeners', OPools') /\ ListedKnown(new, OMembers')
    <3>1. \A k \in Listener : <<k, TRUE>> \in new.listeners =>
             k = l \/ <<k, TRUE>> \in o.row.listeners
      <4>1. \A k \in Listener : <<k, TRUE>> = key => k = l
        OBVIOUS
      <4>. HIDE DEF key
      <4>. QED  BY <2>3, <2>4, <4>1
    <3>2. KeysKnown(new, OListeners', OPools')
      BY <1>3, <2>2, <2>3, <2>4, <3>1 DEF KeysKnown
    <3>3. ListedKnown(new, OMembers')
      BY <2>2, <2>3, <2>4 DEF ListedKnown
    <3>. QED  BY <3>2, <3>3
  <2>6. live' = live /\ \A s \in live : rows'[s] \in {new, o.row}
    <3>1. Put(o.id, new) \/ Put(o.id, o.row)
      BY <1>5 DEF new, put
    <3>. QED  BY <1>1, <2>1, <3>1, PutOne
  <2>. QED  BY <1>4, <2>2, <2>5, <2>6, KnownLeft
<1>6. ASSUME ObtainFails(ProtocolOf[l])
      PROVE  KnownInv'
  <2>1. live' = live /\ rows' = rows
    BY <1>6 DEF ObtainFails
  <2>2. \A s \in live : /\ KeysKnown(rows'[s], OListeners', OPools')
                        /\ ListedKnown(rows'[s], OMembers')
    BY <1>1, <1>3, <2>1, KnownFound, KnownMore
  <2>. QED  BY <1>4, <2>1, <2>2, KnownLeft
<1>. QED  BY <1>5, <1>6 DEF ListenerCreate

LEMMA ListenerDeleteKnown ==
    ASSUME OneProtocol, BInv, KnownInv, NEW l \in Listener, ListenerDelete(l)
    PROVE  KnownInv'
<1>. DEFINE key == <<l, TRUE>>
<1>1. /\ Mutable /\ OneRow /\ oLb'.prov # "ABSENT" /\ oPool' = oPool
      /\ oMember' = oMember /\ ProtocolOf[l] \in Protocol /\ key \in ListenerKey
      /\ oListener \in [Listener -> ListenerOrBlank]
  BY ConstantsAssumption
     DEF ListenerDelete, Mutable, KnownInv, ListenerKey, BInv, RecordsOK
<1>2. OPools' = OPools /\ OMembers' = OMembers
  BY <1>1 DEF OPools, OMembers
<1>3. FindRow(ProtocolOf[l]) = live
  BY <1>1, FindAll
<1>4. \A s \in live : KeysKnown(rows[s], OListeners, OPools) /\ ListedKnown(rows[s], OMembers)
  BY <1>1, KnownFound
<1>5. CASE oListener' = [oListener EXCEPT ![l].prov = "ERROR"] /\ UNCHANGED <<live, rows>>
  <2>1. OListeners' = OListeners
    BY <1>1, <1>5 DEF OListeners, Exists, ListenerDelete, ListenerOrBlank, ListenerRecord,
                      AbsentListener
  <2>2. \A s \in live : /\ KeysKnown(rows'[s], OListeners', OPools')
                        /\ ListedKnown(rows'[s], OMembers')
    BY <1>2, <1>4, <1>5, <2>1
  <2>. QED  BY <1>1, <1>5, <2>2, KnownLeft
<1>6. ASSUME oListener' = [oListener EXCEPT ![l] = AbsentListener],
             live' = live,
             \A s \in live : \E r \in live :
                /\ rows'[s].listeners = rows[r].listeners \ {key}
                /\ rows'[s].pools = rows[r].pools /\ rows'[s].members = rows[r].members
      PROVE  KnownInv'
  <2>1. \A k \in OListeners : k # l => k \in OListeners'
    BY <1>1, <1>6 DEF OListeners, Exists
  <2>2. ASSUME NEW s \in live
        PROVE  KeysKnown(rows'[s], OListeners', OPools') /\ ListedKnown(rows'[s], OMembers')
    <3>1. PICK r \in live :
             /\ rows'[s].listeners = rows[r].listeners \ {key}
             /\ rows'[s].pools = rows[r].pools /\ rows'[s].members = rows[r].members
      BY <1>6
    <3>2. KeysKnown(rows[r], OListeners, OPools) /\ ListedKnown(rows[r], OMembers)
      BY <1>4
    <3>3. KeysKnown(rows'[s], OListeners', OPools')
      BY <1>2, <2>1, <3>1, <3>2 DEF KeysKnown
    <3>4. ListedKnown(rows'[s], OMembers')
      BY <1>2, <3>1, <3>2 DEF ListedKnown
    <3>. QED  BY <3>3, <3>4
  <2>. QED  BY <1>1, <1>6, <2>2, KnownLeft
<1>7. CASE /\ oListener' = [oListener EXCEPT ![l] = AbsentListener]
           /\ \A s \in live : key \notin rows[s].listeners
           /\ UNCHANGED <<live, rows>>
  BY <1>6, <1>7
<1>8. ASSUME oListener' = [oListener EXCEPT ![l] = AbsentListener], NEW r \in live,
             PutOrClean(r, Refresh(DropListener(rows[r], key)), DropListener(rows[r], key))
      PROVE  KnownInv'
  <2>. DEFINE left == DropListener(rows[r], key)
              new == Refresh(left)
  <2>1. Filed(rows[r])
    BY LiveFiled DEF BInv
  <2>2. /\ Filed(left) /\ left.listeners = rows[r].listeners \ {key}
        /\ left.pools = rows[r].pools /\ left.members = rows[r].members
    <3>. HIDE DEF key
    <3>. QED  BY <1>1, <2>1, DropListenerFiled
  <2>3. /\ Filed(new) /\ new.listeners = left.listeners
        /\ new.pools = left.pools /\ new.members = left.members
    <3>. HIDE DEF left
    <3>. QED  BY <2>2, RefreshFiled
  <2>4. PutOrClean(r, new, left)
    BY <1>8
  <2>. HIDE DEF new, left, key
  <2>5. /\ live' = live
        /\ \A s \in live : /\ rows'[s].listeners = new.listeners
                           /\ rows'[s].pools = new.pools
                           /\ rows'[s].members = new.members
    BY <1>1, <1>8, <2>3, <2>4, PutOrCleanOne
  <2>. QED  BY <1>6, <1>8, <2>2, <2>3, <2>5
<1>. QED  BY <1>3, <1>5, <1>7, <1>8 DEF ListenerDelete

LEMMA ListenerUpdateKnown ==
    ASSUME OneProtocol, BInv, KnownInv, NEW l \in Listener, NEW up \in Opt(BOOLEAN),
           NEW dp \in Opt(Pool \cup {None}), ListenerUpdate(l, up, dp)
    PROVE  KnownInv'
<1>1. /\ Mutable /\ OneRow /\ oPool' = oPool /\ oMember' = oMember
      /\ oListener \in [Listener -> ListenerOrBlank]
  BY DEF ListenerUpdate, KnownInv, BInv, RecordsOK
<1>2. PICK prov \in {"ACTIVE", "ERROR"} : oListener' = [oListener EXCEPT ![l] =
         [prov |-> prov, up |-> Given(up, @.up), pool |-> Given(dp, @.pool)]]
  BY DEF ListenerUpdate
<1>3. OListeners \subseteq OListeners' /\ l \in OListeners'
      /\ OPools' = OPools /\ OMembers' = OMembers
  BY <1>1, <1>2 DEF OListeners, OPools, OMembers, Exists
<1>4. oLb'.prov # "ABSENT"
  <2>1. oLb' = oLb \/ oLb' = [oLb EXCEPT !.prov = "ERROR"]
    BY DEF ListenerUpdate
  <2>. QED  BY <1>1, <2>1 DEF Mutable, BInv, RecordsOK, LbRecord
<1>5. \A s \in live : /\ KeysKnown(rows[s], OListeners', OPools')
                      /\ ListedKnown(rows[s], OMembers')
  BY <1>1, <1>3, KnownFound, KnownMore
<1>6. CASE UNCHANGED <<live, rows>>
  BY <1>4, <1>5, <1>6, KnownLeft
<1>7. ASSUME NEW r \in live, NEW k \in rows[r].listeners, k[1] = l,
             Put(r, ListenerMoved(rows[r], k, up, dp))
      PROVE  KnownInv'
  <2>. DEFINE new == ListenerMoved(rows[r], k, up, dp)
  <2>1. Filed(rows[r])
    BY LiveFiled DEF BInv
  <2>2. /\ new.listeners \subseteq rows[r].listeners \cup ({k[1]} \X BOOLEAN)
        /\ new.pools = rows[r].pools /\ new.members = rows[r].members
    BY <2>1, ListenerMovedFiled
  <2>3. Put(r, new)
    BY <1>7
  <2>. HIDE DEF new
  <2>4. KeysKnown(new, OListeners', OPools') /\ ListedKnown(new, OMembers')
    <3>1. \A j \in Listener : <<j, TRUE>> \in new.listeners =>
             j = l \/ <<j, TRUE>> \in rows[r].listeners
      BY <1>7, <2>2
    <3>2. KeysKnown(new, OListeners', OPools')
      BY <1>3, <1>5, <2>2, <3>1 DEF KeysKnown
    <3>3. ListedKnown(new, OMembers')
      BY <1>5, <2>2 DEF ListedKnown
    <3>. QED  BY <3>2, <3>3
  <2>5. live' = live /\ \A s \in live : rows'[s] = new
    BY <1>1, <2>3, PutOne
  <2>. QED  BY <1>4, <2>4, <2>5, KnownLeft
<1>8. \/ UNCHANGED <<live, rows>>
      \/ \E r \in FindRow(ProtocolOf[l]) : \E k \in rows[r].listeners :
            k[1] = l /\ Put(r, ListenerMoved(rows[r], k, up, dp))
  BY DEF ListenerUpdate
<1>. QED  BY <1>6, <1>7, <1>8, FindRowLive

LEMMA PoolCreateKnown ==
    ASSUME OneProtocol, BInv, KnownInv, NEW p \in Pool, NEW up \in CreateStates,
           NEW l \in Listener \cup {None}, PoolCreate(p, up, l)
    PROVE  KnownInv'
<1>. DEFINE key == <<p, up>>
            lkey == <<l, TRUE>>
            attached(row) == IF l # None /\ lkey \in row.listeners
                             THEN [row EXCEPT !.refs[lkey] = @ \cup {key}] ELSE row
<1>1. /\ Mutable /\ OneRow /\ oMember' = oMember
      /\ oListener' = [k \in Listener |->
            IF k = l THEN [oListener[k] EXCEPT !.pool = p] ELSE oListener[k]]
      /\ \E prov \in {"ACTIVE", "ERROR"} :
            oPool' = [oPool EXCEPT ![p] = [prov |-> prov, up |-> up]]
  BY DEF PoolCreate, KnownInv
<1>2. up \in BOOLEAN /\ ProtocolOf[p] \in Protocol /\ key \in PoolKey
      /\ key \in PoolRef
  <2>1. up \in BOOLEAN /\ ProtocolOf[p] \in Protocol
    BY ConstantsAssumption
  <2>. QED  BY <2>1 DEF PoolKey, PoolRef
<1>3. OListeners' = OListeners /\ OPools \subseteq OPools' /\ p \in OPools'
      /\ OMembers' = OMembers
  <2>1. oListener \in [Listener -> ListenerRecord] /\ oPool \in [Pool -> ChildOrBlank]
    BY OrBlank DEF BInv, RecordsOK
  <2>2. OListeners' = OListeners
    BY <1>1, <2>1 DEF OListeners, Exists, ListenerRecord
  <2>. QED  BY <1>1, <2>1, <2>2 DEF OPools, OMembers, Exists
<1>4. oLb'.prov # "ABSENT"
  <2>1. oLb' = oLb \/ \E port : oLb' = [oLb EXCEPT !.vipPort = port]
    BY DEF PoolCreate, ObtainFails
  <2>. QED  BY <1>1, <2>1 DEF Mutable, BInv, RecordsOK, LbRecord
<1>5. ASSUME NEW o \in Obtain(ProtocolOf[p], up),
             \/ Put(o.id, PutPool(attached(o.row), key, {}))
             \/ Put(o.id, o.row)
      PROVE  KnownInv'
  <2>1. /\ o.id \in live /\ Filed(o.row)
        /\ o.row.listeners = rows[o.id].listeners
        /\ o.row.pools = rows[o.id].pools
        /\ o.row.members = rows[o.id].members
    BY <1>1, <1>2, ObtainOne
  <2>2. KeysKnown(o.row, OListeners', OPools') /\ ListedKnown(o.row, OMembers')
    <3>1. /\ KeysKnown(rows[o.id], OListeners, OPools)
          /\ ListedKnown(rows[o.id], OMembers)
      BY <1>1, <2>1, KnownFound
    <3>2. KeysKnown(o.row, OListeners, OPools) /\ ListedKnown(o.row, OMembers)
      BY <2>1, <3>1, SameKnown
    <3>. QED  BY <1>3, <3>2, KnownMore
  <2>. DEFINE mid == attached(o.row)
              put == PutPool(mid, key, {})
  <2>3. /\ Filed(mid) /\ mid.listeners = o.row.listeners /\ mid.pools = o.row.pools
        /\ mid.members = o.row.members
    <3>1. ASSUME lkey \in o.row.listeners
          PROVE  LET row == [o.row EXCEPT !.refs[lkey] = @ \cup {key}]
                 IN  /\ Filed(row) /\ row.listeners = o.row.listeners
                     /\ row.pools = o.row.pools /\ row.members = o.row.members
      <4>. DEFINE row == o.row
                  refs == row.refs[lkey] \cup {key}
      <4>1. lkey \in ListenerKey /\ refs \in SUBSET PoolRef /\ Filed(row)
        BY <1>2, <2>1, <3>1 DEF Filed, RowContents
      <4>. HIDE DEF lkey, key, row, refs
      <4>2. LET new == [row EXCEPT !.refs[lkey] = refs]
            IN  /\ Filed(new) /\ new.listeners = row.listeners
                /\ new.pools = row.pools /\ new.members = row.members
        BY <4>1, RefsFiled
      <4>. QED  BY <4>2 DEF row, refs
    <3>. HIDE DEF lkey, key
    <3>. QED  BY <2>1, <3>1
  <2>4. /\ put.listeners = mid.listeners /\ put.pools = mid.pools \cup {key}
        /\ put.members = With(mid.members, key, {})
    <3>. HIDE DEF key, mid
    <3>. QED  BY <1>2, <2>3, PutPoolFiled
  <2>5. \A q \in Pool : <<q, TRUE>> = key => q = p
    OBVIOUS
  <2>6. Put(o.id, put) \/ Put(o.id, o.row)
    BY <1>5
  <2>. HIDE DEF put, mid, key
  <2>7. KeysKnown(put, OListeners', OPools') /\ ListedKnown(put, OMembers')
    <3>1. KeysKnown(put, OListeners', OPools')
      BY <1>3, <2>2, <2>3, <2>4, <2>5 DEF KeysKnown
    <3>2. mid.members \in [PoolKey -> SUBSET Member]
      BY <2>3 DEF Filed, RowContents
    <3>3. ListedKnown(put, OMembers')
      BY <1>2, <2>2, <2>3, <2>4, <3>2 DEF ListedKnown, With
    <3>. QED  BY <3>1, <3>3
  <2>8. live' = live /\ \A s \in live : rows'[s] \in {put, o.row}
    BY <1>1, <2>1, <2>6, PutOne
  <2>. QED  BY <1>4, <2>2, <2>7, <2>8, KnownLeft
<1>6. ASSUME ObtainFails(ProtocolOf[p])
      PROVE  KnownInv'
  <2>1. live' = live /\ rows' = rows
    BY <1>6 DEF ObtainFails
  <2>2. \A s \in live : /\ KeysKnown(rows'[s], OListeners', OPools')
                        /\ ListedKnown(rows'[s], OMembers')
    BY <1>1, <1>3, <2>1, KnownFound, KnownMore
  <2>. QED  BY <1>4, <2>1, <2>2, KnownLeft
<1>. QED  BY <1>5, <1>6 DEF PoolCreate

\* What pool_delete leaves of a row: no key of the pool, and no member of it.
LEMMA PoolGoneLists ==
    ASSUME NEW row, Filed(row), NEW p \in Pool
    PROVE  LET plain == IF <<p, TRUE>> \in row.pools
                        THEN Refresh(DropPool(row, <<p, TRUE>>)) ELSE row
               final == DropPool(DetachPool(plain, p), <<p, FALSE>>)
           IN  /\ Filed(final)
               /\ final.listeners = row.listeners
               /\ final.pools = row.pools \ {<<p, TRUE>>, <<p, FALSE>>}
               /\ \A k \in PoolKey : /\ final.members[k] \subseteq row.members[k]
                                     /\ k[1] = p => final.members[k] = {}
<1>. DEFINE one == <<p, TRUE>>
            two == <<p, FALSE>>
            dropped == DropPool(row, one)
            plain == IF one \in row.pools THEN Refresh(dropped) ELSE row
            believed == DetachPool(plain, p)
            final == DropPool(believed, two)
<1>1. /\ one \in PoolKey /\ two \in PoolKey /\ row.members \in [PoolKey -> SUBSET Member]
      /\ \A k \in PoolKey : k[1] = p => k = one \/ k = two
  <2>1. one \in PoolKey /\ two \in PoolKey
    BY DEF PoolKey
  <2>2. row.members \in [PoolKey -> SUBSET Member]
    BY DEF Filed, RowContents
  <2>3. ASSUME NEW k \in PoolKey, k[1] = p
        PROVE  k = one \/ k = two
    <3>1. k = <<p, k[2]>> /\ (k[2] = TRUE \/ k[2] = FALSE)
      BY <2>3 DEF PoolKey
    <3>. QED  BY <3>1
  <2>. QED  BY <2>1, <2>2, <2>3
<1>2. /\ Filed(plain) /\ plain.listeners = row.listeners
      /\ plain.pools = row.pools \ {one}
      /\ plain.members = With(row.members, one, {})
  <2>1. CASE one \in row.pools
    <3>1. /\ Filed(dropped) /\ dropped.listeners = row.listeners
          /\ dropped.pools = row.pools \ {one}
          /\ dropped.members = With(row.members, one, {})
      <4>. HIDE DEF one
      <4>. QED  BY <1>1, DropPoolFiled
    <3>2. LET new == Refresh(dropped)
          IN  /\ Filed(new) /\ new.listeners = dropped.listeners
              /\ new.pools = dropped.pools /\ new.members = dropped.members
      <4>. HIDE DEF dropped
      <4>. QED  BY <3>1, RefreshFiled
    <3>. HIDE DEF dropped, one
    <3>. QED  BY <2>1, <3>1, <3>2
  <2>2. CASE one \notin row.pools
    <3>. HIDE DEF one
    <3>1. row.members[one] = {}
      BY <1>1, <2>2 DEF Filed
    <3>2. With(row.members, one, {}) = row.members
      BY <1>1, <3>1 DEF With
    <3>. QED  BY <2>2, <3>2
  <2>. QED  BY <2>1, <2>2
<1>3. /\ Filed(believed) /\ believed.listeners = row.listeners
      /\ believed.pools = row.pools \ {one}
      /\ believed.members = With(row.members, one, {})
  <2>. HIDE DEF plain, one
  <2>. QED  BY <1>2, DetachPoolFiled
<1>4. /\ Filed(final) /\ final.listeners = row.listeners
      /\ final.pools = (row.pools \ {one}) \ {two}
      /\ final.members = With(With(row.members, one, {}), two, {})
  <2>. HIDE DEF believed, one, two
  <2>. QED  BY <1>1, <1>3, DropPoolFiled
<1>. HIDE DEF final, one, two
<1>5. \A k \in PoolKey : /\ final.members[k] \subseteq row.members[k]
                         /\ k[1] = p => final.members[k] = {}
  BY <1>1, <1>4 DEF With
<1>. QED  BY <1>4, <1>5 DEF one, two, final

LEMMA PoolDeleteKnown ==
    ASSUME OneProtocol, BInv, KnownInv, NEW p \in Pool, PoolDelete(p)
    PROVE  KnownInv'
<1>. DEFINE plain(row) == IF <<p, TRUE>> \in row.pools
                          THEN Refresh(DropPool(row, <<p, TRUE>>)) ELSE row
            believed(row) == DetachPool(plain(row), p)
            final(row) == DropPool(believed(row), <<p, FALSE>>)
<1>1. /\ Mutable /\ OneRow /\ oLb' = oLb /\ oLb'.prov # "ABSENT"
      /\ oListener \in [Listener -> ListenerOrBlank]
      /\ oPool \in [Pool -> ChildOrBlank] /\ oMember \in [Member -> ChildOrBlank]
      /\ FindRow(ProtocolOf[p]) = live
  BY FindAll, ConstantsAssumption DEF PoolDelete, Mutable, KnownInv, BInv, RecordsOK
<1>2. \A s \in live : KeysKnown(rows[s], OListeners, OPools) /\ ListedKnown(rows[s], OMembers)
  BY <1>1, KnownFound
<1>3. CASE /\ oPool' = [oPool EXCEPT ![p].prov = "ERROR"]
           /\ UNCHANGED <<live, rows, oListener, oMember>>
  <2>1. OPools' = OPools /\ OListeners' = OListeners /\ OMembers' = OMembers
    BY <1>1, <1>3, OrBlank
       DEF OPools, OListeners, OMembers, Exists, PoolDelete, ChildRecord
  <2>. QED  BY <1>1, <1>2, <1>3, <2>1, KnownLeft
<1>4. CASE live = {} /\ live' = live
  BY <1>1, <1>4 DEF KnownInv, OneRow, DeletedLeavesNothing
<1>5. ASSUME oPool' = [oPool EXCEPT ![p] = AbsentChild],
             oListener' = [l \in Listener |->
                   IF oListener[l].pool = p
                   THEN [oListener[l] EXCEPT !.pool = None] ELSE oListener[l]],
             oMember' = [m \in Member |->
                   IF PoolOf[m] = p THEN AbsentChild ELSE oMember[m]],
             NEW r \in live, PutOrClean(r, final(rows[r]), believed(rows[r]))
      PROVE  KnownInv'
  <2>. DEFINE new == final(rows[r])
              left == believed(rows[r])
  <2>1. Filed(rows[r])
    BY LiveFiled DEF BInv
  <2>2. /\ Filed(new) /\ new.listeners = rows[r].listeners
        /\ new.pools = rows[r].pools \ {<<p, TRUE>>, <<p, FALSE>>}
        /\ \A k \in PoolKey : /\ new.members[k] \subseteq rows[r].members[k]
                              /\ k[1] = p => new.members[k] = {}
    BY <2>1, PoolGoneLists
  <2>3. PutOrClean(r, new, left)
    BY <1>5
  <2>. HIDE DEF new, left
  <2>4. OListeners' = OListeners
    <3>1. \A l \in Listener : oListener[l] \in ListenerRecord
      BY <1>1, OrBlank
    <3>. QED  BY <1>1, <1>5, <3>1 DEF OListeners, Exists, ListenerRecord
  <2>5. \A q \in OPools : q # p => q \in OPools'
    BY <1>1, <1>5 DEF OPools, Exists
  <2>6. \A m \in OMembers : PoolOf[m] # p => m \in OMembers'
    BY <1>1, <1>5 DEF OMembers, Exists
  <2>7. /\ live' = live
        /\ \A s \in live : /\ rows'[s].listeners = new.listeners
                           /\ rows'[s].pools = new.pools
                           /\ rows'[s].members = new.members
    BY <1>1, <2>2, <2>3, PutOrCleanOne
  <2>8. KeysKnown(new, OListeners', OPools')
    BY <1>2, <2>2, <2>4, <2>5 DEF KeysKnown
  <2>9. ListedKnown(new, OMembers')
    <3>1. ASSUME NEW k \in PoolKey, NEW m \in new.members[k]
          PROVE  m \in OMembers'
      <4>1. m \in rows[r].members[k] /\ k[1] # p
        BY <2>2
      <4>2. PoolOf[m] # p /\ m \in OMembers
        BY <1>2, <2>1, <4>1 DEF Filed, ListedKnown
      <4>. QED  BY <2>6, <4>2
    <3>. QED  BY <3>1 DEF ListedKnown
  <2>10. \A s \in live : /\ KeysKnown(rows'[s], OListeners', OPools')
                         /\ ListedKnown(rows'[s], OMembers')
    BY <2>7, <2>8, <2>9 DEF KeysKnown, ListedKnown
  <2>. QED  BY <1>1, <2>7, <2>10, KnownLeft
<1>. QED  BY <1>1, <1>3, <1>4, <1>5 DEF PoolDelete

LEMMA PoolUpdateKnown ==
    ASSUME OneProtocol, BInv, KnownInv, NEW p \in Pool, NEW up \in Opt(BOOLEAN),
           PoolUpdate(p, up)
    PROVE  KnownInv'
<1>1. /\ Mutable /\ OneRow /\ oListener' = oListener /\ oMember' = oMember
      /\ oPool \in [Pool -> ChildOrBlank] /\ p \in OPools
  BY DEF PoolUpdate, KnownInv, BInv, RecordsOK, OPools
<1>2. PICK prov \in {"ACTIVE", "ERROR"} : oPool' = [oPool EXCEPT ![p] =
         [prov |-> prov, up |-> Given(up, @.up)]]
  BY DEF PoolUpdate
<1>3. OPools' = OPools /\ OListeners' = OListeners /\ OMembers' = OMembers
  BY <1>1, <1>2 DEF OListeners, OPools, OMembers, Exists
<1>4. oLb'.prov # "ABSENT"
  <2>1. oLb' = oLb \/ oLb' = [oLb EXCEPT !.prov = "ERROR"]
    BY DEF PoolUpdate
  <2>. QED  BY <1>1, <2>1 DEF Mutable, BInv, RecordsOK, LbRecord
<1>5. \A s \in live : /\ KeysKnown(rows[s], OListeners', OPools')
                      /\ ListedKnown(rows[s], OMembers')
  BY <1>1, <1>3, KnownFound
<1>6. CASE UNCHANGED <<live, rows>>
  BY <1>4, <1>5, <1>6, KnownLeft
<1>7. ASSUME NEW r \in live, NEW b \in BOOLEAN,
             Put(r, PoolSwitched(rows[r], <<p, ~b>>, <<p, b>>))
      PROVE  KnownInv'
  <2>. DEFINE old == <<p, ~b>>
              fresh == <<p, b>>
              new == PoolSwitched(rows[r], old, fresh)
  <2>1. Filed(rows[r]) /\ old \in PoolKey /\ fresh \in PoolKey
    BY LiveFiled DEF BInv, PoolKey
  <2>2. /\ new.listeners = rows[r].listeners
        /\ new.pools = (rows[r].pools \cup {fresh}) \ {old}
        /\ new.members = With(With(rows[r].members, fresh, rows[r].members[old]), old, {})
    BY <2>1, PoolSwitchedFiled
  <2>3. Put(r, new)
    BY <1>7
  <2>4. \A q \in Pool : <<q, TRUE>> = fresh => q = p
    OBVIOUS
  <2>. HIDE DEF new, old, fresh
  <2>5. KeysKnown(new, OListeners', OPools')
    BY <1>1, <1>3, <1>5, <2>2, <2>4 DEF KeysKnown
  <2>6. rows[r].members \in [PoolKey -> SUBSET Member]
    BY <2>1 DEF Filed, RowContents
  <2>7. ListedKnown(new, OMembers')
    BY <1>5, <2>1, <2>2, <2>6 DEF ListedKnown, With
  <2>8. live' = live /\ \A s \in live : rows'[s] = new
    BY <1>1, <2>3, PutOne
  <2>. QED  BY <1>4, <2>5, <2>7, <2>8, KnownLeft
<1>8. Given(up, TRUE) \in BOOLEAN
  BY DEF Opt, Given
<1>9. \/ UNCHANGED <<live, rows>>
      \/ \E r \in FindRow(ProtocolOf[p]) :
            Put(r, PoolSwitched(rows[r], <<p, ~Given(up, TRUE)>>,
                                         <<p, Given(up, TRUE)>>))
  BY DEF PoolUpdate
<1>. QED  BY <1>6, <1>7, <1>8, <1>9, FindRowLive

\* A handler that leaves a row in which every member listed is known.
LEMMA MembersLeft ==
    ASSUME BInv, KnownInv, Mutable, UNCHANGED <<oLb, oListener, oPool>>,
           NEW r \in live, NEW row, Put(r, row),
           row.listeners = rows[r].listeners, row.pools = rows[r].pools,
           \A k \in PoolKey : \A m \in row.members[k] : m \in OMembers'
    PROVE  KnownInv'
<1>1. OneRow /\ oLb'.prov # "ABSENT"
  BY DEF KnownInv, Mutable
<1>2. live' = live /\ \A s \in live : rows'[s] = row
  BY <1>1, PutOne
<1>3. OListeners' = OListeners /\ OPools' = OPools
  BY DEF OListeners, OPools
<1>4. KeysKnown(rows[r], OListeners, OPools)
  BY KnownFound
<1>5. KeysKnown(row, OListeners', OPools') /\ ListedKnown(row, OMembers')
  BY <1>3, <1>4 DEF KeysKnown, ListedKnown
<1>. QED  BY <1>1, <1>2, <1>5, KnownLeft

LEMMA SameLeft ==
    ASSUME KnownInv, Mutable, UNCHANGED <<oLb, oListener, oPool, live, rows>>,
           OMembers \subseteq OMembers'
    PROVE  KnownInv'
<1>1. oLb'.prov # "ABSENT"
  BY DEF Mutable
<1>2. OListeners' = OListeners /\ OPools' = OPools
  BY DEF OListeners, OPools
<1>3. \A s \in live : KeysKnown(rows[s], OListeners, OPools) /\ ListedKnown(rows[s], OMembers)
  BY KnownFound
<1>4. \A s \in live : /\ KeysKnown(rows'[s], OListeners', OPools')
                      /\ ListedKnown(rows'[s], OMembers')
  BY <1>2, <1>3 DEF ListedKnown
<1>. QED  BY <1>1, <1>4, KnownLeft

LEMMA MemberCreateKnown ==
    ASSUME BInv, KnownInv, NEW m \in Member, NEW up \in CreateStates,
           MemberCreate(m, up)
    PROVE  KnownInv'
<1>. DEFINE record == [prov |-> "ACTIVE", up |-> up]
            marked(row, status) == SetStatus(row, m, IF up THEN status ELSE "OFFLINE")
<1>1. /\ Mutable /\ UNCHANGED <<oLb, oListener, oPool>> /\ PoolOf[m] \in Pool
      /\ up \in BOOLEAN /\ RowsFiled /\ oMember \in [Member -> ChildOrBlank]
  BY ConstantsAssumption DEF MemberCreate, BInv, RecordsOK
<1>2. ASSUME oMember' = [oMember EXCEPT ![m] = record]
      PROVE  OMembers \subseteq OMembers' /\ m \in OMembers'
  BY <1>1, <1>2 DEF OMembers, Exists
<1>. HIDE DEF record
<1>3. CASE MemberRowMissing(m, record)
  BY <1>1, <1>2, <1>3, SameLeft DEF MemberRowMissing
<1>4. ASSUME NEW rk \in PoolRows(PoolOf[m]), NEW status \in {"NO_MONITOR", "ERROR"},
             NEW base \in {rows[rk[1]], MemberJoined(rows[rk[1]], rk[2], m, up)},
             Put(rk[1], marked(base, status)),
             Report(marked(base, status), m, record)
      PROVE  KnownInv'
  <2>1. rk[1] \in live /\ rk[2] \in rows[rk[1]].pools /\ rk[2][1] = PoolOf[m]
        /\ rk[2] \in PoolKey /\ Filed(rows[rk[1]])
    BY <1>1, PoolRowsFiled
  <2>2. /\ Filed(base) /\ base.listeners = rows[rk[1]].listeners
        /\ base.pools = rows[rk[1]].pools
        /\ \/ base.members = rows[rk[1]].members
           \/ base.members = With(rows[rk[1]].members, rk[2],
                                  rows[rk[1]].members[rk[2]] \cup {m})
    <3>. DEFINE row == rows[rk[1]]
                joined == MemberJoined(row, rk[2], m, up)
    <3>1. /\ Filed(joined) /\ joined.listeners = row.listeners
          /\ joined.pools = row.pools
          /\ joined.members = With(row.members, rk[2], row.members[rk[2]] \cup {m})
      <4>1. Filed(row) /\ rk[2] \in row.pools
        BY <2>1
      <4>. HIDE DEF row
      <4>. QED  BY <1>1, <2>1, <4>1, MemberJoinedFiled
    <3>2. base = row \/ base = joined
      BY <1>4
    <3>. HIDE DEF joined
    <3>. QED  BY <2>1, <3>1, <3>2
  <2>. DEFINE new == marked(base, status)
  <2>3. new.listeners = base.listeners /\ new.pools = base.pools
        /\ new.members = base.members
    <3>1. (IF up THEN status ELSE "OFFLINE") \in MemberStatus
      BY DEF MemberStatus
    <3>. QED  BY <2>2, <3>1, StatusFiled
  <2>4. Put(rk[1], new) /\ oMember' = [oMember EXCEPT ![m] = record]
    BY <1>4, ReportGives
  <2>. HIDE DEF new
  <2>5. OMembers \subseteq OMembers' /\ m \in OMembers'
    BY <1>2, <2>4
  <2>6. rows[rk[1]].members \in [PoolKey -> SUBSET Member]
        /\ ListedKnown(rows[rk[1]], OMembers)
    BY <1>1, <2>1, KnownFound DEF Filed, RowContents
  <2>7. \A k \in PoolKey : \A x \in new.members[k] : x \in OMembers'
    BY <2>1, <2>2, <2>3, <2>5, <2>6 DEF ListedKnown, With
  <2>. QED  BY <1>1, <2>1, <2>2, <2>3, <2>4, <2>7, MembersLeft
<1>5. \/ MemberRowMissing(m, record)
      \/ \E rk \in PoolRows(PoolOf[m]) : \E status \in {"NO_MONITOR", "ERROR"} :
         \E base \in {rows[rk[1]], MemberJoined(rows[rk[1]], rk[2], m, up)} :
            /\ Put(rk[1], marked(base, status))
            /\ Report(marked(base, status), m, record)
  BY DEF MemberCreate, record
<1>. QED  BY <1>3, <1>4, <1>5

\* A member that is gone from the row and the records.  Should it be left under the
\* other key of its pool, the row has both keys: the handler raises, and Octavia's
\* request is never answered.
LEMMA MemberGoneKnown ==
    ASSUME BInv, KnownInv, Mutable, UNCHANGED <<oLb, oListener, oPool>>,
           NEW m \in Member, NEW rk \in PoolRows(PoolOf[m]),
           Put(rk[1], Forget(MemberLeft(rows[rk[1]], rk[2], m), m)),
           Report(MemberLeft(rows[rk[1]], rk[2], m), m, AbsentChild)
    PROVE  KnownInv'
<1>. DEFINE r == rk[1]
            k == rk[2]
            left == MemberLeft(rows[r], k, m)
            new == Forget(left, m)
<1>1. /\ OneRow /\ oLb'.prov # "ABSENT" /\ PoolOf[m] \in Pool /\ RowsFiled
      /\ oMember \in [Member -> ChildOrBlank]
  BY ConstantsAssumption DEF KnownInv, Mutable, BInv, RecordsOK
<1>2. r \in live /\ k \in rows[r].pools /\ k[1] = PoolOf[m] /\ k \in PoolKey
      /\ Filed(rows[r])
  BY <1>1, PoolRowsFiled
<1>3. /\ Filed(left) /\ left.listeners = rows[r].listeners
      /\ left.pools = rows[r].pools
      /\ left.members = With(rows[r].members, k, rows[r].members[k] \ {m})
  <2>. HIDE DEF r, k
  <2>. QED  BY <1>2, MemberLeftFiled
<1>4. /\ new.listeners = left.listeners
      /\ new.pools = left.pools /\ new.members = left.members
  <2>. HIDE DEF left
  <2>. QED  BY <1>3, ForgetFiled
<1>5. Put(r, new) /\ (StatusRaises(left) => unanswered')
      /\ oMember' = [oMember EXCEPT ![m] = AbsentChild]
  BY ReportGives DEF Report
<1>6. <<PoolOf[m], TRUE>> \in rows[r].pools => k = <<PoolOf[m], TRUE>>
  BY DEF PoolRows
<1>. HIDE DEF new, left, r, k
<1>7. live' = live /\ \A s \in live : rows'[s] = new
  BY <1>1, <1>2, <1>5, PutOne
<1>8. \A x \in OMembers : x # m => x \in OMembers'
  BY <1>1, <1>5 DEF OMembers, Exists
<1>9. KeysKnown(rows[r], OListeners, OPools) /\ ListedKnown(rows[r], OMembers)
  BY <1>2, KnownFound
<1>10. OListeners' = OListeners /\ OPools' = OPools
  BY DEF OListeners, OPools
<1>11. KeysKnown(new, OListeners', OPools')
  BY <1>3, <1>4, <1>9, <1>10 DEF KeysKnown
<1>12. rows[r].members \in [PoolKey -> SUBSET Member]
  BY <1>2 DEF Filed, RowContents
<1>13. ASSUME NEW j \in PoolKey, NEW x \in new.members[j]
       PROVE  /\ x \in rows[r].members[j] /\ x \in OMembers
              /\ x = m => j # k
  BY <1>2, <1>3, <1>4, <1>9, <1>12, <1>13 DEF ListedKnown, With
<1>14. PlainKnown(new, OPools', OMembers')
  <2>1. ASSUME NEW p \in OPools', NEW x \in new.members[<<p, TRUE>>]
        PROVE  x # m
    <3>1. <<p, TRUE>> \in PoolKey
      BY DEF OPools, PoolKey
    <3>2. x \in rows[r].members[<<p, TRUE>>] /\ (x = m => <<p, TRUE>> # k)
      BY <1>13, <3>1
    <3>3. PoolOf[x] = p /\ <<p, TRUE>> \in rows[r].pools
      BY <1>2, <3>1, <3>2 DEF Filed
    <3>. QED  BY <1>6, <3>2, <3>3
  <2>2. ASSUME NEW p \in OPools', NEW x \in new.members[<<p, TRUE>>]
        PROVE  x \in OMembers'
    <3>1. <<p, TRUE>> \in PoolKey
      BY DEF OPools, PoolKey
    <3>. QED  BY <1>8, <1>13, <2>1, <2>2, <3>1
  <2>. QED  BY <2>2 DEF PlainKnown
<1>15. Mutable' => ListedKnown(new, OMembers')
  <2>1. ASSUME NEW j \in PoolKey, m \in new.members[j]
        PROVE  ~Mutable'
    <3>1. m \in rows[r].members[j] /\ j # k
      BY <1>13, <2>1
    <3>2. j[1] = k[1] /\ j \in rows[r].pools
      BY <1>2, <2>1, <3>1 DEF Filed
    <3>3. k[2] = FALSE \/ j[2] = FALSE
      <4>1. /\ k = <<k[1], k[2]>> /\ j = <<j[1], j[2]>>
            /\ k[2] \in BOOLEAN /\ j[2] \in BOOLEAN
        BY <1>2 DEF PoolKey
      <4>. QED  BY <3>1, <3>2, <4>1
    <3>4. StatusRaises(left)
      BY <1>2, <1>3, <3>2, <3>3 DEF StatusRaises
    <3>. QED  BY <1>5, <3>4 DEF Mutable
  <2>2. ASSUME Mutable', NEW j \in PoolKey, NEW x \in new.members[j]
        PROVE  x \in OMembers'
    BY <1>8, <1>13, <2>1, <2>2
  <2>. QED  BY <2>2 DEF ListedKnown
<1>. QED
  BY <1>1, <1>7, <1>11, <1>14, <1>15 DEF KnownInv, OneRow, RowKnown, DeletedLeavesNothing

LEMMA MemberDeleteKnown ==
    ASSUME BInv, KnownInv, NEW m \in Member, MemberDelete(m)
    PROVE  KnownInv'
<1>. DEFINE failed == [oMember[m] EXCEPT !.prov = "DELETE_ERROR"]
<1>1. /\ Mutable /\ UNCHANGED <<oLb, oListener, oPool>> /\ PoolOf[m] \in Pool
      /\ RowsFiled /\ oMember \in [Member -> ChildOrBlank]
      /\ Exists(oMember[m])
  BY ConstantsAssumption DEF MemberDelete, BInv, RecordsOK
<1>2. CASE MemberRowMissing(m, oMember[m])
  <2>1. OMembers \subseteq OMembers'
    BY <1>1, <1>2 DEF MemberRowMissing, OMembers, Exists
  <2>. QED  BY <1>1, <1>2, <2>1, SameLeft DEF MemberRowMissing
<1>3. ASSUME NEW rk \in PoolRows(PoolOf[m]), NEW sent,
             NEW base \in {rows[rk[1]], MemberLeft(rows[rk[1]], rk[2], m)},
             Put(rk[1], Forget(base, m)), Report(sent, m, failed)
      PROVE  KnownInv'
  <2>. DEFINE new == Forget(base, m)
  <2>1. rk[1] \in live /\ rk[2] \in rows[rk[1]].pools /\ rk[2] \in PoolKey
        /\ Filed(rows[rk[1]])
    BY <1>1, PoolRowsFiled
  <2>2. /\ Filed(base) /\ base.listeners = rows[rk[1]].listeners
        /\ base.pools = rows[rk[1]].pools
        /\ \/ base.members = rows[rk[1]].members
           \/ base.members = With(rows[rk[1]].members, rk[2],
                                  rows[rk[1]].members[rk[2]] \ {m})
    <3>. DEFINE row == rows[rk[1]]
                k == rk[2]
                left == MemberLeft(row, k, m)
    <3>1. /\ Filed(left) /\ left.listeners = row.listeners
          /\ left.pools = row.pools
          /\ left.members = With(row.members, k, row.members[k] \ {m})
      <4>1. Filed(row) /\ k \in row.pools
        BY <2>1
      <4>. HIDE DEF row, k
      <4>. QED  BY <4>1, MemberLeftFiled
    <3>2. base = row \/ base = left
      BY <1>3
    <3>. HIDE DEF left
    <3>. QED  BY <2>1, <3>1, <3>2
  <2>3. new.listeners = base.listeners /\ new.pools = base.pools
        /\ new.members = base.members
    BY <2>2, ForgetFiled
  <2>4. OMembers \subseteq OMembers'
    <3>1. oMember' = [oMember EXCEPT ![m] = failed]
      <4>. HIDE DEF failed
      <4>. QED  BY <1>3, ReportGives
    <3>2. Exists(failed)
      BY <1>1, OrBlank DEF ChildRecord, Exists
    <3>. HIDE DEF failed
    <3>. QED  BY <1>1, <3>1, <3>2 DEF OMembers, Exists
  <2>5. Put(rk[1], new)
    BY <1>3
  <2>. HIDE DEF new
  <2>6. rows[rk[1]].members \in [PoolKey -> SUBSET Member]
        /\ ListedKnown(rows[rk[1]], OMembers)
    BY <1>1, <2>1, KnownFound DEF Filed, RowContents
  <2>7. \A k \in PoolKey : \A x \in new.members[k] : x \in OMembers'
    BY <2>1, <2>2, <2>3, <2>4, <2>6 DEF ListedKnown, With
  <2>. QED  BY <1>1, <2>1, <2>2, <2>3, <2>5, <2>7, MembersLeft
<1>4. ASSUME NEW rk \in PoolRows(PoolOf[m]),
             LET row == rows[rk[1]]
                 left == MemberLeft(row, rk[2], m)
             IN  \/ Put(rk[1], Forget(left, m)) /\ Report(left, m, AbsentChild)
                 \/ Put(rk[1], Forget(row, m)) /\ Report(row, m, failed)
                 \/ Put(rk[1], Forget(left, m)) /\ Report(row, m, failed)
      PROVE  KnownInv'
  <2>. HIDE DEF failed
  <2>. QED  BY <1>1, <1>3, <1>4, MemberGoneKnown
<1>. QED  BY <1>2, <1>4 DEF MemberDelete

LEMMA MemberUpdateKnown ==
    ASSUME BInv, KnownInv, NEW m \in Member, NEW up \in Opt(BOOLEAN),
           MemberUpdate(m, up)
    PROVE  KnownInv'
<1>. DEFINE status(row) == SetStatus(row, m, IF Given(up, TRUE) THEN "NO_MONITOR"
                                                                ELSE "OFFLINE")
            asked(prov) == [prov |-> prov, up |-> Given(up, oMember[m].up)]
<1>1. /\ Mutable /\ UNCHANGED <<oLb, oListener, oPool>> /\ PoolOf[m] \in Pool
      /\ RowsFiled /\ oMember \in [Member -> ChildOrBlank]
  BY ConstantsAssumption DEF MemberUpdate, BInv, RecordsOK
<1>2. ASSUME NEW prov \in {"ACTIVE", "ERROR"},
             oMember' = [oMember EXCEPT ![m] = asked(prov)]
      PROVE  OMembers \subseteq OMembers'
  BY <1>1, <1>2 DEF OMembers, Exists
<1>. HIDE DEF asked
<1>3. CASE MemberRowMissing(m, asked("ACTIVE"))
  BY <1>1, <1>2, <1>3, SameLeft DEF MemberRowMissing
<1>4. ASSUME NEW rk \in PoolRows(PoolOf[m]), NEW sent, NEW prov \in {"ACTIVE", "ERROR"},
             NEW new \in {rows[rk[1]], status(rows[rk[1]]),
                          Refresh(status(rows[rk[1]]))},
             Put(rk[1], new), Report(sent, m, asked(prov))
      PROVE  KnownInv'
  <2>1. rk[1] \in live /\ Filed(rows[rk[1]])
    BY <1>1, PoolRowsFiled
  <2>. DEFINE row == rows[rk[1]]
              set == status(row)
  <2>2. /\ Filed(set) /\ set.listeners = row.listeners /\ set.pools = row.pools
        /\ set.members = row.members
    <3>1. (IF Given(up, TRUE) THEN "NO_MONITOR" ELSE "OFFLINE") \in MemberStatus
      BY DEF MemberStatus
    <3>. QED  BY <2>1, <3>1, StatusFiled
  <2>3. LET fresh == Refresh(set)
        IN  /\ fresh.listeners = set.listeners /\ fresh.pools = set.pools
            /\ fresh.members = set.members
    <3>. HIDE DEF set
    <3>. QED  BY <2>2, RefreshFiled
  <2>4. new = row \/ new = set \/ new = Refresh(set)
    BY <1>4
  <2>. HIDE DEF set
  <2>5. new.listeners = row.listeners /\ new.pools = row.pools
        /\ new.members = row.members
    BY <2>2, <2>3, <2>4
  <2>6. OMembers \subseteq OMembers'
    BY <1>2, <1>4, ReportGives
  <2>7. ListedKnown(row, OMembers)
    BY <1>1, <2>1, KnownFound
  <2>8. \A k \in PoolKey : \A x \in new.members[k] : x \in OMembers'
    BY <2>5, <2>6, <2>7 DEF ListedKnown
  <2>. QED  BY <1>1, <1>4, <2>1, <2>5, <2>8, MembersLeft
<1>5. ASSUME NEW rk \in PoolRows(PoolOf[m]),
             LET row == rows[rk[1]]
                 Sends(new, prov) == Put(rk[1], new) /\ Report(row, m, asked(prov))
             IN  \/ Sends(row, "ACTIVE")
                 \/ Sends(Refresh(status(row)), "ACTIVE")
                 \/ Sends(status(row), "ACTIVE")
                 \/ Sends(status(row), "ERROR")
      PROVE  KnownInv'
  <2>. HIDE DEF status
  <2>. QED  BY <1>4, <1>5
<1>6. \/ MemberRowMissing(m, asked("ACTIVE"))
      \/ \E rk \in PoolRows(PoolOf[m]) :
            LET row == rows[rk[1]]
                Sends(new, prov) == Put(rk[1], new) /\ Report(row, m, asked(prov))
            IN  \/ Sends(row, "ACTIVE")
                \/ Sends(Refresh(status(row)), "ACTIVE")
                \/ Sends(status(row), "ACTIVE")
                \/ Sends(status(row), "ERROR")
  BY DEF MemberUpdate, asked
<1>. HIDE DEF status
<1>. QED  BY <1>3, <1>5, <1>6

LEMMA NextKnown ==
    ASSUME OneProtocol, BInv, KnownInv, Next
    PROVE  KnownInv'
<1>1. ASSUME NEW up \in CreateStates, LbCreate(up) PROVE KnownInv'
  BY <1>1, LbCreateKnown
<1>2. ASSUME NEW up \in BOOLEAN, LbUpdate(up) PROVE KnownInv'
  BY <1>2, LbUpdateKnown
<1>3. ASSUME NEW cascade \in BOOLEAN, LbDelete(cascade) PROVE KnownInv'
  BY <1>3, LbDeleteKnown
<1>4. ASSUME NEW l \in Listener,
             \/ \E up \in CreateStates, dp \in Pool \cup {None} :
                   ListenerCreate(l, up, dp)
             \/ \E up \in Opt(BOOLEAN), dp \in Opt(Pool \cup {None}) :
                   ListenerUpdate(l, up, dp)
             \/ ListenerDelete(l)
      PROVE  KnownInv'
  BY <1>4, ListenerCreateKnown, ListenerUpdateKnown, ListenerDeleteKnown
<1>5. ASSUME NEW p \in Pool,
             \/ \E up \in CreateStates, l \in Listener \cup {None} :
                   PoolCreate(p, up, l)
             \/ \E up \in Opt(BOOLEAN) : PoolUpdate(p, up)
             \/ PoolDelete(p)
      PROVE  KnownInv'
  BY <1>5, PoolCreateKnown, PoolUpdateKnown, PoolDeleteKnown
<1>6. ASSUME NEW m \in Member,
             \/ \E up \in CreateStates : MemberCreate(m, up)
             \/ \E up \in Opt(BOOLEAN) : MemberUpdate(m, up)
             \/ MemberDelete(m)
      PROVE  KnownInv'
  BY <1>6, MemberCreateKnown, MemberUpdateKnown, MemberDeleteKnown
<1>. QED  BY <1>1, <1>2, <1>3, <1>4, <1>5, <1>6 DEF Next

\* What the tool has before it exists.
ToolKnown ==
    tool # Idle =>
        /\ tool.listeners \subseteq OListeners /\ tool.pools \subseteq OPools
        /\ \A m \in tool.members : m \in OMembers /\ PoolOf[m] \in OPools

\* A listener was gone through, so vips were refreshed.
Refreshed ==
    \/ tool.phase = "sync" /\ \E l \in Listener : ListenerDone(l)
    \/ tool.phase = "make"
    \/ tool = Idle /\ runs > 0 /\ \E l \in Listener : Exists(oListener[l])

VipsInv ==
    Refreshed => \A r \in live : KeysKnown(rows[r], OListeners, OPools) =>
                                     VipsKnown(rows[r], OListeners, OMembers)

ForgetInv == KnownInv /\ ToolKnown /\ VipsInv

\* _frame_vip_ips takes members of plain keys only.
LEMMA FramedKnown ==
    ASSUME NEW row, NEW L, NEW P \in SUBSET Pool, NEW M,
           KeysKnown(row, L, P), PlainKnown(row, P, M),
           NEW l \in Listener, NEW m \in FrameVips(row)[l]
    PROVE  l \in L /\ m \in M
<1>1. PICK k \in PoolKey : Routes(row, l, k) /\ m \in row.members[k]
  BY DEF FrameVips
<1>2. <<l, TRUE>> \in row.listeners /\ k \in row.pools /\ k[2] = TRUE
  BY <1>1 DEF Routes, PoolKey
<1>3. k = <<k[1], TRUE>> /\ k[1] \in Pool
  <2>1. k = <<k[1], k[2]>> /\ k[1] \in Pool
    BY DEF PoolKey
  <2>. QED  BY <1>2, <2>1
<1>4. k[1] \in P
  BY <1>2, <1>3 DEF KeysKnown
<1>. QED  BY <1>1, <1>2, <1>3, <1>4 DEF KeysKnown, PlainKnown

\* A step of the tool that puts into a row nothing but what exists.
LEMMA RowStays ==
    ASSUME BInv, KnownInv, NEW r \in live, NEW row, Put(r, row),
           UNCHANGED <<oListener, oPool, oMember, unanswered>>, oLb'.prov = oLb.prov,
           \A l \in Listener : <<l, TRUE>> \in row.listeners =>
               <<l, TRUE>> \in rows[r].listeners \/ l \in OListeners,
           \A p \in Pool : <<p, TRUE>> \in row.pools =>
               <<p, TRUE>> \in rows[r].pools \/ p \in OPools,
           \A k \in PoolKey : \A m \in row.members[k] :
               m \in rows[r].members[k] \/ m \in OMembers
    PROVE  /\ KnownInv' /\ live' = live /\ \A s \in live : rows'[s] = row
           /\ UNCHANGED <<OListeners, OPools, OMembers>>
<1>1. live' = live /\ \A s \in live : rows'[s] = row
  BY PutOne DEF KnownInv
<1>2. UNCHANGED <<OListeners, OPools, OMembers>>
  BY DEF OListeners, OPools, OMembers
<1>3. RowKnown(r) /\ (Mutable' => Mutable)
  BY DEF KnownInv, Mutable
<1>4. PlainKnown(row, OPools, OMembers)
  <2>1. ASSUME NEW p \in OPools, NEW m \in row.members[<<p, TRUE>>]
        PROVE  m \in OMembers
    <3>1. <<p, TRUE>> \in PoolKey
      BY DEF PoolKey, OPools
    <3>. QED  BY <1>3, <3>1 DEF RowKnown, PlainKnown
  <2>. QED  BY <2>1 DEF PlainKnown
<1>5. Mutable' => ListedKnown(row, OMembers)
  BY <1>3 DEF RowKnown, ListedKnown
<1>6. oLb'.prov = "ACTIVE" => KeysKnown(row, OListeners, OPools)
  BY <1>3 DEF RowKnown, KeysKnown
<1>7. \A s \in live' : RowKnown(s)'
  BY <1>1, <1>2, <1>4, <1>5, <1>6 DEF RowKnown
<1>. QED  BY <1>1, <1>2, <1>7 DEF KnownInv, OneRow, DeletedLeavesNothing

\* vips of the row that was put are fresh, or those that were known before.
LEMMA VipsStay ==
    ASSUME KnownInv', VipsInv, NEW r \in live, NEW row, NEW framed,
           live' = live, \A s \in live : rows'[s] = row,
           UNCHANGED <<OListeners, OPools, OMembers>>,
           \/ /\ row.vips = FrameVips(framed)
              /\ framed.listeners = row.listeners /\ framed.pools = row.pools
              /\ framed.members = row.members
           \/ /\ row.vips = rows[r].vips /\ (Refreshed' => Refreshed)
              /\ rows[r].listeners \subseteq row.listeners
              /\ rows[r].pools \subseteq row.pools
    PROVE  VipsInv'
<1>. SUFFICES ASSUME Refreshed', KeysKnown(row, OListeners, OPools)
              PROVE  VipsKnown(row, OListeners, OMembers)
  BY DEF VipsInv, KeysKnown, VipsKnown
<1>1. PlainKnown(row, OPools, OMembers) /\ OPools \in SUBSET Pool
  BY DEF KnownInv, RowKnown, OPools
<1>2. CASE /\ row.vips = FrameVips(framed)
           /\ framed.listeners = row.listeners /\ framed.pools = row.pools
           /\ framed.members = row.members
  <2>1. KeysKnown(framed, OListeners, OPools) /\ PlainKnown(framed, OPools, OMembers)
    BY <1>1, <1>2, SameKnown
  <2>. QED  BY <1>1, <1>2, <2>1, FramedKnown DEF VipsKnown
<1>3. CASE /\ row.vips = rows[r].vips /\ (Refreshed' => Refreshed)
           /\ rows[r].listeners \subseteq row.listeners
           /\ rows[r].pools \subseteq row.pools
  <2>1. KeysKnown(rows[r], OListeners, OPools)
    BY <1>3 DEF KeysKnown
  <2>2. VipsKnown(rows[r], OListeners, OMembers)
    BY <1>3, <2>1 DEF VipsInv
  <2>. QED  BY <1>3, <2>2 DEF VipsKnown
<1>. QED  BY <1>2, <1>3

LEMMA IdleForgets ==
    ASSUME KnownInv', tool' = Idle, runs' = 0
    PROVE  ForgetInv'
BY DEF ForgetInv, ToolKnown, VipsInv, Refreshed, Idle

LEMMA BeginForgets ==
    ASSUME SyncInv, ForgetInv, Begin
    PROVE  ForgetInv'
<1>1. PICK r \in live : SyncRow(r, live \ {r}, Owed)
  BY DEF Begin
<1>. DEFINE row == LbSync(rows[r])
<1>2. BInv /\ KnownInv /\ rows \in [Row -> RowContents]
      /\ UNCHANGED <<live, oLb, oListener, oPool, oMember, unanswered>>
  BY DEF SyncInv, TypesInv, ForgetInv, Begin, BInv, RowsFiled
<1>3. /\ row.listeners = rows[r].listeners
      /\ row.pools = rows[r].pools /\ row.members = rows[r].members
  <2>1. Filed(rows[r])
    BY <1>2, LiveFiled DEF BInv
  <2>. QED  BY <1>2, <2>1, LbSyncGives
<1>4. Put(r, row)
  BY <1>1, <1>2 DEF Put, SyncRow
<1>. HIDE DEF row
<1>5. KnownInv'
  BY <1>2, <1>3, <1>4, RowStays
<1>6. tool' = [phase |-> "sync", row |-> r, todo |-> live \ {r},
               listeners |-> {l \in Listener : Exists(oListener[l])},
               pools |-> {p \in Pool : Exists(oPool[p])},
               members |-> {}, kept |-> Owed]
  BY <1>1 DEF SyncRow, Enters
<1>7. ToolKnown'
  BY <1>2, <1>6 DEF ToolKnown, OListeners, OPools
<1>8. ~Refreshed'
  <2>1. tool'.phase = "sync" /\ tool' # Idle
    BY <1>6 DEF Idle
  <2>2. \A l \in Listener : ~ListenerDone(l)'
    BY <1>2, <1>6 DEF ListenerDone, Exists
  <2>. QED  BY <2>1, <2>2 DEF Refreshed
<1>. QED  BY <1>5, <1>7, <1>8 DEF ForgetInv, VipsInv

LEMMA SyncListenerForgets ==
    ASSUME SyncInv, ForgetInv, NEW l \in Listener, SyncListener(l)
    PROVE  ForgetInv'
<1>. DEFINE r == tool.row
            row == ListenerSync(rows[r], l)
            key == <<l, oListener[l].up>>
<1>1. /\ BInv /\ KnownInv /\ ToolKnown /\ VipsInv /\ rows \in [Row -> RowContents]
      /\ UNCHANGED <<live, oLb, oListener, oPool, oMember, unanswered, runs>>
      /\ tool \in Working /\ tool.phase = "sync" /\ l \in tool.listeners
      /\ r \in live /\ Filed(rows[r])
  BY AtWork, CurrentFiled
     DEF SyncInv, TypesInv, ForgetInv, SyncListener, BInv, RowsFiled, AtRow
<1>2. /\ rows' = [rows EXCEPT ![r] = row]
      /\ tool' = [tool EXCEPT !.listeners = @ \ {l}]
  BY DEF SyncListener
<1>3. /\ row.listeners = rows[r].listeners \cup {key}
      /\ row.pools = rows[r].pools /\ row.members = rows[r].members
      /\ row.vips = FrameVips(row)
  <2>. HIDE DEF r
  <2>. QED  BY <1>1, ListenerSyncGives
<1>4. tool # Idle /\ l \in OListeners
  BY <1>1 DEF ToolKnown, Idle
<1>5. Put(r, row)
  BY <1>1, <1>2 DEF Put
<1>6. \A k \in Listener : <<k, TRUE>> = key => k = l
  OBVIOUS
<1>. HIDE DEF row, key, r
<1>7. /\ KnownInv' /\ live' = live /\ \A s \in live : rows'[s] = row
      /\ UNCHANGED <<OListeners, OPools, OMembers>>
  <2>1. oLb'.prov = oLb.prov
    BY <1>1
  <2>2. \A k \in Listener : <<k, TRUE>> \in row.listeners =>
            <<k, TRUE>> \in rows[r].listeners \/ k \in OListeners
    BY <1>3, <1>4, <1>6
  <2>3. \A p \in Pool : <<p, TRUE>> \in row.pools =>
            <<p, TRUE>> \in rows[r].pools \/ p \in OPools
    BY <1>3
  <2>4. \A k \in PoolKey : \A m \in row.members[k] :
            m \in rows[r].members[k] \/ m \in OMembers
    BY <1>3
  <2>. QED  BY <1>1, <1>5, <2>1, <2>2, <2>3, <2>4, RowStays
<1>8. ToolKnown'
  BY <1>1, <1>2, <1>4, <1>7 DEF ToolKnown, Working
<1>9. VipsInv'
  BY <1>1, <1>3, <1>7, VipsStay
<1>. QED  BY <1>7, <1>8, <1>9 DEF ForgetInv

LEMMA SyncPoolForgets ==
    ASSUME SyncInv, ForgetInv, NEW p \in Pool, SyncPool(p)
    PROVE  ForgetInv'
<1>. DEFINE r == tool.row
            key == <<p, oPool[p].up>>
<1>1. /\ BInv /\ KnownInv /\ ToolKnown /\ VipsInv /\ rows \in [Row -> RowContents]
      /\ UNCHANGED <<live, oLb, oListener, oPool, oMember, unanswered, runs>>
      /\ tool \in Working /\ tool.phase = "sync" /\ p \in tool.pools
      /\ r \in live /\ Filed(rows[r])
  BY AtWork, CurrentFiled
     DEF SyncInv, TypesInv, ForgetInv, SyncPool, BInv, RowsFiled, AtRow
<1>2. /\ \E l \in NamedFor(p) : rows' = [rows EXCEPT ![r] = PoolSync(rows[r], p, l)]
      /\ tool' = [tool EXCEPT !.pools = @ \ {p}, !.members = MembersOf(p)]
  BY DEF SyncPool
<1>3. PICK l \in NamedFor(p) : rows' = [rows EXCEPT ![r] = PoolSync(rows[r], p, l)]
  BY <1>2
<1>. DEFINE row == PoolSync(rows[r], p, l)
<1>4. /\ row.listeners = rows[r].listeners
      /\ row.pools = rows[r].pools \cup {key}
      /\ row.members = With(rows[r].members, key, {})
      /\ row.vips = rows[r].vips
  <2>. HIDE DEF r, row
  <2>1. PoolSynced(PoolSync(rows[r], p, l), rows[r], p, l)
    BY <1>1, PoolSyncGives
  <2>. QED  BY <2>1 DEF PoolSynced, row
<1>5. tool # Idle /\ p \in OPools
  BY <1>1 DEF ToolKnown, Idle
<1>6. Put(r, row)
  BY <1>1, <1>3 DEF Put
<1>7. \A q \in Pool : <<q, TRUE>> = key => q = p
  OBVIOUS
<1>8. rows[r].members \in [PoolKey -> SUBSET Member]
  BY <1>1 DEF Filed, RowContents
<1>. HIDE DEF row, key, r
<1>9. /\ KnownInv' /\ live' = live /\ \A s \in live : rows'[s] = row
      /\ UNCHANGED <<OListeners, OPools, OMembers>>
  <2>1. oLb'.prov = oLb.prov
    BY <1>1
  <2>2. \A k \in Listener : <<k, TRUE>> \in row.listeners =>
            <<k, TRUE>> \in rows[r].listeners \/ k \in OListeners
    BY <1>4
  <2>3. \A q \in Pool : <<q, TRUE>> \in row.pools =>
            <<q, TRUE>> \in rows[r].pools \/ q \in OPools
    BY <1>4, <1>5, <1>7
  <2>4. \A k \in PoolKey : \A m \in row.members[k] :
            m \in rows[r].members[k] \/ m \in OMembers
    BY <1>4, <1>8 DEF With
  <2>. QED  BY <1>1, <1>6, <2>1, <2>2, <2>3, <2>4, RowStays
<1>10. ToolKnown'
  <2>1. tool'.listeners = tool.listeners /\ tool'.pools \subseteq tool.pools
        /\ tool'.members = MembersOf(p)
    BY <1>1, <1>2 DEF Working
  <2>2. \A m \in MembersOf(p) : m \in OMembers /\ PoolOf[m] \in OPools
    BY <1>5 DEF MembersOf, OMembers
  <2>. QED  BY <1>1, <1>5, <1>9, <2>1, <2>2 DEF ToolKnown
<1>11. Refreshed' => Refreshed
  <2>1. tool'.phase = "sync" /\ tool' # Idle /\ tool'.listeners = tool.listeners
    BY <1>1, <1>2 DEF Working, Idle
  <2>2. \A k \in Listener : ListenerDone(k)' => ListenerDone(k)
    BY <1>1, <2>1 DEF ListenerDone, Exists
  <2>. QED  BY <1>1, <2>1, <2>2 DEF Refreshed
<1>12. VipsInv'
  <2>1. rows[r].listeners \subseteq row.listeners /\ rows[r].pools \subseteq row.pools
    BY <1>4
  <2>. QED  BY <1>1, <1>4, <1>9, <1>11, <2>1, VipsStay
<1>. QED  BY <1>9, <1>10, <1>12 DEF ForgetInv

LEMMA SyncMemberForgets ==
    ASSUME SyncInv, ForgetInv, NEW m \in Member, SyncMember(m)
    PROVE  ForgetInv'
<1>. DEFINE r == tool.row
            key == <<PoolOf[m], oPool[PoolOf[m]].up>>
            row == MemberSync(rows[r], m)
            joined == PutPool(rows[r], key, rows[r].members[key] \cup {m})
<1>1. /\ BInv /\ KnownInv /\ ToolKnown /\ VipsInv /\ rows \in [Row -> RowContents]
      /\ UNCHANGED <<live, oLb, oListener, oPool, oMember, unanswered, runs>>
      /\ tool \in Working /\ tool.phase = "sync" /\ m \in tool.members
      /\ r \in live /\ Filed(rows[r])
  BY AtWork, CurrentFiled
     DEF SyncInv, TypesInv, ForgetInv, SyncMember, BInv, RowsFiled, AtRow
<1>2. /\ rows' = [rows EXCEPT ![r] = row]
      /\ tool' = [tool EXCEPT !.members = @ \ {m}]
  BY DEF SyncMember
<1>3. /\ row.listeners = rows[r].listeners
      /\ row.pools = rows[r].pools \cup {key}
      /\ row.members = With(rows[r].members, key, rows[r].members[key] \cup {m})
      /\ joined.listeners = rows[r].listeners
      /\ joined.pools = row.pools /\ joined.members = row.members
      /\ row.vips = IF oMember[m].up THEN FrameVips(joined) ELSE rows[r].vips
  <2>. HIDE DEF r
  <2>. QED  BY <1>1, MemberSyncGives
<1>4. tool # Idle /\ m \in OMembers /\ PoolOf[m] \in OPools
  BY <1>1 DEF ToolKnown, Idle
<1>5. Put(r, row)
  BY <1>1, <1>2 DEF Put
<1>6. \A q \in Pool : <<q, TRUE>> = key => q = PoolOf[m]
  OBVIOUS
<1>7. rows[r].members \in [PoolKey -> SUBSET Member]
  BY <1>1 DEF Filed, RowContents
<1>. HIDE DEF row, joined, key, r
<1>8. /\ KnownInv' /\ live' = live /\ \A s \in live : rows'[s] = row
      /\ UNCHANGED <<OListeners, OPools, OMembers>>
  <2>1. oLb'.prov = oLb.prov
    BY <1>1
  <2>2. \A k \in Listener : <<k, TRUE>> \in row.listeners =>
            <<k, TRUE>> \in rows[r].listeners \/ k \in OListeners
    BY <1>3
  <2>3. \A q \in Pool : <<q, TRUE>> \in row.pools =>
            <<q, TRUE>> \in rows[r].pools \/ q \in OPools
    BY <1>3, <1>4, <1>6
  <2>4. \A k \in PoolKey : \A x \in row.members[k] :
            x \in rows[r].members[k] \/ x \in OMembers
    BY <1>3, <1>4, <1>7 DEF With
  <2>. QED  BY <1>1, <1>5, <2>1, <2>2, <2>3, <2>4, RowStays
<1>9. ToolKnown'
  BY <1>1, <1>2, <1>4, <1>8 DEF ToolKnown, Working
<1>10. Refreshed' => Refreshed
  <2>1. tool'.phase = "sync" /\ tool' # Idle /\ tool'.listeners = tool.listeners
    BY <1>1, <1>2 DEF Working, Idle
  <2>2. \A k \in Listener : ListenerDone(k)' => ListenerDone(k)
    BY <1>1, <2>1 DEF ListenerDone, Exists
  <2>. QED  BY <1>1, <2>1, <2>2 DEF Refreshed
<1>11. VipsInv'
  <2>1. rows[r].listeners \subseteq row.listeners /\ rows[r].pools \subseteq row.pools
        /\ joined.listeners = row.listeners
    BY <1>3
  <2>2. row.vips = FrameVips(joined) \/ row.vips = rows[r].vips
    BY <1>3
  <2>. QED  BY <1>1, <1>3, <1>8, <1>10, <2>1, <2>2, VipsStay
<1>. QED  BY <1>8, <1>9, <1>11 DEF ForgetInv

\* A row whose statuses can be computed mentions what exists, under plain keys.
LEMMA ComputedKnown ==
    ASSUME NEW row, Filed(row), ~StatusRaises(row), PlainKnown(row, OPools, OMembers)
    PROVE  KeysKnown(row, OListeners, OPools) /\ ListedKnown(row, OMembers)
<1>1. /\ \A k \in row.listeners : k[2] /\ oListener[k[1]].prov # "ABSENT"
      /\ \A k \in row.pools : k[2] /\ oPool[k[1]].prov # "ABSENT"
  BY DEF StatusRaises
<1>2. KeysKnown(row, OListeners, OPools)
  BY <1>1 DEF KeysKnown, OListeners, OPools, Exists
<1>3. ASSUME NEW k \in PoolKey, NEW m \in row.members[k]
      PROVE  m \in OMembers
  <2>1. k \in row.pools
    BY <1>3 DEF Filed
  <2>2. k = <<k[1], k[2]>> /\ k[2] \in BOOLEAN /\ k[1] \in Pool
    BY DEF PoolKey
  <2>3. k[2] = TRUE
    BY <1>1, <2>1, <2>2
  <2>4. k[1] \in OPools
    BY <1>1, <2>1, <2>2 DEF OPools, Exists
  <2>5. k = <<k[1], TRUE>>
    BY <2>2, <2>3
  <2>6. m \in row.members[<<k[1], TRUE>>]
    BY <1>3, <2>5
  <2>. QED  BY <2>4, <2>6 DEF PlainKnown
<1>. QED  BY <1>2, <1>3 DEF ListedKnown

LEMMA EndRowForgets ==
    ASSUME SyncInv, ForgetInv, EndRow
    PROVE  ForgetInv'
<1>1. /\ BInv /\ KnownInv /\ VipsInv /\ tool.phase = "sync" /\ tool.row \in live
      /\ tool.todo = {} /\ tool.listeners = {} /\ OneRow
  BY DEF SyncInv, TypesInv, ForgetInv, EndRow, AtRow, KnownInv, OneRow, Done
<1>2. ASSUME UNCHANGED <<live, rows, OListeners, OPools, OMembers>>, tool' = Idle,
             KnownInv', \A l \in Listener : Exists(oListener[l])' => Exists(oListener[l])
      PROVE  ForgetInv'
  <2>1. ToolKnown'
    BY <1>2 DEF ToolKnown
  <2>2. Refreshed' => Refreshed
    <3>1. tool'.phase = "idle"
      BY <1>2 DEF Idle
    <3>2. \A l \in Listener : Exists(oListener[l])' => ListenerDone(l)
      BY <1>1, <1>2 DEF ListenerDone
    <3>. QED  BY <1>1, <3>1, <3>2 DEF Refreshed
  <2>3. VipsInv'
    BY <1>1, <1>2, <2>2 DEF VipsInv
  <2>. QED  BY <1>2, <2>1, <2>3 DEF ForgetInv
<1>3. CASE UNCHANGED vars /\ tool' = Idle
  <2>1. UNCHANGED <<OListeners, OPools, OMembers>>
    BY <1>3 DEF vars, OListeners, OPools, OMembers
  <2>2. KnownInv'
    BY <1>1, <1>3, <2>1 DEF vars, KnownInv, OneRow, DeletedLeavesNothing, RowKnown, Mutable
  <2>. QED  BY <1>2, <1>3, <2>1, <2>2 DEF vars, Exists
<1>4. CASE /\ ~StatusRaises(rows[tool.row]) /\ AllReported
           /\ UNCHANGED <<live, rows>> /\ tool' = Idle
  <2>1. /\ \A l \in Listener : Exists(oListener[l])' = Exists(oListener[l])
        /\ \A p \in Pool : Exists(oPool[p])' = Exists(oPool[p])
        /\ \A m \in Member : Exists(oMember[m])' = Exists(oMember[m])
    BY <1>1, <1>4, ReportedSame DEF BInv
  <2>2. UNCHANGED <<OListeners, OPools, OMembers>>
    BY <2>1 DEF OListeners, OPools, OMembers
  <2>3. oLb'.prov # "ABSENT"
    <3>1. Exists(oLb)
      BY <1>1 DEF KnownInv, DeletedLeavesNothing, Exists
    <3>. QED  BY <1>1, <1>4, <3>1 DEF AllReported, Reported, BInv, RecordsOK, LbRecord
  <2>4. \A s \in live : /\ KeysKnown(rows'[s], OListeners', OPools')
                        /\ ListedKnown(rows'[s], OMembers')
    <3>1. \A s \in live : s = tool.row
      BY <1>1 DEF OneRow
    <3>2. Filed(rows[tool.row]) /\ PlainKnown(rows[tool.row], OPools, OMembers)
      BY <1>1, LiveFiled DEF BInv, KnownInv, RowKnown
    <3>3. /\ KeysKnown(rows[tool.row], OListeners, OPools)
          /\ ListedKnown(rows[tool.row], OMembers)
      BY <1>4, <3>2, ComputedKnown
    <3>. QED  BY <1>4, <2>2, <3>1, <3>3
  <2>5. KnownInv'
    BY <1>1, <1>4, <2>3, <2>4, KnownLeft
  <2>. QED  BY <1>2, <1>4, <2>1, <2>2, <2>5
<1>. QED  BY <1>1, <1>3, <1>4 DEF EndRow, Ends

LEMMA MakeForgets ==
    ASSUME SyncInv, ForgetInv, Make
    PROVE  ForgetInv'
<1>1. PICK r \in Row : Put(r, NewRow(NoProtocol, oLb.up)) /\ Enters("make", r, {}, {})
  BY DEF Make
<1>2. live = {} /\ rows \in [Row -> RowContents] /\ Exists(oLb)
      /\ UNCHANGED <<oLb, oListener, oPool, oMember, unanswered>>
  BY DEF SyncInv, TypesInv, BInv, RowsFiled, Make
<1>3. live' = {r} /\ rows'[r] = NewRow(NoProtocol, oLb.up)
  BY <1>1, <1>2 DEF Put
<1>4. UNCHANGED <<OListeners, OPools, OMembers>> /\ OPools \in SUBSET Pool
  BY <1>2 DEF OListeners, OPools, OMembers
<1>5. KnownInv'
  BY <1>2, <1>3, <1>4, NewKnown
     DEF KnownInv, OneRow, DeletedLeavesNothing, RowKnown, Exists
<1>6. VipsInv'
  BY <1>3, <1>4, NewKnown DEF VipsInv
<1>7. ToolKnown'
  BY <1>1, <1>2 DEF ToolKnown, Enters, OListeners, OPools
<1>. QED  BY <1>5, <1>6, <1>7 DEF ForgetInv

\* What the tool has before it while it makes things.
LEMMA StillKnown ==
    ASSUME ToolKnown, tool \in Working, UNCHANGED <<OListeners, OPools, OMembers>>,
           \/ tool' = Idle
           \/ \E l \in Listener : tool' = [tool EXCEPT !.listeners = @ \ {l}]
           \/ \E m \in Member : tool' = [tool EXCEPT !.members = @ \ {m}]
    PROVE  ToolKnown'
<1>1. tool # Idle
  BY DEF Working, Idle
<1>. QED  BY <1>1 DEF ToolKnown, Working

LEMMA MakeListenerForgets ==
    ASSUME OneProtocol, SyncInv, ForgetInv, NEW l \in Listener, MakeListener(l)
    PROVE  ForgetInv'
<1>. DEFINE key == <<l, oListener[l].up>>
            ref == RefOf(l)
<1>1. /\ BInv /\ KnownInv /\ ToolKnown /\ VipsInv /\ OneRow /\ tool \in Working
      /\ tool.phase = "make" /\ l \in tool.listeners
      /\ UNCHANGED <<oListener, oPool, oMember, unanswered, runs>>
      /\ tool' = [tool EXCEPT !.listeners = @ \ {l}]
  BY AtWork DEF SyncInv, TypesInv, ForgetInv, KnownInv, MakeListener
<1>2. key \in ListenerKey /\ ref \in SUBSET PoolRef /\ oListener[l].up \in BOOLEAN
      /\ ProtocolOf[l] \in Protocol
  BY <1>1, RefOfType, ConstantsAssumption
<1>3. PICK o \in Obtain(ProtocolOf[l], oListener[l].up) :
         /\ Put(o.id, Refresh(PutListener(o.row, key, ref)))
         /\ oLb' = [oLb EXCEPT !.vipPort = o.port]
  BY DEF MakeListener
<1>4. /\ o.id \in live /\ Filed(o.row)
      /\ o.row.listeners = rows[o.id].listeners
      /\ o.row.pools = rows[o.id].pools
      /\ o.row.members = rows[o.id].members
  BY <1>1, <1>2, ObtainOne
<1>. DEFINE put == PutListener(o.row, key, ref)
            row == Refresh(put)
<1>5. /\ Filed(put) /\ put.listeners = o.row.listeners \cup {key}
      /\ put.pools = o.row.pools /\ put.members = o.row.members
  <2>. HIDE DEF key, ref
  <2>. QED  BY <1>2, <1>4, PutListenerFiled
<1>6. /\ row.listeners = put.listeners /\ row.pools = put.pools
      /\ row.members = put.members /\ row.vips = FrameVips(put)
  <2>. HIDE DEF put
  <2>. QED  BY <1>5, RefreshFiled
<1>7. Put(o.id, row)
  BY <1>3
<1>8. \A k \in Listener : <<k, TRUE>> = key => k = l
  OBVIOUS
<1>9. tool # Idle /\ l \in OListeners
  BY <1>1 DEF ToolKnown, Working, Idle
<1>. HIDE DEF row, put, key, ref
<1>10. /\ KnownInv' /\ live' = live /\ \A s \in live : rows'[s] = row
       /\ UNCHANGED <<OListeners, OPools, OMembers>>
  <2>1. oLb'.prov = oLb.prov
    BY <1>1, <1>3 DEF BInv, RecordsOK, LbRecord
  <2>2. \A k \in Listener : <<k, TRUE>> \in row.listeners =>
            <<k, TRUE>> \in rows[o.id].listeners \/ k \in OListeners
    BY <1>4, <1>5, <1>6, <1>8, <1>9
  <2>3. \A p \in Pool : <<p, TRUE>> \in row.pools =>
            <<p, TRUE>> \in rows[o.id].pools \/ p \in OPools
    BY <1>4, <1>5, <1>6
  <2>4. \A k \in PoolKey : \A m \in row.members[k] :
            m \in rows[o.id].members[k] \/ m \in OMembers
    BY <1>4, <1>5, <1>6
  <2>. QED  BY <1>1, <1>4, <1>7, <2>1, <2>2, <2>3, <2>4, RowStays
<1>11. ToolKnown'
  BY <1>1, <1>10, StillKnown
<1>12. VipsInv'
  BY <1>1, <1>4, <1>6, <1>10, VipsStay
<1>. QED  BY <1>10, <1>11, <1>12 DEF ForgetInv

LEMMA MakePoolForgets ==
    ASSUME OneProtocol, SyncInv, ForgetInv, NEW p \in Pool, MakePool(p)
    PROVE  ForgetInv'
<1>. DEFINE key == <<p, oPool[p].up>>
<1>1. /\ BInv /\ ToolTyped /\ KnownInv /\ ToolKnown /\ VipsInv /\ OneRow
      /\ tool \in Working /\ tool.phase = "make" /\ p \in tool.pools
      /\ UNCHANGED <<oListener, oPool, oMember, unanswered>>
      /\ \/ tool' = Idle /\ runs' = 0
         \/ tool' = [tool EXCEPT !.pools = @ \ {p}, !.members = MembersOf(p)]
  BY AtWork DEF SyncInv, TypesInv, ForgetInv, KnownInv, MakePool, Ends
<1>2. PICK o \in Obtain(ProtocolOf[p], oPool[p].up), row \in RowContents :
         /\ Put(o.id, row) /\ oLb' = [oLb EXCEPT !.vipPort = o.port]
         /\ row.vips = o.row.vips
         /\ row.listeners = o.row.listeners
         /\ row.pools = o.row.pools \cup {key}
         /\ row.members = With(o.row.members, key, {})
  BY <1>1, MakePoolGives
<1>3. /\ o.id \in live /\ Filed(o.row)
      /\ o.row.listeners = rows[o.id].listeners
      /\ o.row.pools = rows[o.id].pools
      /\ o.row.members = rows[o.id].members
      /\ o.row.vips = rows[o.id].vips
  BY <1>1, PoolKeyType, ObtainOne, ConstantsAssumption
<1>4. \A q \in Pool : <<q, TRUE>> = key => q = p
  OBVIOUS
<1>5. tool # Idle /\ p \in OPools
  BY <1>1 DEF ToolKnown, Working, Idle
<1>. HIDE DEF key
<1>6. /\ KnownInv' /\ live' = live /\ \A s \in live : rows'[s] = row
      /\ UNCHANGED <<OListeners, OPools, OMembers>>
  <2>1. oLb'.prov = oLb.prov
    BY <1>1, <1>2 DEF BInv, RecordsOK, LbRecord
  <2>2. \A k \in Listener : <<k, TRUE>> \in row.listeners =>
            <<k, TRUE>> \in rows[o.id].listeners \/ k \in OListeners
    BY <1>2, <1>3
  <2>3. \A q \in Pool : <<q, TRUE>> \in row.pools =>
            <<q, TRUE>> \in rows[o.id].pools \/ q \in OPools
    BY <1>2, <1>3, <1>4, <1>5
  <2>4. o.row.members \in [PoolKey -> SUBSET Member]
    BY <1>3 DEF Filed, RowContents
  <2>5. \A k \in PoolKey : \A m \in row.members[k] :
            m \in rows[o.id].members[k] \/ m \in OMembers
    BY <1>2, <1>3, <2>4 DEF With
  <2>6. /\ BInv /\ KnownInv /\ o.id \in live /\ Put(o.id, row)
        /\ UNCHANGED <<oListener, oPool, oMember, unanswered>>
    BY <1>1, <1>2, <1>3
  <2>. DEFINE id == o.id
  <2>. HIDE DEF id
  <2>7. /\ id \in live /\ Put(id, row)
        /\ \A k \in Listener : <<k, TRUE>> \in row.listeners =>
               <<k, TRUE>> \in rows[id].listeners \/ k \in OListeners
        /\ \A q \in Pool : <<q, TRUE>> \in row.pools =>
               <<q, TRUE>> \in rows[id].pools \/ q \in OPools
        /\ \A k \in PoolKey : \A m \in row.members[k] :
               m \in rows[id].members[k] \/ m \in OMembers
    BY <2>2, <2>3, <2>5, <2>6 DEF id
  <2>. QED  BY <2>1, <2>6, <2>7, RowStays
<1>7. CASE tool' = Idle /\ runs' = 0
  BY <1>6, <1>7, IdleForgets
<1>8. CASE tool' = [tool EXCEPT !.pools = @ \ {p}, !.members = MembersOf(p)]
  <2>1. ToolKnown'
    <3>1. tool'.listeners = tool.listeners /\ tool'.pools \subseteq tool.pools
          /\ tool'.members = MembersOf(p)
      BY <1>1, <1>8 DEF Working
    <3>2. \A m \in MembersOf(p) : m \in OMembers /\ PoolOf[m] \in OPools
      BY <1>5 DEF MembersOf, OMembers
    <3>. QED  BY <1>1, <1>5, <1>6, <3>1, <3>2 DEF ToolKnown
  <2>2. Refreshed' => Refreshed
    BY <1>1 DEF Refreshed
  <2>3. VipsInv'
    <3>1. /\ row.vips = rows[o.id].vips
          /\ rows[o.id].listeners \subseteq row.listeners
          /\ rows[o.id].pools \subseteq row.pools
      BY <1>2, <1>3
    <3>. QED  BY <1>1, <1>3, <1>6, <2>2, <3>1, VipsStay
  <2>. QED  BY <1>6, <2>1, <2>3 DEF ForgetInv
<1>. QED  BY <1>1, <1>7, <1>8

LEMMA MakeMemberForgets ==
    ASSUME SyncInv, ForgetInv, NEW m \in Member, MakeMember(m)
    PROVE  ForgetInv'
<1>1. /\ BInv /\ ToolTyped /\ KnownInv /\ ToolKnown /\ VipsInv /\ OneRow
      /\ tool \in Working /\ tool.phase = "make" /\ m \in tool.members
      /\ UNCHANGED <<oLb, oListener, oPool, oMember, unanswered>>
  BY AtWork DEF SyncInv, TypesInv, ForgetInv, KnownInv, MakeMember
<1>2. PICK rk \in PoolRows(PoolOf[m]), row \in RowContents :
         /\ Put(rk[1], row) /\ rk[1] \in live /\ rk[2] \in rows[rk[1]].pools
         /\ row.listeners = rows[rk[1]].listeners
         /\ row.pools = rows[rk[1]].pools
         /\ row.members = With(rows[rk[1]].members, rk[2],
                               rows[rk[1]].members[rk[2]] \cup {m})
         /\ row.vips = MemberJoined(rows[rk[1]], rk[2], m, oMember[m].up).vips
         /\ \/ tool' = Idle /\ runs' = 0
            \/ tool' = [tool EXCEPT !.members = @ \ {m}]
  <2>1. PICK rk \in PoolRows(PoolOf[m]), row \in RowContents :
         /\ Put(rk[1], row) /\ rk[1] \in live /\ rk[2] \in rows[rk[1]].pools
         /\ row.listeners = rows[rk[1]].listeners
         /\ row.pools = rows[rk[1]].pools
         /\ row.members = With(rows[rk[1]].members, rk[2],
                               rows[rk[1]].members[rk[2]] \cup {m})
         /\ row.vips = MemberJoined(rows[rk[1]], rk[2], m, oMember[m].up).vips
         /\ \/ Ends(0)
            \/ tool' = [tool EXCEPT !.members = @ \ {m}]
    BY <1>1, MakeMemberGives
  <2>. QED  BY <2>1 DEF Ends
<1>. DEFINE r == rk[1]
            k == rk[2]
            joined == PutPool(rows[r], k, rows[r].members[k] \cup {m})
<1>3. tool # Idle /\ m \in OMembers
  BY <1>1 DEF ToolKnown, Working, Idle
<1>4. /\ Filed(rows[r]) /\ k \in PoolKey /\ k[1] = PoolOf[m]
      /\ rows[r].members \in [PoolKey -> SUBSET Member]
  BY <1>1, <1>2, PoolRowsFiled, ConstantsAssumption DEF BInv, Filed, RowContents
<1>5. /\ joined.listeners = row.listeners /\ joined.pools = row.pools
      /\ joined.members = row.members /\ joined.vips = rows[r].vips /\ Filed(joined)
  <2>. DEFINE mems == rows[r].members[k] \cup {m}
  <2>1. mems \in SUBSET Member /\ \A x \in mems : PoolOf[x] = k[1]
    <3>. HIDE DEF r, k
    <3>1. rows[r].members[k] \in SUBSET Member
          /\ \A x \in rows[r].members[k] : PoolOf[x] = k[1]
      BY <1>4 DEF Filed
    <3>. QED  BY <1>4, <3>1
  <2>. HIDE DEF mems, r, k
  <2>2. LET new == PutPool(rows[r], k, mems)
        IN  /\ Filed(new)
            /\ new.listeners = rows[r].listeners
            /\ new.pools = rows[r].pools \cup {k}
            /\ new.members = With(rows[r].members, k, mems)
            /\ new.vips = rows[r].vips
    BY <1>4, <2>1, PutPoolFiled
  <2>3. rows[r].pools \cup {k} = rows[r].pools
    BY <1>2 DEF r, k
  <2>. QED  BY <1>2, <2>2, <2>3 DEF mems, r, k
<1>6. row.vips = FrameVips(joined) \/ row.vips = rows[r].vips
  <2>1. MemberJoined(rows[r], k, m, oMember[m].up).vips
           \in {Refresh(joined).vips, joined.vips}
    BY DEF MemberJoined
  <2>2. Refresh(joined).vips = FrameVips(joined)
    <3>. HIDE DEF joined
    <3>. QED  BY <1>5, RefreshFiled
  <2>. HIDE DEF joined
  <2>. QED  BY <1>2, <1>5, <2>1, <2>2
<1>. HIDE DEF joined
<1>7. /\ KnownInv' /\ live' = live /\ \A s \in live : rows'[s] = row
      /\ UNCHANGED <<OListeners, OPools, OMembers>>
  <2>1. \A x \in Listener : <<x, TRUE>> \in row.listeners =>
            <<x, TRUE>> \in rows[r].listeners \/ x \in OListeners
    BY <1>2
  <2>2. \A x \in Pool : <<x, TRUE>> \in row.pools =>
            <<x, TRUE>> \in rows[r].pools \/ x \in OPools
    BY <1>2
  <2>3. \A j \in PoolKey : \A x \in row.members[j] :
            x \in rows[r].members[j] \/ x \in OMembers
    BY <1>2, <1>3, <1>4 DEF With
  <2>4. Put(r, row) /\ r \in live /\ oLb'.prov = oLb.prov
    BY <1>1, <1>2
  <2>. HIDE DEF r, k
  <2>. QED  BY <1>1, <2>1, <2>2, <2>3, <2>4, RowStays
<1>8. CASE tool' = Idle /\ runs' = 0
  BY <1>7, <1>8, IdleForgets
<1>9. CASE tool' = [tool EXCEPT !.members = @ \ {m}]
  <2>1. ToolKnown'
    BY <1>1, <1>7, <1>9, StillKnown
  <2>2. Refreshed' => Refreshed
    BY <1>1 DEF Refreshed
  <2>3. VipsInv'
    <3>1. r \in live /\ rows[r].listeners \subseteq row.listeners
          /\ rows[r].pools \subseteq row.pools
      BY <1>2
    <3>. HIDE DEF r, k
    <3>. QED  BY <1>1, <1>5, <1>6, <1>7, <2>2, <3>1, VipsStay
  <2>. QED  BY <1>7, <2>1, <2>3 DEF ForgetInv
<1>. QED  BY <1>2, <1>8, <1>9

LEMMA EndMakeForgets ==
    ASSUME ForgetInv, EndMake
    PROVE  ForgetInv'
<1>1. UNCHANGED vars /\ tool' = Idle /\ tool.phase = "make"
  BY DEF EndMake, Ends
<1>2. UNCHANGED <<OListeners, OPools, OMembers>>
  BY <1>1 DEF vars, OListeners, OPools, OMembers
<1>3. KnownInv'
  BY <1>1, <1>2
     DEF ForgetInv, vars, KnownInv, OneRow, DeletedLeavesNothing, RowKnown, Mutable
<1>4. VipsInv'
  BY <1>1, <1>2 DEF ForgetInv, VipsInv, Refreshed, vars
<1>5. ToolKnown'
  BY <1>1 DEF ToolKnown
<1>. QED  BY <1>3, <1>4, <1>5 DEF ForgetInv

LEMMA LoseKnown ==
    ASSUME BInv, KnownInv, Lose
    PROVE  KnownInv'
<1>1. PICK r \in live : LoseRow(r) \/ LoseContents(r)
  BY DEF Lose
<1>2. UNCHANGED <<oLb, OListeners, OPools, OMembers>> /\ (Mutable' => Mutable)
      /\ live \subseteq Row /\ rows \in [Row -> RowContents] /\ r \in Row
  BY <1>1 DEF Lose, OListeners, OPools, OMembers, Mutable, BInv, RowsFiled
<1>3. CASE LoseRow(r)
  <2>1. live' \subseteq live /\ \A s \in live' : rows'[s] = rows[s]
    BY <1>2, <1>3 DEF LoseRow
  <2>2. \A s \in live' : RowKnown(s)'
    BY <1>2, <2>1 DEF KnownInv, RowKnown
  <2>. QED  BY <1>2, <2>1, <2>2 DEF KnownInv, OneRow, DeletedLeavesNothing
<1>4. CASE LoseContents(r)
  <2>1. PICK L \in SUBSET rows[r].listeners, P \in SUBSET rows[r].pools,
             vips \in {rows[r].vips, BlankRow.vips} :
          rows' = [rows EXCEPT
              ![r].listeners = L,
              ![r].refs = [k \in ListenerKey |-> IF k \in L THEN @[k] ELSE {}],
              ![r].pools = P,
              ![r].members = [k \in PoolKey |-> IF k \in P THEN @[k] ELSE {}],
              ![r].vips = vips]
    BY <1>4 DEF LoseContents
  <2>2. /\ live' = live /\ live = {r}
        /\ rows'[r].listeners \subseteq rows[r].listeners
        /\ rows'[r].pools \subseteq rows[r].pools
        /\ \A k \in PoolKey : rows'[r].members[k] \subseteq rows[r].members[k]
    <3>1. live' = live /\ live = {r}
      BY <1>1, <1>4 DEF LoseContents, KnownInv, OneRow
    <3>2. rows[r] \in RowContents
      BY <1>2
    <3>. QED  BY <1>2, <2>1, <3>1, <3>2 DEF RowContents
  <2>3. RowKnown(r)
    BY <1>1 DEF KnownInv
  <2>4. PlainKnown(rows'[r], OPools, OMembers)
    <3>1. ASSUME NEW p \in OPools, NEW m \in rows'[r].members[<<p, TRUE>>]
          PROVE  m \in OMembers
      <4>1. <<p, TRUE>> \in PoolKey
        BY DEF PoolKey, OPools
      <4>. QED  BY <2>2, <2>3, <3>1, <4>1 DEF RowKnown, PlainKnown
    <3>. QED  BY <3>1 DEF PlainKnown
  <2>5. Mutable' => ListedKnown(rows'[r], OMembers)
    BY <1>2, <2>2, <2>3 DEF RowKnown, ListedKnown
  <2>6. oLb.prov = "ACTIVE" => KeysKnown(rows'[r], OListeners, OPools)
    BY <2>2, <2>3 DEF RowKnown, KeysKnown
  <2>7. RowKnown(r)'
    BY <1>2, <2>4, <2>5, <2>6 DEF RowKnown
  <2>. QED  BY <1>2, <2>2, <2>7 DEF KnownInv, OneRow, DeletedLeavesNothing
<1>. QED  BY <1>1, <1>3, <1>4

LEMMA StillForgets ==
    ASSUME ForgetInv, UNCHANGED vars, UNCHANGED <<tool, runs>> \/ Stop
    PROVE  ForgetInv'
<1>1. UNCHANGED <<OListeners, OPools, OMembers>>
  BY DEF vars, OListeners, OPools, OMembers
<1>2. KnownInv'
  BY <1>1 DEF ForgetInv, vars, KnownInv, OneRow, DeletedLeavesNothing, RowKnown, Mutable
<1>3. CASE Stop
  BY <1>2, <1>3, IdleForgets DEF Stop, Ends
<1>4. CASE UNCHANGED <<tool, runs>>
  <2>1. ToolKnown'
    BY <1>1, <1>4 DEF ForgetInv, ToolKnown
  <2>2. Refreshed' => Refreshed
    BY <1>4 DEF Refreshed, ListenerDone, Exists, vars
  <2>3. VipsInv'
    BY <1>1, <2>2 DEF ForgetInv, VipsInv, vars
  <2>. QED  BY <1>2, <2>1, <2>3 DEF ForgetInv
<1>. QED  BY <1>3, <1>4

LEMMA ForgetHolds ==
    ASSUME OneProtocol, SyncInv, ForgetInv, [SyncNext]_syncVars
    PROVE  ForgetInv'
<1>0. BInv /\ KnownInv
  BY DEF SyncInv, TypesInv, ForgetInv
<1>1. CASE Begin
  BY <1>1, BeginForgets
<1>2. ASSUME NEW l \in Listener, SyncListener(l) \/ MakeListener(l) PROVE ForgetInv'
  BY <1>2, SyncListenerForgets, MakeListenerForgets
<1>3. ASSUME NEW p \in Pool, SyncPool(p) \/ MakePool(p) PROVE ForgetInv'
  BY <1>3, SyncPoolForgets, MakePoolForgets
<1>4. ASSUME NEW m \in Member, SyncMember(m) \/ MakeMember(m) PROVE ForgetInv'
  BY <1>4, SyncMemberForgets, MakeMemberForgets
<1>5. CASE EndRow
  BY <1>5, EndRowForgets
<1>6. CASE Make
  BY <1>6, MakeForgets
<1>7. CASE EndMake
  BY <1>7, EndMakeForgets
<1>8. CASE Stop
  BY <1>8, StillForgets DEF Stop
<1>9. CASE Lose
  <2>1. KnownInv'
    BY <1>0, <1>9, LoseKnown
  <2>. QED  BY <1>9, <2>1, IdleForgets DEF Lose
<1>10. CASE Handled
  <2>1. KnownInv'
    BY <1>0, <1>10, NextKnown DEF Handled
  <2>. QED  BY <1>10, <2>1, IdleForgets DEF Handled
<1>11. CASE UNCHANGED syncVars
  BY <1>11, StillForgets DEF syncVars
<1>. QED
  BY <1>1, <1>2, <1>3, <1>4, <1>5, <1>6, <1>7, <1>8, <1>9, <1>10, <1>11
     DEF SyncNext, Sync

\* After a run of the tool that went through and reported (do_sync,
\* _ensure_loadbalancer), what is served exists, whatever users deleted while handlers
\* failed, the database lost rows or an earlier run stopped: for load balancers whose
\* listeners and pools have one protocol, hence one row.  With two, listener_sync
\* gives both rows the same protocol, and a deletion for the other finds neither.
THEOREM NothingComesBack == OneProtocol => (SyncSpec => []SyncForgets)
<1>. SUFFICES ASSUME OneProtocol PROVE SyncSpec => []SyncForgets
  OBVIOUS
<1>1. SyncInit => SyncInv /\ ForgetInv
  <2>. SUFFICES ASSUME SyncInit PROVE SyncInv /\ ForgetInv
    OBVIOUS
  <2>1. SyncInv
    BY InitFiled DEF SyncInit, SyncInv, TypesInv, ToolTyped, Idle
  <2>2. live = {} /\ tool = Idle /\ tool.phase = "idle"
    BY DEF SyncInit, Init, Idle
  <2>3. ForgetInv
    BY <2>2 DEF ForgetInv, KnownInv, OneRow, DeletedLeavesNothing, ToolKnown, VipsInv
  <2>. QED  BY <2>1, <2>3
<1>2. (SyncInv /\ ForgetInv) /\ [SyncNext]_syncVars
         => (SyncInv /\ ForgetInv)'
  BY ServesHolds, ForgetHolds
<1>3. SyncInv /\ ForgetInv => SyncForgets
  <2>. SUFFICES ASSUME SyncInv, ForgetInv, tool = Idle, runs > 0, oLb.prov = "ACTIVE",
                       \E l \in Listener : Exists(oListener[l]),
                       NEW l \in Listener, NEW m \in Backends(l)
                PROVE  Exists(oListener[l]) /\ Exists(oMember[m])
    BY DEF SyncForgets
  <2>1. PICK r \in live : m \in rows[r].vips[l]
    BY DEF Backends
  <2>2. Refreshed /\ KeysKnown(rows[r], OListeners, OPools)
    BY DEF Refreshed, ForgetInv, KnownInv, RowKnown
  <2>3. VipsKnown(rows[r], OListeners, OMembers)
    BY <2>2 DEF ForgetInv, VipsInv
  <2>. QED  BY <2>1, <2>3 DEF VipsKnown, OListeners, OMembers
<1>. QED  BY <1>1, <1>2, <1>3, PTL DEF SyncSpec
=============================================================================
