----------------------- MODULE OvnLoadBalancerProofs -----------------------
(***************************************************************************)
(* What holds of OvnLoadBalancer for any number of rows, listeners, pools  *)
(* and members, whichever database calls fail.  The inductive invariant is *)
(* the type, ProtocolsDistinct, OneKey and DeletedLeavesNothing together:  *)
(* a row may take a protocol because, having none, it has no keys; it has  *)
(* none because its keys are of its own protocol; and the first row of a   *)
(* load balancer may be without protocol because no other row is left.     *)
(***************************************************************************)
EXTENDS OvnLoadBalancer, TLAPS

\* The part of OneKey that speaks of a single row.
RowKeysOK(row) ==
    /\ \A k \in row.listeners : /\ <<k[1], ~k[2]>> \notin row.listeners
                                /\ row.protocol = ProtocolOf[k[1]]
    /\ \A k \in row.pools : /\ <<k[1], ~k[2]>> \notin row.pools
                            /\ row.protocol = ProtocolOf[k[1]]

\* The row may stand beside the rows other than r.
Fits(r, row) ==
    \A s \in live \ {r} : /\ row.protocol # NoProtocol
                          /\ rows[s].protocol # NoProtocol
                          /\ rows[s].protocol # row.protocol

RowsOK ==
    /\ live \subseteq Row
    /\ rows \in [Row -> RowContents]
    /\ ProtocolsDistinct
    /\ OneKey

OctaviaOK ==
    /\ oLb \in LbRecord
    /\ oListener \in [Listener -> ListenerRecord]
    /\ oPool \in [Pool -> ChildRecord]
    /\ oMember \in [Member -> ChildRecord]
    /\ unanswered \in BOOLEAN

IInv == RowsOK /\ OctaviaOK /\ DeletedLeavesNothing

\* Two rows have the same protocol and the same keys.
SameKeys(a, b) ==
    a.protocol = b.protocol /\ a.listeners = b.listeners /\ a.pools = b.pools

-----------------------------------------------------------------------------
(* Octavia's records                                                       *)

LEMMA RecordTypes ==
    /\ AbsentLb \in LbRecord /\ AbsentListener \in ListenerRecord
    /\ AbsentChild \in ChildRecord
    /\ \A x \in LbRecord, prov \in Prov : [x EXCEPT !.prov = prov] \in LbRecord
    /\ \A x \in LbRecord, port \in BOOLEAN : [x EXCEPT !.vipPort = port] \in LbRecord
    /\ {"ABSENT", "ACTIVE", "ERROR", "DELETE_ERROR"} \subseteq Prov
BY DEF AbsentLb, AbsentListener, AbsentChild, LbRecord, ListenerRecord,
       ChildRecord, Prov

\* A handler for a load balancer that exists leaves it existing.
LEMMA LbStays ==
    ASSUME NEW lb \in LbRecord, lb.prov # "ABSENT", NEW port \in BOOLEAN,
           NEW new, \/ new = lb \/ new = [lb EXCEPT !.prov = "ERROR"]
                    \/ new = [lb EXCEPT !.vipPort = port]
    PROVE  new \in LbRecord /\ new.prov # "ABSENT"
BY DEF LbRecord, Prov

-----------------------------------------------------------------------------
(* What the operators make of a row                                        *)

LEMMA BlankRowType ==
    /\ BlankRow \in RowContents
    /\ \A proto \in Protocol \cup {NoProtocol}, up \in BOOLEAN :
          /\ NewRow(proto, up) \in RowContents
          /\ NewRow(proto, up).protocol = proto
          /\ NewRow(proto, up).listeners = {}
          /\ NewRow(proto, up).pools = {}
          /\ RowKeysOK(NewRow(proto, up))
BY DEF BlankRow, NewRow, RowContents, MemberStatus, RowKeysOK

LEMMA RefreshKeeps ==
    ASSUME NEW row \in RowContents
    PROVE  Refresh(row) \in RowContents /\ SameKeys(Refresh(row), row)
<1>1. FrameVips(row) \in [Listener -> SUBSET Member]
  BY DEF FrameVips
<1>. QED
  BY <1>1 DEF Refresh, RowContents, SameKeys

LEMMA PutListenerGives ==
    ASSUME NEW row \in RowContents, NEW k \in ListenerKey,
           NEW refs \in SUBSET PoolRef
    PROVE  LET new == PutListener(row, k, refs)
           IN  /\ new \in RowContents
               /\ new.protocol = row.protocol
               /\ new.listeners = row.listeners \cup {k}
               /\ new.pools = row.pools
BY DEF PutListener, RowContents

LEMMA DropListenerGives ==
    ASSUME NEW row \in RowContents, NEW k \in ListenerKey
    PROVE  LET new == DropListener(row, k)
           IN  /\ new \in RowContents
               /\ new.protocol = row.protocol
               /\ new.listeners = row.listeners \ {k}
               /\ new.pools = row.pools
BY DEF DropListener, RowContents

LEMMA PutPoolGives ==
    ASSUME NEW row \in RowContents, NEW k \in PoolKey, NEW mems \in SUBSET Member
    PROVE  LET new == PutPool(row, k, mems)
           IN  /\ new \in RowContents
               /\ new.protocol = row.protocol
               /\ new.listeners = row.listeners
               /\ new.pools = row.pools \cup {k}
BY DEF PutPool, RowContents

LEMMA DropPoolGives ==
    ASSUME NEW row \in RowContents, NEW k \in PoolKey
    PROVE  LET new == DropPool(row, k)
           IN  /\ new \in RowContents
               /\ new.protocol = row.protocol
               /\ new.listeners = row.listeners
               /\ new.pools = row.pools \ {k}
BY DEF DropPool, RowContents

LEMMA DetachPoolKeeps ==
    ASSUME NEW row \in RowContents, NEW p
    PROVE  DetachPool(row, p) \in RowContents /\ SameKeys(DetachPool(row, p), row)
<1>1. [k \in ListenerKey |-> IF \E b \in BOOLEAN : <<p, b>> \in row.refs[k]
                             THEN {} ELSE row.refs[k]]
        \in [ListenerKey -> SUBSET PoolRef]
  BY DEF RowContents
<1>. QED
  BY <1>1 DEF DetachPool, RowContents, SameKeys

LEMMA SetStatusKeeps ==
    ASSUME NEW row \in RowContents, NEW m \in Member, NEW status \in MemberStatus
    PROVE  SetStatus(row, m, status) \in RowContents
           /\ SameKeys(SetStatus(row, m, status), row)
BY DEF SetStatus, RowContents, SameKeys

LEMMA ForgetKeeps ==
    ASSUME NEW row \in RowContents, NEW m \in Member
    PROVE  Forget(row, m) \in RowContents /\ SameKeys(Forget(row, m), row)
BY DEF Forget, RowContents, MemberStatus, SameKeys

LEMMA ListenerMovedOK ==
    ASSUME NEW row \in RowContents, RowKeysOK(row),
           NEW k \in row.listeners, NEW up \in Opt(BOOLEAN),
           NEW dp \in Opt(Pool \cup {None})
    PROVE  LET new == ListenerMoved(row, k, up, dp)
           IN  /\ new \in RowContents /\ RowKeysOK(new)
               /\ new.protocol = row.protocol
<1>1. k \in ListenerKey /\ k = <<k[1], k[2]>> /\ k[1] \in Listener /\ k[2] \in BOOLEAN
  BY DEF RowContents, ListenerKey
<1>2. Given(up, k[2]) \in BOOLEAN /\ Given(dp, None) \in Pool \cup {None}
  BY <1>1 DEF Opt, Given
<1>. DEFINE moved == <<k[1], Given(up, k[2])>>
            refs == IF dp = {} THEN row.refs[k] ELSE {<<Given(dp, None), TRUE>>}
            dropped == DropListener(row, k)
            put == PutListener(dropped, moved, refs)
<1>3. moved \in ListenerKey /\ refs \in SUBSET PoolRef
  <2>1. moved \in ListenerKey
    BY <1>1, <1>2 DEF ListenerKey
  <2>2. <<Given(dp, None), TRUE>> \in PoolRef
    BY <1>2 DEF PoolRef
  <2>3. row.refs[k] \in SUBSET PoolRef
    BY <1>1 DEF RowContents
  <2>. QED  BY <2>1, <2>2, <2>3
<1>4. /\ dropped \in RowContents
      /\ dropped.protocol = row.protocol
      /\ dropped.listeners = row.listeners \ {k}
      /\ dropped.pools = row.pools
  BY <1>1, DropListenerGives
<1>5. /\ put \in RowContents
      /\ put.protocol = row.protocol
      /\ put.listeners = (row.listeners \ {k}) \cup {moved}
      /\ put.pools = row.pools
  <2>. HIDE DEF dropped, moved, refs
  <2>. QED  BY <1>3, <1>4, PutListenerGives
<1>6. Refresh(put) \in RowContents /\ SameKeys(Refresh(put), put)
  <2>. HIDE DEF put
  <2>. QED  BY <1>5, RefreshKeeps
<1>7. ListenerMoved(row, k, up, dp) = Refresh(put)
  BY DEF ListenerMoved
<1>8. RowKeysOK(put)
  <2>1. ASSUME NEW x \in put.listeners
        PROVE  <<x[1], ~x[2]>> \notin put.listeners /\ put.protocol = ProtocolOf[x[1]]
    <3>. x \in ListenerKey
      BY <1>5 DEF RowContents
    <3>1. x = <<x[1], x[2]>> /\ x[2] \in BOOLEAN
      BY DEF ListenerKey
    <3>2. CASE x = moved
      <4>1. x[1] = k[1] /\ x[2] = Given(up, k[2])
        BY <3>2
      <4>2. <<k[1], ~k[2]>> \notin row.listeners /\ row.protocol = ProtocolOf[k[1]]
        BY DEF RowKeysOK
      <4>3. <<x[1], ~x[2]>> # moved
        BY <3>1, <3>2
      <4>4. <<x[1], ~x[2]>> \notin row.listeners \ {k}
        BY <1>1, <3>1, <4>1, <4>2
      <4>. QED  BY <1>5, <4>1, <4>2, <4>3, <4>4
    <3>3. CASE x \in row.listeners \ {k}
      <4>1. <<x[1], ~x[2]>> \notin row.listeners /\ row.protocol = ProtocolOf[x[1]]
        BY <3>3 DEF RowKeysOK
      <4>2. <<x[1], ~x[2]>> # moved
        <5>1. SUFFICES ASSUME x[1] = k[1] PROVE FALSE
          BY <1>1
        <5>2. x[2] # k[2]
          BY <1>1, <3>1, <3>3, <5>1
        <5>3. k = <<x[1], ~x[2]>>
          BY <1>1, <3>1, <5>1, <5>2
        <5>. QED  BY <4>1, <5>3
      <4>. QED  BY <1>5, <4>1, <4>2
    <3>. QED  BY <1>5, <3>2, <3>3
  <2>2. ASSUME NEW x \in put.pools
        PROVE  <<x[1], ~x[2]>> \notin put.pools /\ put.protocol = ProtocolOf[x[1]]
    <3>. HIDE DEF put
    <3>. QED  BY <1>5 DEF RowKeysOK
  <2>. QED  BY <2>1, <2>2 DEF RowKeysOK
<1>. QED
  <2>. HIDE DEF put
  <2>. QED  BY <1>5, <1>6, <1>7, <1>8 DEF RowKeysOK, SameKeys

LEMMA PoolSwitchedOK ==
    ASSUME NEW row \in RowContents, RowKeysOK(row),
           NEW p \in Pool, NEW up \in BOOLEAN, <<p, ~up>> \in row.pools
    PROVE  LET new == PoolSwitched(row, <<p, ~up>>, <<p, up>>)
           IN  /\ new \in RowContents /\ RowKeysOK(new)
               /\ new.protocol = row.protocol
<1>. DEFINE old == <<p, ~up>>
            fresh == <<p, up>>
            put == PutPool(row, fresh, row.members[old])
            left == DropPool(put, old)
<1>1. old \in PoolKey /\ fresh \in PoolKey /\ old # fresh
      /\ row.members[old] \in SUBSET Member
  BY DEF PoolKey, RowContents
<1>2. /\ put \in RowContents
      /\ put.protocol = row.protocol
      /\ put.listeners = row.listeners
      /\ put.pools = row.pools \cup {fresh}
  <2>. HIDE DEF old, fresh
  <2>. QED  BY <1>1, PutPoolGives
<1>3. /\ left \in RowContents
      /\ left.protocol = row.protocol
      /\ left.listeners = row.listeners
      /\ left.pools = (row.pools \cup {fresh}) \ {old}
  <2>. HIDE DEF old, fresh, put
  <2>. QED  BY <1>1, <1>2, DropPoolGives
<1>4. Refresh(left) \in RowContents /\ SameKeys(Refresh(left), left)
  <2>. HIDE DEF left
  <2>. QED  BY <1>3, RefreshKeeps
<1>5. RowKeysOK(left)
  <2>1. ASSUME NEW x \in left.pools
        PROVE  <<x[1], ~x[2]>> \notin left.pools /\ left.protocol = ProtocolOf[x[1]]
    <3>. x \in PoolKey
      BY <1>3 DEF RowContents
    <3>1. x = <<x[1], x[2]>> /\ x[2] \in BOOLEAN
      BY DEF PoolKey
    <3>2. CASE x = fresh
      <4>1. x[1] = p /\ x[2] = up
        BY <3>2
      <4>2. row.protocol = ProtocolOf[p]
        <5>1. <<p, ~up>>[1] = p
          OBVIOUS
        <5>. QED  BY <5>1 DEF RowKeysOK
      <4>. QED  BY <1>1, <1>3, <4>1, <4>2
    <3>3. CASE x \in row.pools /\ x # old
      <4>1. <<x[1], ~x[2]>> \notin row.pools /\ row.protocol = ProtocolOf[x[1]]
        BY <3>3 DEF RowKeysOK
      <4>2. <<x[1], ~x[2]>> # fresh
        BY <3>1, <3>3
      <4>. QED  BY <1>3, <4>1, <4>2
    <3>. QED  BY <1>3, <3>2, <3>3
  <2>2. ASSUME NEW x \in left.listeners
        PROVE  /\ <<x[1], ~x[2]>> \notin left.listeners
               /\ left.protocol = ProtocolOf[x[1]]
    <3>. HIDE DEF left
    <3>. QED  BY <1>3 DEF RowKeysOK
  <2>. QED  BY <2>1, <2>2 DEF RowKeysOK
<1>6. PoolSwitched(row, old, fresh) = Refresh(left)
  BY DEF PoolSwitched
<1>. QED
  <2>. HIDE DEF left
  <2>. QED  BY <1>3, <1>4, <1>5, <1>6 DEF RowKeysOK, SameKeys

LEMMA MemberJoinedOK ==
    ASSUME NEW row \in RowContents, NEW k \in row.pools, NEW m \in Member,
           NEW up \in BOOLEAN
    PROVE  /\ MemberJoined(row, k, m, up) \in RowContents
           /\ SameKeys(MemberJoined(row, k, m, up), row)
<1>. DEFINE joined == PutPool(row, k, row.members[k] \cup {m})
<1>1. k \in PoolKey /\ row.members[k] \cup {m} \in SUBSET Member
  BY DEF RowContents
<1>2. joined \in RowContents /\ SameKeys(joined, row)
  <2>1. row.pools \cup {k} = row.pools
    OBVIOUS
  <2>. QED  BY <1>1, <2>1, PutPoolGives DEF SameKeys
<1>3. Refresh(joined) \in RowContents /\ SameKeys(Refresh(joined), joined)
  <2>. HIDE DEF joined
  <2>. QED  BY <1>2, RefreshKeeps
<1>. QED
  <2>. MemberJoined(row, k, m, up) = IF up THEN Refresh(joined) ELSE joined
    BY DEF MemberJoined
  <2>. HIDE DEF joined
  <2>. QED  BY <1>2, <1>3 DEF SameKeys

LEMMA MemberLeftOK ==
    ASSUME NEW row \in RowContents, NEW k \in row.pools, NEW m \in Member
    PROVE  MemberLeft(row, k, m) \in RowContents /\ SameKeys(MemberLeft(row, k, m), row)
<1>. DEFINE left == PutPool(row, k, row.members[k] \ {m})
<1>1. k \in PoolKey /\ row.members[k] \ {m} \in SUBSET Member
  BY DEF RowContents
<1>2. left \in RowContents /\ SameKeys(left, row)
  <2>1. row.pools \cup {k} = row.pools
    OBVIOUS
  <2>. QED  BY <1>1, <2>1, PutPoolGives DEF SameKeys
<1>3. Refresh(left) \in RowContents /\ SameKeys(Refresh(left), left)
  <2>. HIDE DEF left
  <2>. QED  BY <1>2, RefreshKeeps
<1>. QED
  <2>. MemberLeft(row, k, m) = IF m \in row.members[k] THEN Refresh(left) ELSE row
    BY DEF MemberLeft
  <2>. HIDE DEF left
  <2>. QED  BY <1>2, <1>3 DEF SameKeys

-----------------------------------------------------------------------------
(* Finding and writing rows                                                *)

LEMMA SameKeysOK ==
    ASSUME NEW a, NEW b, SameKeys(a, b), RowKeysOK(b)
    PROVE  RowKeysOK(a) /\ a.protocol = b.protocol
BY DEF SameKeys, RowKeysOK

LEMMA LiveRowOK ==
    ASSUME RowsOK, NEW r \in live
    PROVE  /\ r \in Row /\ rows[r] \in RowContents /\ RowKeysOK(rows[r])
           /\ \A row : row.protocol = rows[r].protocol => Fits(r, row)
BY DEF RowsOK, OneKey, RowKeysOK, Fits, ProtocolsDistinct

LEMMA PutOK ==
    ASSUME RowsOK, NEW r \in Row, NEW row \in RowContents,
           RowKeysOK(row), Fits(r, row), Put(r, row)
    PROVE  RowsOK'
<1>1. live' = live \cup {r} /\ rows' = [rows EXCEPT ![r] = row]
  BY DEF Put
<1>2. /\ live' \subseteq Row /\ rows' \in [Row -> RowContents]
      /\ rows'[r] = row /\ \A s \in live \ {r} : rows'[s] = rows[s]
  BY <1>1 DEF RowsOK
<1>3. \A s \in live' : RowKeysOK(rows'[s])
  BY <1>1, <1>2, LiveRowOK
<1>4. ProtocolsDistinct'
  BY <1>1, <1>2 DEF RowsOK, ProtocolsDistinct, Fits
<1>. QED
  BY <1>2, <1>3, <1>4 DEF RowsOK, OneKey, RowKeysOK

\* A handler that leaves the protocol of a row alone keeps the rows apart.
LEMMA PutKeepsProtocol ==
    ASSUME RowsOK, NEW r \in live, NEW row \in RowContents,
           RowKeysOK(row), row.protocol = rows[r].protocol, Put(r, row)
    PROVE  RowsOK'
BY LiveRowOK, PutOK

LEMMA UnchangedRowsOK ==
    ASSUME RowsOK, UNCHANGED <<live, rows>>
    PROVE  RowsOK'
BY DEF RowsOK, ProtocolsDistinct, OneKey

\* Fewer rows, each with the keys and the protocol it had or fewer keys, are
\* still apart.
LEMMA ShrinkOK ==
    ASSUME RowsOK, live' \subseteq live, rows' \in [Row -> RowContents],
           \A r \in live' : /\ rows'[r].protocol = rows[r].protocol
                            /\ RowKeysOK(rows'[r])
    PROVE  RowsOK'
BY DEF RowsOK, ProtocolsDistinct, OneKey, RowKeysOK

LEMMA PutOrCleanOK ==
    ASSUME RowsOK, NEW r \in live, NEW row \in RowContents, RowKeysOK(row),
           row.protocol = rows[r].protocol,
           NEW left, row.listeners \subseteq left.listeners,
           row.pools \subseteq left.pools,
           PutOrClean(r, row, left)
    PROVE  RowsOK'
<1>1. CASE ~IsEmpty(left)
  BY <1>1, PutKeepsProtocol DEF PutOrClean
<1>2. CASE IsEmpty(left) /\ live = {r}
  <2>. DEFINE clean == [row EXCEPT !.protocol = NoProtocol]
  <2>1. Put(r, clean)
    BY <1>2 DEF PutOrClean
  <2>2. /\ clean \in RowContents /\ clean.listeners = row.listeners
        /\ clean.pools = row.pools
    BY DEF RowContents
  <2>3. row.listeners = {} /\ row.pools = {}
    BY <1>2 DEF IsEmpty
  <2>4. RowKeysOK(clean)
    BY <2>2, <2>3 DEF RowKeysOK
  <2>5. Fits(r, clean)
    BY <1>2 DEF Fits
  <2>. HIDE DEF clean
  <2>. QED  BY <2>1, <2>2, <2>4, <2>5, LiveRowOK, PutOK
<1>3. CASE IsEmpty(left) /\ live # {r}
  <2>1. live' = live \ {r} /\ rows' = [rows EXCEPT ![r] = BlankRow]
    BY <1>3 DEF PutOrClean
  <2>2. rows' \in [Row -> RowContents] /\ \A s \in live' : rows'[s] = rows[s]
    BY <2>1, BlankRowType DEF RowsOK
  <2>. QED  BY <2>1, <2>2, LiveRowOK, ShrinkOK
<1>. QED  BY <1>1, <1>2, <1>3

\* The row _get_or_create_ovn_lb returns is of the protocol asked for, holds the
\* keys it held, and may stand beside the others.
LEMMA ObtainOK ==
    ASSUME IInv, NEW proto \in Protocol, NEW up \in BOOLEAN,
           NEW o \in Obtain(proto, up)
    PROVE  /\ o.id \in Row /\ o.row \in RowContents /\ o.port \in BOOLEAN
           /\ o.row.protocol = proto /\ RowKeysOK(o.row) /\ Fits(o.id, o.row)
           /\ \/ /\ o.id \in live
                 /\ o.row.listeners = rows[o.id].listeners
                 /\ o.row.pools = rows[o.id].pools
              \/ o.row.listeners = {} /\ o.row.pools = {}
<1>. DEFINE same == {r \in live : rows[r].protocol = proto}
            unset == {r \in live : rows[r].protocol = NoProtocol}
<1>. RowsOK /\ oLb.vipPort \in BOOLEAN
  BY DEF IInv, OctaviaOK, LbRecord
<1>1. CASE same # {}
  <2>1. PICK r \in same : o = [id |-> r, row |-> rows[r], port |-> oLb.vipPort]
    BY <1>1 DEF Obtain
  <2>. QED  BY <2>1, LiveRowOK
<1>2. CASE same = {} /\ unset # {}
  <2>1. PICK r \in unset :
           o = [id |-> r, row |-> [rows[r] EXCEPT !.protocol = proto],
                port |-> oLb.vipPort]
    BY <1>2 DEF Obtain
  <2>. DEFINE row == [rows[r] EXCEPT !.protocol = proto]
  <2>2. rows[r] \in RowContents /\ RowKeysOK(rows[r]) /\ r \in Row
    BY LiveRowOK
  <2>3. row \in RowContents /\ row.protocol = proto
        /\ row.listeners = rows[r].listeners /\ row.pools = rows[r].pools
    BY <2>2 DEF RowContents
  <2>4. rows[r].listeners = {} /\ rows[r].pools = {}
    <3>1. \A k \in rows[r].listeners \cup rows[r].pools :
             k[1] \in Listener \cup Pool /\ ProtocolOf[k[1]] = NoProtocol
      BY <2>2 DEF RowKeysOK, RowContents, ListenerKey, PoolKey
    <3>. QED  BY <3>1, ConstantsAssumption
  <2>5. RowKeysOK(row)
    BY <2>3, <2>4 DEF RowKeysOK
  <2>6. live = {r}
    BY DEF RowsOK, ProtocolsDistinct
  <2>7. Fits(r, row)
    BY <2>6 DEF Fits
  <2>. HIDE DEF row
  <2>. QED  BY <2>1, <2>2, <2>3, <2>5, <2>7 DEF row
<1>3. CASE same = {} /\ unset = {}
  <2>. DEFINE fresh == IF live = {} THEN {} ELSE Row \ live
              ports == IF "later" \in Failures THEN {oLb.vipPort, FALSE}
                                               ELSE {oLb.vipPort}
  <2>0. fresh \subseteq Row \ live /\ ports \subseteq BOOLEAN
    OBVIOUS
  <2>1. o \in NewRows(proto, up)
    BY <1>3 DEF Obtain
  <2>2. PICK r \in fresh, port \in ports :
           o = [id |-> r, row |-> NewRow(proto, up), port |-> port]
    <3>1. NewRows(proto, up) = {[id |-> r, row |-> NewRow(proto, up), port |-> port] :
                                   r \in fresh, port \in ports}
      BY DEF NewRows
    <3>. HIDE DEF fresh, ports
    <3>. QED  BY <2>1, <3>1
  <2>3. /\ NewRow(proto, up) \in RowContents /\ NewRow(proto, up).protocol = proto
        /\ NewRow(proto, up).listeners = {} /\ NewRow(proto, up).pools = {}
        /\ RowKeysOK(NewRow(proto, up))
    BY BlankRowType
  <2>4. Fits(r, NewRow(proto, up))
    BY <1>3, <2>3, ConstantsAssumption DEF Fits
  <2>. QED  BY <2>0, <2>2, <2>3, <2>4
<1>. QED  BY <1>1, <1>2, <1>3

LEMMA FindRowLive ==
    ASSUME NEW proto, NEW r \in FindRow(proto)
    PROVE  r \in live
BY DEF FindRow

LEMMA PoolRowsLive ==
    ASSUME NEW p, NEW rk \in PoolRows(p)
    PROVE  rk[1] \in live /\ rk[2] \in rows[rk[1]].pools
<1>. DEFINE holding(b) == {r \in live : <<p, b>> \in rows[r].pools}
<1>1. PICK b \in BOOLEAN : rk \in holding(b) \X {<<p, b>>}
  BY DEF PoolRows
<1>. QED  BY <1>1

\* Adding a key that no row had, to a row of its protocol.
LEMMA NewPoolKeyOK ==
    ASSUME NEW row, RowKeysOK(row), NEW new, NEW p \in Pool, NEW b \in BOOLEAN,
           new.protocol = row.protocol, new.listeners = row.listeners,
           new.pools = row.pools \cup {<<p, b>>}, row.pools \subseteq PoolKey,
           row.protocol = ProtocolOf[p],
           \A c \in BOOLEAN : <<p, c>> \notin row.pools
    PROVE  RowKeysOK(new)
<1>1. ASSUME NEW k \in new.pools
      PROVE  <<k[1], ~k[2]>> \notin new.pools /\ new.protocol = ProtocolOf[k[1]]
  <2>1. CASE k = <<p, b>>
    BY <2>1
  <2>2. CASE k \in row.pools
    <3>1. <<k[1], ~k[2]>> \notin row.pools /\ row.protocol = ProtocolOf[k[1]]
      BY <2>2 DEF RowKeysOK
    <3>2. k[1] # p
      BY <2>2 DEF PoolKey
    <3>. QED  BY <3>1, <3>2
  <2>. QED  BY <2>1, <2>2
<1>. QED  BY <1>1 DEF RowKeysOK

LEMMA NewListenerKeyOK ==
    ASSUME NEW row, RowKeysOK(row), NEW new, NEW l \in Listener, NEW b \in BOOLEAN,
           new.protocol = row.protocol, new.pools = row.pools,
           new.listeners = row.listeners \cup {<<l, b>>},
           row.listeners \subseteq ListenerKey,
           row.protocol = ProtocolOf[l],
           \A c \in BOOLEAN : <<l, c>> \notin row.listeners
    PROVE  RowKeysOK(new)
<1>1. ASSUME NEW k \in new.listeners
      PROVE  /\ <<k[1], ~k[2]>> \notin new.listeners
             /\ new.protocol = ProtocolOf[k[1]]
  <2>1. CASE k = <<l, b>>
    BY <2>1
  <2>2. CASE k \in row.listeners
    <3>1. <<k[1], ~k[2]>> \notin row.listeners /\ row.protocol = ProtocolOf[k[1]]
      BY <2>2 DEF RowKeysOK
    <3>2. k[1] # l
      BY <2>2 DEF ListenerKey
    <3>. QED  BY <3>1, <3>2
  <2>. QED  BY <2>1, <2>2
<1>. QED  BY <1>1 DEF RowKeysOK

-----------------------------------------------------------------------------
(* The invariant is inductive: one lemma for each action                   *)

LEMMA InitOK == Init => IInv
<1>. SUFFICES ASSUME Init PROVE IInv
  OBVIOUS
<1>1. RowsOK
  BY BlankRowType DEF Init, RowsOK, ProtocolsDistinct, OneKey
<1>2. OctaviaOK /\ DeletedLeavesNothing
  BY RecordTypes DEF Init, OctaviaOK, DeletedLeavesNothing
<1>. QED  BY <1>1, <1>2 DEF IInv

LEMMA LbCreateOK ==
    ASSUME IInv, NEW up \in BOOLEAN, LbCreate(up)
    PROVE  IInv'
<1>1. RowsOK /\ OctaviaOK /\ live = {}
  BY DEF IInv, LbCreate, DeletedLeavesNothing, AbsentLb
<1>2. RowsOK'
  <2>1. ASSUME NEW r \in Row, Put(r, NewRow(NoProtocol, up))
        PROVE  RowsOK'
    <3>1. /\ NewRow(NoProtocol, up) \in RowContents
          /\ RowKeysOK(NewRow(NoProtocol, up))
      BY BlankRowType
    <3>2. Fits(r, NewRow(NoProtocol, up))
      BY <1>1 DEF Fits
    <3>. QED  BY <1>1, <2>1, <3>1, <3>2, PutOK
  <2>. QED  BY <1>1, <2>1, UnchangedRowsOK DEF LbCreate
<1>3. OctaviaOK' /\ DeletedLeavesNothing'
  <2>1. \E prov \in {"ACTIVE", "ERROR"}, port \in BOOLEAN :
           oLb' = [prov |-> prov, up |-> up, vipPort |-> port]
    BY DEF LbCreate
  <2>2. oLb' \in LbRecord /\ oLb'.prov # "ABSENT"
    BY <2>1 DEF LbRecord, Prov
  <2>3. UNCHANGED <<oListener, oPool, oMember, unanswered>>
    BY DEF LbCreate
  <2>. QED  BY <1>1, <2>2, <2>3 DEF OctaviaOK, DeletedLeavesNothing
<1>. QED  BY <1>2, <1>3 DEF IInv

LEMMA LbUpdateOK ==
    ASSUME IInv, NEW up \in BOOLEAN, LbUpdate(up)
    PROVE  IInv'
<1>1. RowsOK /\ OctaviaOK /\ oLb.prov = "ACTIVE"
  BY DEF IInv, LbUpdate, Mutable
<1>2. PICK done \in SUBSET live :
         /\ rows' = [r \in Row |-> IF r \in done
                                   THEN Refresh([rows[r] EXCEPT !.enabled = up])
                                   ELSE rows[r]]
         /\ \E prov \in {"ACTIVE", "ERROR"} :
               oLb' = [oLb EXCEPT !.up = up, !.prov = prov]
  BY DEF LbUpdate
<1>3. ASSUME NEW r \in live
      PROVE  LET new == Refresh([rows[r] EXCEPT !.enabled = up])
             IN  new \in RowContents /\ SameKeys(new, rows[r])
  <2>. DEFINE new == [rows[r] EXCEPT !.enabled = up]
  <2>1. new \in RowContents /\ SameKeys(new, rows[r])
    BY <1>1, LiveRowOK DEF RowContents, SameKeys
  <2>. HIDE DEF new
  <2>2. Refresh(new) \in RowContents /\ SameKeys(Refresh(new), new)
    BY <2>1, RefreshKeeps
  <2>. QED  BY <2>1, <2>2 DEF SameKeys, new
<1>4. RowsOK'
  <2>1. live' = live
    BY DEF LbUpdate
  <2>2. rows' \in [Row -> RowContents]
    BY <1>1, <1>2, <1>3 DEF RowsOK
  <2>3. ASSUME NEW r \in live
        PROVE  rows'[r].protocol = rows[r].protocol /\ RowKeysOK(rows'[r])
    <3>1. rows'[r] = rows[r] \/ rows'[r] = Refresh([rows[r] EXCEPT !.enabled = up])
      BY <1>1, <1>2 DEF RowsOK
    <3>. QED  BY <1>1, <1>3, <3>1, LiveRowOK, SameKeysOK
  <2>. QED  BY <1>1, <2>1, <2>2, <2>3, ShrinkOK
<1>5. OctaviaOK' /\ DeletedLeavesNothing'
  <2>1. PICK prov \in {"ACTIVE", "ERROR"} :
           oLb' = [oLb EXCEPT !.up = up, !.prov = prov]
    BY <1>2
  <2>2. oLb' \in LbRecord /\ oLb'.prov # "ABSENT"
    BY <1>1, <2>1 DEF OctaviaOK, LbRecord, Prov
  <2>3. UNCHANGED <<oListener, oPool, oMember, unanswered>>
    BY DEF LbUpdate
  <2>. QED  BY <1>1, <2>2, <2>3 DEF OctaviaOK, DeletedLeavesNothing
<1>. QED  BY <1>4, <1>5 DEF IInv

LEMMA StoppedKeeps ==
    ASSUME NEW row \in RowContents, NEW cascade \in BOOLEAN,
           NEW stop \in Stopped(row, cascade)
    PROVE  stop.row \in RowContents /\ SameKeys(stop.row, row)
<1>1. Shed(row) \in RowContents /\ SameKeys(Shed(row), row)
  BY DEF Shed, RowContents, MemberStatus, SameKeys
<1>2. ASSUME NEW k \in row.pools, NEW m \in row.members[k]
      PROVE  LET one == [row EXCEPT !.members[k] = @ \ {m}, !.status[m] = "none"]
             IN  one \in RowContents /\ SameKeys(one, row)
  <2>1. k \in PoolKey /\ m \in Member
    BY DEF RowContents
  <2>. QED  BY <2>1 DEF RowContents, MemberStatus, SameKeys
<1>3. ASSUME NEW one \in OneGone(row)
      PROVE  one \in RowContents /\ SameKeys(one, row)
  <2>1. PICK k \in row.pools : \E m \in row.members[k] :
           one = [row EXCEPT !.members[k] = @ \ {m}, !.status[m] = "none"]
    BY DEF OneGone
  <2>. QED  BY <1>2, <2>1
<1>4. stop.row \in OneGone(row) \cup {Shed(row), row}
  BY DEF Stopped
<1>. QED  BY <1>1, <1>3, <1>4 DEF SameKeys

LEMMA LbDeleteOK ==
    ASSUME IInv, NEW cascade \in BOOLEAN, LbDelete(cascade)
    PROVE  IInv'
<1>1. RowsOK /\ OctaviaOK
  BY DEF IInv
<1>2. ASSUME AllRowsGo
      PROVE  RowsOK'
  <2>1. rows' \in [Row -> RowContents]
    BY <1>2, BlankRowType DEF AllRowsGo
  <2>. QED  BY <1>1, <1>2, <2>1, ShrinkOK DEF AllRowsGo
<1>3. ASSUME NEW done \in SUBSET live, NEW r \in live, r \notin done,
             NEW stop \in Stopped(rows[r], cascade),
             RowsGoUntil(done, r, stop.row)
      PROVE  RowsOK'
  <2>. DEFINE row == stop.row
  <2>1. r \in Row /\ rows[r] \in RowContents /\ RowKeysOK(rows[r])
    BY <1>1, LiveRowOK
  <2>2. row \in RowContents /\ SameKeys(row, rows[r])
    BY <2>1, StoppedKeeps
  <2>3. Refresh(row) \in RowContents /\ SameKeys(Refresh(row), rows[r])
    BY <2>2, RefreshKeeps DEF SameKeys
  <2>4. rows' \in [Row -> RowContents]
    BY <1>1, <1>3, <2>3, BlankRowType DEF RowsOK, RowsGoUntil
  <2>5. ASSUME NEW d \in live'
        PROVE  rows'[d].protocol = rows[d].protocol /\ RowKeysOK(rows'[d])
    <3>1. d \in Row /\ RowKeysOK(rows[d])
      BY <1>1, <1>3, LiveRowOK DEF RowsGoUntil
    <3>2. rows'[d] = IF d = r THEN Refresh(row) ELSE rows[d]
      BY <1>3, <3>1 DEF RowsGoUntil
    <3>. QED  BY <2>1, <2>3, <3>1, <3>2, SameKeysOK
  <2>. QED  BY <1>1, <1>3, <2>4, <2>5, ShrinkOK DEF RowsGoUntil
<1>4. RowsOK'
  BY <1>2, <1>3 DEF LbDelete
<1>5. OctaviaOK' /\ DeletedLeavesNothing'
  <2>1. \/ \E noted : DeletionFails(noted)
        \/ /\ live' = {}
           /\ oLb' = AbsentLb
           /\ oListener' = [l \in Listener |-> AbsentListener]
           /\ oPool' = [p \in Pool |-> AbsentChild]
           /\ oMember' = [m \in Member |-> AbsentChild]
    BY DEF LbDelete, AllRowsGo
  <2>2. unanswered' = unanswered /\ oLb.prov # "ABSENT"
    BY DEF LbDelete
  <2>3. CASE \E noted : DeletionFails(noted)
    <3>1. PICK noted : DeletionFails(noted)
      BY <2>3
    <3>2. oLb' \in LbRecord /\ oLb'.prov # "ABSENT"
      BY <1>1, <2>2, <3>1, LbStays DEF OctaviaOK, DeletionFails
    <3>3. oListener' \in [Listener -> ListenerRecord]
      BY <1>1, <3>1, RecordTypes DEF OctaviaOK, DeletionFails, ListenerRecord
    <3>4. oPool' \in [Pool -> ChildRecord] /\ oMember' \in [Member -> ChildRecord]
      BY <1>1, <3>1, RecordTypes DEF OctaviaOK, DeletionFails
    <3>. QED  BY <1>1, <2>2, <3>2, <3>3, <3>4 DEF OctaviaOK, DeletedLeavesNothing
  <2>4. CASE /\ live' = {}
             /\ oLb' = AbsentLb
             /\ oListener' = [l \in Listener |-> AbsentListener]
             /\ oPool' = [p \in Pool |-> AbsentChild]
             /\ oMember' = [m \in Member |-> AbsentChild]
    BY <1>1, <2>2, <2>4, RecordTypes DEF OctaviaOK, DeletedLeavesNothing
  <2>. QED  BY <2>1, <2>3, <2>4
<1>. QED  BY <1>4, <1>5 DEF IInv

\* Octavia's side of a handler for a listener, a pool or a member.
LEMMA ChildHandlerOK ==
    ASSUME IInv, RowsOK', oLb.prov # "ABSENT",
           oListener' \in [Listener -> ListenerRecord],
           oPool' \in [Pool -> ChildRecord], oMember' \in [Member -> ChildRecord],
           unanswered' \in BOOLEAN, NEW port \in BOOLEAN,
           \/ oLb' = oLb
           \/ oLb' = [oLb EXCEPT !.prov = "ERROR"]
           \/ oLb' = [oLb EXCEPT !.vipPort = port]
    PROVE  IInv'
<1>1. oLb' \in LbRecord /\ oLb'.prov # "ABSENT"
  BY LbStays DEF IInv, OctaviaOK
<1>. QED  BY <1>1 DEF IInv, OctaviaOK, DeletedLeavesNothing

LEMMA ObtainFailsOK ==
    ASSUME IInv, NEW proto, ObtainFails(proto)
    PROVE  /\ RowsOK' /\ unanswered' \in BOOLEAN
           /\ oLb' = oLb \/ oLb' = [oLb EXCEPT !.vipPort = FALSE]
<1>1. UNCHANGED <<live, rows>> /\ unanswered' = TRUE
      /\ (oLb' = oLb \/ oLb' = [oLb EXCEPT !.vipPort = FALSE])
  BY DEF ObtainFails
<1>. QED  BY <1>1, UnchangedRowsOK DEF IInv

LEMMA ListenerCreateOK ==
    ASSUME IInv, NEW l \in Listener, NEW up \in CreateStates,
           NEW dp \in Pool \cup {None}, ListenerCreate(l, up, dp)
    PROVE  IInv'
<1>. DEFINE key == <<l, up>>
            ref == IF dp = None THEN {} ELSE {<<dp, TRUE>>}
<1>1. /\ RowsOK /\ OctaviaOK /\ oLb.prov = "ACTIVE" /\ unanswered' \in BOOLEAN
      /\ oPool' = oPool /\ oMember' = oMember
      /\ \E prov \in Prov : oListener' = [oListener EXCEPT ![l] =
                               [prov |-> prov, up |-> up, pool |-> dp]]
  BY DEF IInv, OctaviaOK, ListenerCreate, Mutable, ObtainFails, Prov
<1>2. up \in BOOLEAN /\ key \in ListenerKey /\ ref \in SUBSET PoolRef
      /\ ProtocolOf[l] \in Protocol
  <2>1. up \in BOOLEAN /\ ProtocolOf[l] \in Protocol
    BY ConstantsAssumption
  <2>2. <<dp, TRUE>> \in PoolRef
    BY DEF PoolRef
  <2>. QED  BY <2>1, <2>2 DEF ListenerKey
<1>3. \A r \in live, b \in BOOLEAN : <<l, b>> \notin rows[r].listeners
  BY DEF ListenerCreate, UnusedListener
<1>4. oListener' \in [Listener -> ListenerRecord]
  <2>1. PICK prov \in Prov : oListener' = [oListener EXCEPT ![l] =
                                [prov |-> prov, up |-> up, pool |-> dp]]
    BY <1>1
  <2>2. [prov |-> prov, up |-> up, pool |-> dp] \in ListenerRecord
    BY <1>2 DEF ListenerRecord
  <2>. QED  BY <1>1, <2>1, <2>2 DEF OctaviaOK
<1>5. ASSUME NEW o \in Obtain(ProtocolOf[l], up),
             \/ Put(o.id, Refresh(PutListener(o.row, key, ref)))
             \/ Put(o.id, o.row),
             oLb' = [oLb EXCEPT !.vipPort = o.port]
      PROVE  IInv'
  <2>1. /\ o.id \in Row /\ o.row \in RowContents /\ o.port \in BOOLEAN
        /\ o.row.protocol = ProtocolOf[l] /\ RowKeysOK(o.row) /\ Fits(o.id, o.row)
        /\ \/ o.id \in live /\ o.row.listeners = rows[o.id].listeners
           \/ o.row.listeners = {}
    BY <1>2, ObtainOK
  <2>. DEFINE put == PutListener(o.row, key, ref)
  <2>2. /\ put \in RowContents
        /\ put.protocol = o.row.protocol
        /\ put.listeners = o.row.listeners \cup {key}
        /\ put.pools = o.row.pools
    <3>. HIDE DEF key, ref
    <3>. QED  BY <1>2, <2>1, PutListenerGives
  <2>3. RowKeysOK(put)
    <3>1. \A c \in BOOLEAN : <<l, c>> \notin o.row.listeners
      BY <1>3, <2>1
    <3>2. o.row.listeners \subseteq ListenerKey
      BY <2>1 DEF RowContents
    <3>. HIDE DEF put
    <3>. QED  BY <1>2, <2>1, <2>2, <3>1, <3>2, NewListenerKeyOK
  <2>4. /\ Refresh(put) \in RowContents /\ RowKeysOK(Refresh(put))
        /\ Refresh(put).protocol = o.row.protocol
    <3>. HIDE DEF put
    <3>. QED  BY <2>2, <2>3, RefreshKeeps, SameKeysOK
  <2>5. Fits(o.id, Refresh(put))
    <3>. HIDE DEF put
    <3>. QED  BY <2>1, <2>4 DEF Fits
  <2>6. RowsOK'
    <3>1. CASE Put(o.id, Refresh(put))
      <4>. HIDE DEF put
      <4>. QED  BY <1>1, <2>1, <2>4, <2>5, <3>1, PutOK
    <3>2. CASE Put(o.id, o.row)
      BY <1>1, <2>1, <3>2, PutOK
    <3>. QED  BY <1>5, <3>1, <3>2
  <2>. QED  BY <1>1, <1>4, <1>5, <2>1, <2>6, ChildHandlerOK DEF OctaviaOK
<1>6. ASSUME ObtainFails(ProtocolOf[l])
      PROVE  IInv'
  BY <1>1, <1>4, <1>6, ObtainFailsOK, ChildHandlerOK DEF OctaviaOK
<1>. QED  BY <1>5, <1>6 DEF ListenerCreate

LEMMA ListenerDeleteOK ==
    ASSUME IInv, NEW l \in Listener, ListenerDelete(l)
    PROVE  IInv'
<1>. DEFINE key == <<l, TRUE>>
<1>1. /\ RowsOK /\ OctaviaOK /\ oLb.prov = "ACTIVE"
      /\ UNCHANGED <<oLb, oPool, oMember, unanswered>>
  BY DEF IInv, ListenerDelete, Mutable
<1>2. oListener' \in [Listener -> ListenerRecord]
  <2>1. \/ oListener' = [oListener EXCEPT ![l] = AbsentListener]
        \/ oListener' = [oListener EXCEPT ![l].prov = "ERROR"]
    BY DEF ListenerDelete
  <2>2. [oListener[l] EXCEPT !.prov = "ERROR"] \in ListenerRecord
    BY <1>1, RecordTypes DEF OctaviaOK, ListenerRecord
  <2>. QED  BY <1>1, <2>1, <2>2, RecordTypes DEF OctaviaOK
<1>3. RowsOK'
  <2>1. ASSUME NEW r \in FindRow(ProtocolOf[l]),
               PutOrClean(r, Refresh(DropListener(rows[r], key)),
                          DropListener(rows[r], key))
        PROVE  RowsOK'
    <3>. DEFINE row == DropListener(rows[r], key)
    <3>1. r \in live /\ rows[r] \in RowContents /\ RowKeysOK(rows[r])
      BY <1>1, FindRowLive, LiveRowOK
    <3>2. /\ row \in RowContents
          /\ row.protocol = rows[r].protocol
          /\ row.listeners = rows[r].listeners \ {key}
          /\ row.pools = rows[r].pools
      <4>1. key \in ListenerKey
        BY DEF ListenerKey
      <4>. QED  BY <3>1, <4>1, DropListenerGives
    <3>3. RowKeysOK(row)
      <4>. HIDE DEF row, key
      <4>. QED  BY <3>1, <3>2 DEF RowKeysOK
    <3>4. Refresh(row) \in RowContents /\ SameKeys(Refresh(row), row)
      <4>. HIDE DEF row
      <4>. QED  BY <3>2, RefreshKeeps
    <3>. HIDE DEF row
    <3>5. RowKeysOK(Refresh(row)) /\ Refresh(row).protocol = rows[r].protocol
          /\ Refresh(row).listeners \subseteq row.listeners
          /\ Refresh(row).pools \subseteq row.pools
      BY <3>2, <3>3, <3>4, SameKeysOK DEF SameKeys
    <3>6. PutOrClean(r, Refresh(row), row)
      BY <2>1 DEF row
    <3>. QED  BY <1>1, <3>1, <3>4, <3>5, <3>6, PutOrCleanOK
  <2>. QED  BY <1>1, <2>1, UnchangedRowsOK DEF ListenerDelete
<1>. QED  BY <1>1, <1>2, <1>3, ChildHandlerOK DEF OctaviaOK

LEMMA ListenerUpdateOK ==
    ASSUME IInv, NEW l \in Listener, NEW up \in Opt(BOOLEAN),
           NEW dp \in Opt(Pool \cup {None}), ListenerUpdate(l, up, dp)
    PROVE  IInv'
<1>1. /\ RowsOK /\ OctaviaOK /\ oLb.prov = "ACTIVE"
      /\ UNCHANGED <<oPool, oMember, unanswered>>
      /\ (oLb' = oLb \/ oLb' = [oLb EXCEPT !.prov = "ERROR"])
  BY DEF IInv, ListenerUpdate, Mutable
<1>2. oListener' \in [Listener -> ListenerRecord]
  <2>1. PICK prov \in Prov : oListener' = [oListener EXCEPT ![l] =
           [prov |-> prov, up |-> Given(up, @.up), pool |-> Given(dp, @.pool)]]
    BY DEF ListenerUpdate, Prov
  <2>2. oListener[l].up \in BOOLEAN /\ oListener[l].pool \in Pool \cup {None}
    BY <1>1 DEF OctaviaOK, ListenerRecord
  <2>3. /\ Given(up, oListener[l].up) \in BOOLEAN
        /\ Given(dp, oListener[l].pool) \in Pool \cup {None}
    BY <2>2 DEF Opt, Given
  <2>4. [prov |-> prov, up |-> Given(up, oListener[l].up),
         pool |-> Given(dp, oListener[l].pool)] \in ListenerRecord
    BY <2>3 DEF ListenerRecord
  <2>. QED  BY <1>1, <2>1, <2>4 DEF OctaviaOK
<1>3. RowsOK'
  <2>1. ASSUME NEW r \in FindRow(ProtocolOf[l]), NEW k \in rows[r].listeners,
               Put(r, ListenerMoved(rows[r], k, up, dp))
        PROVE  RowsOK'
    <3>1. r \in live /\ rows[r] \in RowContents /\ RowKeysOK(rows[r])
      BY <1>1, FindRowLive, LiveRowOK
    <3>2. LET new == ListenerMoved(rows[r], k, up, dp)
          IN  /\ new \in RowContents /\ RowKeysOK(new)
              /\ new.protocol = rows[r].protocol
      BY <3>1, ListenerMovedOK
    <3>. QED  BY <1>1, <2>1, <3>1, <3>2, PutKeepsProtocol
  <2>2. \/ UNCHANGED <<live, rows>>
        \/ \E r \in FindRow(ProtocolOf[l]) : \E k \in rows[r].listeners :
              Put(r, ListenerMoved(rows[r], k, up, dp))
    BY DEF ListenerUpdate
  <2>. QED  BY <1>1, <2>1, <2>2, UnchangedRowsOK
<1>. QED  BY <1>1, <1>2, <1>3, ChildHandlerOK DEF OctaviaOK

LEMMA PoolCreateOK ==
    ASSUME IInv, NEW p \in Pool, NEW up \in CreateStates,
           NEW l \in Listener \cup {None}, PoolCreate(p, up, l)
    PROVE  IInv'
<1>. DEFINE key == <<p, up>>
            lkey == <<l, TRUE>>
            attached(row) == IF l # None /\ lkey \in row.listeners
                             THEN [row EXCEPT !.refs[lkey] = @ \cup {key}] ELSE row
<1>1. /\ RowsOK /\ OctaviaOK /\ oLb.prov = "ACTIVE" /\ unanswered' \in BOOLEAN
      /\ oMember' = oMember
  BY DEF IInv, OctaviaOK, PoolCreate, Mutable, ObtainFails
<1>2. up \in BOOLEAN /\ ProtocolOf[p] \in Protocol /\ key \in PoolKey
      /\ key \in PoolRef
  <2>1. up \in BOOLEAN /\ ProtocolOf[p] \in Protocol
    BY ConstantsAssumption
  <2>. QED  BY <2>1 DEF PoolKey, PoolRef
<1>3. \A r \in live, b \in BOOLEAN : <<p, b>> \notin rows[r].pools
  BY DEF PoolCreate, UnusedPool
<1>4. oPool' \in [Pool -> ChildRecord]
  <2>1. PICK prov \in Prov : oPool' = [oPool EXCEPT ![p] = [prov |-> prov, up |-> up]]
    BY DEF PoolCreate, Prov
  <2>2. [prov |-> prov, up |-> up] \in ChildRecord
    BY <1>2 DEF ChildRecord
  <2>. QED  BY <1>1, <2>1, <2>2 DEF OctaviaOK
<1>5. oListener' \in [Listener -> ListenerRecord]
  <2>1. oListener' = [k \in Listener |->
           IF k = l THEN [oListener[k] EXCEPT !.pool = p] ELSE oListener[k]]
    BY DEF PoolCreate
  <2>2. \A k \in Listener : [oListener[k] EXCEPT !.pool = p] \in ListenerRecord
    BY <1>1 DEF OctaviaOK, ListenerRecord
  <2>. QED  BY <1>1, <2>1, <2>2 DEF OctaviaOK
<1>6. ASSUME NEW o \in Obtain(ProtocolOf[p], up),
             \/ Put(o.id, PutPool(attached(o.row), key, {}))
             \/ Put(o.id, o.row),
             oLb' = [oLb EXCEPT !.vipPort = o.port]
      PROVE  IInv'
  <2>1. /\ o.id \in Row /\ o.row \in RowContents /\ o.port \in BOOLEAN
        /\ o.row.protocol = ProtocolOf[p] /\ RowKeysOK(o.row) /\ Fits(o.id, o.row)
        /\ \/ o.id \in live /\ o.row.pools = rows[o.id].pools
           \/ o.row.pools = {}
    BY <1>2, ObtainOK
  <2>2. attached(o.row) \in RowContents /\ SameKeys(attached(o.row), o.row)
    <3>1. ASSUME lkey \in o.row.listeners
          PROVE  LET new == [o.row EXCEPT !.refs[lkey] = @ \cup {key}]
                 IN  new \in RowContents /\ SameKeys(new, o.row)
      <4>1. lkey \in ListenerKey
        BY <2>1, <3>1 DEF RowContents
      <4>. HIDE DEF lkey, key
      <4>. QED  BY <1>2, <2>1, <4>1 DEF RowContents, SameKeys
    <3>. HIDE DEF lkey, key
    <3>. QED  BY <2>1, <3>1 DEF SameKeys
  <2>. DEFINE put == PutPool(attached(o.row), key, {})
  <2>3. /\ put \in RowContents
        /\ put.protocol = o.row.protocol
        /\ put.listeners = o.row.listeners
        /\ put.pools = o.row.pools \cup {key}
    <3>. HIDE DEF key, attached
    <3>. QED  BY <1>2, <2>2, PutPoolGives DEF SameKeys
  <2>4. RowKeysOK(put)
    <3>1. \A c \in BOOLEAN : <<p, c>> \notin o.row.pools
      BY <1>3, <2>1
    <3>2. o.row.pools \subseteq PoolKey
      BY <2>1 DEF RowContents
    <3>. HIDE DEF put
    <3>. QED  BY <1>2, <2>1, <2>3, <3>1, <3>2, NewPoolKeyOK
  <2>5. RowsOK'
    <3>. HIDE DEF put
    <3>1. Fits(o.id, put)
      BY <2>1, <2>3 DEF Fits
    <3>2. CASE Put(o.id, put)
      BY <1>1, <2>1, <2>3, <2>4, <3>1, <3>2, PutOK
    <3>3. CASE Put(o.id, o.row)
      BY <1>1, <2>1, <3>3, PutOK
    <3>. QED  BY <1>6, <3>2, <3>3 DEF put
  <2>. QED
    BY <1>1, <1>4, <1>5, <1>6, <2>1, <2>5, ChildHandlerOK DEF OctaviaOK
<1>7. ASSUME ObtainFails(ProtocolOf[p])
      PROVE  IInv'
  BY <1>1, <1>4, <1>5, <1>7, ObtainFailsOK, ChildHandlerOK DEF OctaviaOK
<1>. QED  BY <1>6, <1>7 DEF PoolCreate

LEMMA PoolDeleteOK ==
    ASSUME IInv, NEW p \in Pool, PoolDelete(p)
    PROVE  IInv'
<1>. DEFINE plain(row) == IF <<p, TRUE>> \in row.pools
                          THEN Refresh(DropPool(row, <<p, TRUE>>)) ELSE row
            believed(row) == DetachPool(plain(row), p)
            final(row) == DropPool(believed(row), <<p, FALSE>>)
<1>1. RowsOK /\ OctaviaOK /\ oLb.prov = "ACTIVE" /\ UNCHANGED <<oLb, unanswered>>
  BY DEF IInv, PoolDelete, Mutable
<1>2. /\ oListener' \in [Listener -> ListenerRecord]
      /\ oPool' \in [Pool -> ChildRecord]
      /\ oMember' \in [Member -> ChildRecord]
  <2>1. CASE /\ oPool' = [oPool EXCEPT ![p] = AbsentChild]
             /\ oListener' = [l \in Listener |->
                   IF oListener[l].pool = p
                   THEN [oListener[l] EXCEPT !.pool = None] ELSE oListener[l]]
             /\ oMember' = [m \in Member |->
                   IF PoolOf[m] = p THEN AbsentChild ELSE oMember[m]]
    <3>1. \A l \in Listener : [oListener[l] EXCEPT !.pool = None] \in ListenerRecord
      BY <1>1 DEF OctaviaOK, ListenerRecord
    <3>. QED  BY <1>1, <2>1, <3>1, RecordTypes DEF OctaviaOK
  <2>2. CASE /\ oPool' = [oPool EXCEPT ![p].prov = "ERROR"]
             /\ UNCHANGED <<oListener, oMember>>
    <3>1. [oPool[p] EXCEPT !.prov = "ERROR"] \in ChildRecord
      BY <1>1, RecordTypes DEF OctaviaOK, ChildRecord
    <3>. QED  BY <1>1, <2>2, <3>1 DEF OctaviaOK
  <2>. QED  BY <2>1, <2>2 DEF PoolDelete
<1>3. RowsOK'
  <2>1. ASSUME NEW r \in FindRow(ProtocolOf[p]),
               PutOrClean(r, final(rows[r]), believed(rows[r]))
        PROVE  RowsOK'
    <3>1. r \in live /\ rows[r] \in RowContents /\ RowKeysOK(rows[r])
      BY <1>1, FindRowLive, LiveRowOK
    <3>. <<p, TRUE>> \in PoolKey /\ <<p, FALSE>> \in PoolKey
      BY DEF PoolKey
    <3>2. /\ plain(rows[r]) \in RowContents
          /\ plain(rows[r]).protocol = rows[r].protocol
          /\ plain(rows[r]).listeners = rows[r].listeners
          /\ plain(rows[r]).pools \subseteq rows[r].pools
      <4>. DEFINE row == DropPool(rows[r], <<p, TRUE>>)
      <4>1. /\ row \in RowContents
            /\ row.protocol = rows[r].protocol
            /\ row.listeners = rows[r].listeners
            /\ row.pools = rows[r].pools \ {<<p, TRUE>>}
        BY <3>1, DropPoolGives
      <4>. HIDE DEF row
      <4>2. Refresh(row) \in RowContents /\ SameKeys(Refresh(row), row)
        BY <4>1, RefreshKeeps
      <4>3. plain(rows[r]) = Refresh(row) \/ plain(rows[r]) = rows[r]
        BY DEF row
      <4>. HIDE DEF plain
      <4>. QED  BY <3>1, <4>1, <4>2, <4>3 DEF SameKeys
    <3>3. /\ believed(rows[r]) \in RowContents
          /\ SameKeys(believed(rows[r]), plain(rows[r]))
      <4>. HIDE DEF plain
      <4>. QED  BY <3>2, DetachPoolKeeps
    <3>4. /\ final(rows[r]) \in RowContents
          /\ final(rows[r]).protocol = believed(rows[r]).protocol
          /\ final(rows[r]).listeners = believed(rows[r]).listeners
          /\ final(rows[r]).pools \subseteq believed(rows[r]).pools
      <4>. HIDE DEF believed
      <4>1. final(rows[r]).pools = believed(rows[r]).pools \ {<<p, FALSE>>}
        BY <3>3, DropPoolGives
      <4>. QED  BY <3>3, <4>1, DropPoolGives
    <3>. HIDE DEF plain, believed, final
    <3>5. RowKeysOK(final(rows[r]))
      BY <3>1, <3>2, <3>3, <3>4 DEF RowKeysOK, SameKeys
    <3>. QED  BY <1>1, <2>1, <3>1, <3>2, <3>3, <3>4, <3>5, PutOrCleanOK DEF SameKeys
  <2>. QED  BY <1>1, <2>1, UnchangedRowsOK DEF PoolDelete
<1>. QED  BY <1>1, <1>2, <1>3, ChildHandlerOK DEF OctaviaOK

LEMMA PoolUpdateOK ==
    ASSUME IInv, NEW p \in Pool, NEW up \in Opt(BOOLEAN), PoolUpdate(p, up)
    PROVE  IInv'
<1>1. /\ RowsOK /\ OctaviaOK /\ oLb.prov = "ACTIVE"
      /\ UNCHANGED <<oListener, oMember, unanswered>>
      /\ (oLb' = oLb \/ oLb' = [oLb EXCEPT !.prov = "ERROR"])
  BY DEF IInv, PoolUpdate, Mutable
<1>2. oPool' \in [Pool -> ChildRecord]
  <2>1. PICK prov \in Prov : oPool' = [oPool EXCEPT ![p] =
                                [prov |-> prov, up |-> Given(up, @.up)]]
    BY DEF PoolUpdate, Prov
  <2>2. oPool[p].up \in BOOLEAN
    BY <1>1 DEF OctaviaOK, ChildRecord
  <2>3. [prov |-> prov, up |-> Given(up, oPool[p].up)] \in ChildRecord
    BY <2>2 DEF ChildRecord, Opt, Given
  <2>. QED  BY <1>1, <2>1, <2>3 DEF OctaviaOK
<1>3. RowsOK'
  <2>. DEFINE to == Given(up, TRUE)
  <2>1. to \in BOOLEAN
    BY DEF Opt, Given
  <2>2. \/ UNCHANGED <<live, rows>>
        \/ \E r \in FindRow(ProtocolOf[p]) :
              /\ <<p, ~to>> \in rows[r].pools
              /\ Put(r, PoolSwitched(rows[r], <<p, ~to>>, <<p, to>>))
    BY DEF PoolUpdate
  <2>. HIDE DEF to
  <2>3. ASSUME NEW r \in FindRow(ProtocolOf[p]), <<p, ~to>> \in rows[r].pools,
               Put(r, PoolSwitched(rows[r], <<p, ~to>>, <<p, to>>))
        PROVE  RowsOK'
    <3>1. r \in live /\ rows[r] \in RowContents /\ RowKeysOK(rows[r])
      BY <1>1, FindRowLive, LiveRowOK
    <3>2. LET new == PoolSwitched(rows[r], <<p, ~to>>, <<p, to>>)
          IN  /\ new \in RowContents /\ RowKeysOK(new)
              /\ new.protocol = rows[r].protocol
      BY <2>1, <2>3, <3>1, PoolSwitchedOK
    <3>. QED  BY <1>1, <2>3, <3>1, <3>2, PutKeepsProtocol
  <2>. QED  BY <1>1, <2>2, <2>3, UnchangedRowsOK
<1>. QED  BY <1>1, <1>2, <1>3, ChildHandlerOK DEF OctaviaOK

LEMMA PutSameKeysOK ==
    ASSUME RowsOK, NEW r \in live, NEW row \in RowContents,
           SameKeys(row, rows[r]), Put(r, row)
    PROVE  RowsOK'
BY LiveRowOK, SameKeysOK, PutKeepsProtocol

LEMMA MemberRowMissingOK ==
    ASSUME RowsOK, NEW m, NEW record, MemberRowMissing(m, record)
    PROVE  /\ RowsOK' /\ unanswered' \in BOOLEAN
           /\ oMember' = [oMember EXCEPT ![m] = record]
<1>1. /\ UNCHANGED <<live, rows>> /\ unanswered' = TRUE
      /\ oMember' = [oMember EXCEPT ![m] = record]
  BY DEF MemberRowMissing
<1>. QED  BY <1>1, UnchangedRowsOK

LEMMA ReportGives ==
    ASSUME NEW row, NEW m, NEW record, Report(row, m, record)
    PROVE  unanswered' \in BOOLEAN /\ oMember' = [oMember EXCEPT ![m] = record]
BY DEF Report, StatusRaises

LEMMA MemberCreateOK ==
    ASSUME IInv, NEW m \in Member, NEW up \in CreateStates, MemberCreate(m, up)
    PROVE  IInv'
<1>. DEFINE record == [prov |-> "ACTIVE", up |-> up]
            marked(row, status) == SetStatus(row, m, IF up THEN status ELSE "OFFLINE")
<1>1. /\ RowsOK /\ OctaviaOK /\ oLb.prov = "ACTIVE" /\ up \in BOOLEAN
      /\ UNCHANGED <<oLb, oListener, oPool>>
  BY ConstantsAssumption DEF IInv, MemberCreate, Mutable
<1>2. record \in ChildRecord
  BY <1>1, RecordTypes DEF ChildRecord
<1>. HIDE DEF record
<1>3. ASSUME NEW rk \in PoolRows(PoolOf[m]), NEW status \in {"NO_MONITOR", "ERROR"},
             NEW base, base \in {rows[rk[1]], MemberJoined(rows[rk[1]], rk[2], m, up)},
             Put(rk[1], marked(base, status))
      PROVE  RowsOK'
  <2>1. rk[1] \in live /\ rk[2] \in rows[rk[1]].pools
    BY PoolRowsLive
  <2>2. rows[rk[1]] \in RowContents
    BY <1>1, <2>1, LiveRowOK
  <2>3. base \in RowContents /\ SameKeys(base, rows[rk[1]])
    <3>1. rows[rk[1]] \in RowContents /\ SameKeys(rows[rk[1]], rows[rk[1]])
      BY <2>2 DEF SameKeys
    <3>. QED  BY <1>1, <1>3, <2>1, <3>1, MemberJoinedOK
  <2>4. marked(base, status) \in RowContents /\ SameKeys(marked(base, status), base)
    <3>1. (IF up THEN status ELSE "OFFLINE") \in MemberStatus
      BY DEF MemberStatus
    <3>. QED  BY <2>3, <3>1, SetStatusKeeps
  <2>5. SameKeys(marked(base, status), rows[rk[1]])
    <3>. HIDE DEF marked
    <3>. QED  BY <2>3, <2>4 DEF SameKeys
  <2>. HIDE DEF marked
  <2>. QED  BY <1>1, <1>3, <2>1, <2>4, <2>5, PutSameKeysOK
<1>4. \/ MemberRowMissing(m, record)
      \/ /\ RowsOK' /\ unanswered' \in BOOLEAN
         /\ oMember' = [oMember EXCEPT ![m] = record]
  <2>1. SUFFICES ASSUME NEW rk \in PoolRows(PoolOf[m]),
                        NEW status \in {"NO_MONITOR", "ERROR"},
                        NEW base \in {rows[rk[1]],
                                      MemberJoined(rows[rk[1]], rk[2], m, up)},
                        Put(rk[1], marked(base, status)),
                        Report(marked(base, status), m, record)
                 PROVE  /\ RowsOK' /\ unanswered' \in BOOLEAN
                        /\ oMember' = [oMember EXCEPT ![m] = record]
    BY DEF MemberCreate, record
  <2>2. RowsOK'
    BY <1>3, <2>1
  <2>. HIDE DEF marked
  <2>. QED  BY <2>1, <2>2, ReportGives
<1>5. RowsOK' /\ unanswered' \in BOOLEAN /\ oMember' = [oMember EXCEPT ![m] = record]
  BY <1>1, <1>4, MemberRowMissingOK
<1>6. oMember' \in [Member -> ChildRecord]
  BY <1>1, <1>2, <1>5 DEF OctaviaOK
<1>. QED  BY <1>1, <1>5, <1>6, ChildHandlerOK DEF OctaviaOK

LEMMA MemberDeleteOK ==
    ASSUME IInv, NEW m \in Member, MemberDelete(m)
    PROVE  IInv'
<1>. DEFINE failed == [oMember[m] EXCEPT !.prov = "DELETE_ERROR"]
            Reported == /\ RowsOK' /\ unanswered' \in BOOLEAN
                        /\ \E record \in {failed, AbsentChild, oMember[m]} :
                              oMember' = [oMember EXCEPT ![m] = record]
<1>1. /\ RowsOK /\ OctaviaOK /\ oLb.prov = "ACTIVE"
      /\ UNCHANGED <<oLb, oListener, oPool>>
  BY DEF IInv, MemberDelete, Mutable
<1>2. ASSUME NEW rk \in PoolRows(PoolOf[m]), NEW sent,
             NEW record \in {failed, AbsentChild, oMember[m]},
             NEW base \in {rows[rk[1]], MemberLeft(rows[rk[1]], rk[2], m)},
             Put(rk[1], Forget(base, m)), Report(sent, m, record)
      PROVE  Reported
  <2>1. rk[1] \in live /\ rk[2] \in rows[rk[1]].pools
    BY PoolRowsLive
  <2>2. rows[rk[1]] \in RowContents /\ SameKeys(rows[rk[1]], rows[rk[1]])
    BY <1>1, <2>1, LiveRowOK DEF SameKeys
  <2>3. base \in RowContents /\ SameKeys(base, rows[rk[1]])
    BY <2>1, <2>2, MemberLeftOK
  <2>4. Forget(base, m) \in RowContents /\ SameKeys(Forget(base, m), rows[rk[1]])
    BY <2>3, ForgetKeeps DEF SameKeys
  <2>5. RowsOK'
    BY <1>1, <1>2, <2>1, <2>4, PutSameKeysOK
  <2>6. unanswered' \in BOOLEAN /\ oMember' = [oMember EXCEPT ![m] = record]
    <3>. HIDE DEF failed
    <3>. QED  BY <1>2, ReportGives
  <2>. QED  BY <1>2, <2>5, <2>6
<1>3. ASSUME MemberRowMissing(m, oMember[m])
      PROVE  Reported
  BY <1>1, <1>3, MemberRowMissingOK
<1>4. Reported
  <2>. HIDE DEF Reported
  <2>1. CASE MemberRowMissing(m, oMember[m])
    BY <1>3, <2>1
  <2>2. ASSUME NEW rk \in PoolRows(PoolOf[m]),
               LET row == rows[rk[1]]
                   left == MemberLeft(row, rk[2], m)
               IN  \/ Put(rk[1], Forget(left, m)) /\ Report(left, m, AbsentChild)
                   \/ Put(rk[1], Forget(row, m)) /\ Report(row, m, failed)
                   \/ Put(rk[1], Forget(left, m)) /\ Report(row, m, failed)
        PROVE  Reported
    <3>. HIDE DEF failed
    <3>. QED  BY <1>2, <2>2
  <2>. QED  BY <2>1, <2>2 DEF MemberDelete
<1>5. oMember' \in [Member -> ChildRecord]
  <2>1. failed \in ChildRecord
    BY <1>1, RecordTypes DEF OctaviaOK, ChildRecord
  <2>2. PICK record \in {failed, AbsentChild, oMember[m]} :
           oMember' = [oMember EXCEPT ![m] = record]
    BY <1>4
  <2>. HIDE DEF failed
  <2>3. record \in ChildRecord
    BY <1>1, <2>1, RecordTypes DEF OctaviaOK
  <2>. QED  BY <1>1, <2>2, <2>3 DEF OctaviaOK
<1>. QED  BY <1>1, <1>4, <1>5, ChildHandlerOK DEF OctaviaOK

LEMMA MemberUpdateOK ==
    ASSUME IInv, NEW m \in Member, NEW up \in Opt(BOOLEAN), MemberUpdate(m, up)
    PROVE  IInv'
<1>. DEFINE status(row) == SetStatus(row, m, IF Given(up, TRUE) THEN "NO_MONITOR"
                                                                ELSE "OFFLINE")
            asked(prov) == [prov |-> prov, up |-> Given(up, oMember[m].up)]
            Reported == /\ RowsOK' /\ unanswered' \in BOOLEAN
                        /\ \E prov \in {"ACTIVE", "ERROR"} :
                              oMember' = [oMember EXCEPT ![m] = asked(prov)]
<1>1. /\ RowsOK /\ OctaviaOK /\ oLb.prov = "ACTIVE"
      /\ UNCHANGED <<oLb, oListener, oPool>>
  BY DEF IInv, MemberUpdate, Mutable
<1>2. ASSUME NEW rk \in PoolRows(PoolOf[m]), NEW sent, NEW prov \in {"ACTIVE", "ERROR"},
             NEW new \in {rows[rk[1]], status(rows[rk[1]]),
                          Refresh(status(rows[rk[1]]))},
             Put(rk[1], new), Report(sent, m, asked(prov))
      PROVE  Reported
  <2>1. rk[1] \in live
    BY PoolRowsLive
  <2>2. rows[rk[1]] \in RowContents /\ SameKeys(rows[rk[1]], rows[rk[1]])
    BY <1>1, <2>1, LiveRowOK DEF SameKeys
  <2>3. /\ status(rows[rk[1]]) \in RowContents
        /\ SameKeys(status(rows[rk[1]]), rows[rk[1]])
    <3>1. (IF Given(up, TRUE) THEN "NO_MONITOR" ELSE "OFFLINE") \in MemberStatus
      BY DEF MemberStatus
    <3>. QED  BY <2>2, <3>1, SetStatusKeeps
  <2>. HIDE DEF status
  <2>4. /\ Refresh(status(rows[rk[1]])) \in RowContents
        /\ SameKeys(Refresh(status(rows[rk[1]])), rows[rk[1]])
    BY <2>3, RefreshKeeps DEF SameKeys
  <2>5. RowsOK'
    BY <1>1, <1>2, <2>1, <2>2, <2>3, <2>4, PutSameKeysOK
  <2>6. unanswered' \in BOOLEAN /\ oMember' = [oMember EXCEPT ![m] = asked(prov)]
    <3>. HIDE DEF asked
    <3>. QED  BY <1>2, ReportGives
  <2>. QED  BY <1>2, <2>5, <2>6
<1>3. ASSUME MemberRowMissing(m, asked("ACTIVE"))
      PROVE  Reported
  BY <1>1, <1>3, MemberRowMissingOK
<1>4. Reported
  <2>. HIDE DEF Reported
  <2>1. CASE MemberRowMissing(m, asked("ACTIVE"))
    BY <1>3, <2>1
  <2>2. ASSUME NEW rk \in PoolRows(PoolOf[m]),
               LET row == rows[rk[1]]
                   Ends(new, prov) == Put(rk[1], new) /\ Report(row, m, asked(prov))
               IN  \/ Ends(row, "ACTIVE")
                   \/ Ends(Refresh(status(row)), "ACTIVE")
                   \/ Ends(status(row), "ACTIVE")
                   \/ Ends(status(row), "ERROR")
        PROVE  Reported
    <3>. HIDE DEF status, asked
    <3>. QED  BY <1>2, <2>2
  <2>. QED  BY <2>1, <2>2 DEF MemberUpdate
<1>5. oMember' \in [Member -> ChildRecord]
  <2>1. PICK prov \in {"ACTIVE", "ERROR"} :
           oMember' = [oMember EXCEPT ![m] = asked(prov)]
    BY <1>4
  <2>2. oMember[m].up \in BOOLEAN
    BY <1>1 DEF OctaviaOK, ChildRecord
  <2>3. asked(prov) \in ChildRecord
    <3>1. Given(up, oMember[m].up) \in BOOLEAN
      BY <2>2 DEF Opt, Given
    <3>. QED  BY <3>1, RecordTypes DEF ChildRecord
  <2>. HIDE DEF asked
  <2>. QED  BY <1>1, <2>1, <2>3 DEF OctaviaOK
<1>. QED  BY <1>1, <1>4, <1>5, ChildHandlerOK DEF OctaviaOK

LEMMA NextOK == IInv /\ [Next]_vars => IInv'
<1>. SUFFICES ASSUME IInv, [Next]_vars PROVE IInv'
  OBVIOUS
<1>. CreateStates \subseteq BOOLEAN
  BY ConstantsAssumption
<1>1. ASSUME NEW up \in CreateStates, LbCreate(up) PROVE IInv'
  BY <1>1, LbCreateOK
<1>2. ASSUME NEW up \in BOOLEAN, LbUpdate(up) PROVE IInv'
  BY <1>2, LbUpdateOK
<1>3. ASSUME NEW cascade \in BOOLEAN, LbDelete(cascade) PROVE IInv'
  BY <1>3, LbDeleteOK
<1>4. ASSUME NEW l \in Listener,
             \/ \E up \in CreateStates, dp \in Pool \cup {None} :
                   ListenerCreate(l, up, dp)
             \/ \E up \in Opt(BOOLEAN), dp \in Opt(Pool \cup {None}) :
                   ListenerUpdate(l, up, dp)
             \/ ListenerDelete(l)
      PROVE  IInv'
  BY <1>4, ListenerCreateOK, ListenerUpdateOK, ListenerDeleteOK
<1>5. ASSUME NEW p \in Pool,
             \/ \E up \in CreateStates, l \in Listener \cup {None} :
                   PoolCreate(p, up, l)
             \/ \E up \in Opt(BOOLEAN) : PoolUpdate(p, up)
             \/ PoolDelete(p)
      PROVE  IInv'
  BY <1>5, PoolCreateOK, PoolUpdateOK, PoolDeleteOK
<1>6. ASSUME NEW m \in Member,
             \/ \E up \in CreateStates : MemberCreate(m, up)
             \/ \E up \in Opt(BOOLEAN) : MemberUpdate(m, up)
             \/ MemberDelete(m)
      PROVE  IInv'
  BY <1>6, MemberCreateOK, MemberUpdateOK, MemberDeleteOK
<1>7. ASSUME UNCHANGED vars PROVE IInv'
  BY <1>7 DEF vars, IInv, RowsOK, OctaviaOK, DeletedLeavesNothing, ProtocolsDistinct, OneKey
<1>. QED  BY <1>1, <1>2, <1>3, <1>4, <1>5, <1>6, <1>7 DEF Next

THEOREM Invariance == Spec => []IInv
BY InitOK, NextOK, PTL DEF Spec

-----------------------------------------------------------------------------
(* The theorems                                                            *)

\* Every state the handlers can bring about is made of well-formed rows and
\* records (all the handlers of helper.py from lb_create to member_update).
THEOREM TypeCorrect == Spec => []TypeOK
<1>1. IInv => TypeOK
  BY DEF IInv, RowsOK, OctaviaOK, TypeOK
<1>. QED  BY <1>1, Invariance, PTL

\* Two rows of one load balancer never have the same protocol, and never is one
\* without: the row _find_ovn_lbs returns for a protocol is the only one.
THEOREM RowsApart == Spec => []ProtocolsDistinct
<1>1. IInv => ProtocolsDistinct
  BY DEF IInv, RowsOK
<1>. QED  BY <1>1, Invariance, PTL

\* A listener or a pool has at most one key in all rows of the load balancer, and
\* it is in the row of its protocol: listener_update and pool_update move keys
\* and never leave a copy behind.
THEOREM KeysUnique == Spec => []OneKey
<1>1. IInv => OneKey
  BY DEF IInv, RowsOK
<1>. QED  BY <1>1, Invariance, PTL

\* A load balancer that was deleted, or never created, has no row left.
THEOREM NoRowOutlives == Spec => []DeletedLeavesNothing
<1>1. IInv => DeletedLeavesNothing
  BY DEF IInv
<1>. QED  BY <1>1, Invariance, PTL

-----------------------------------------------------------------------------
(***************************************************************************)
(* What the rows of a load balancer say of pools and members that Octavia *)
(* knows, whichever database calls fail.  The inductive invariant, Knows, *)
(* says of every row of a load balancer in ACTIVE that                     *)
(*   - each pool it holds exists;                                          *)
(*   - each pool one of its listeners names exists and has the protocol of *)
(*     the listener, so that pool_delete meets every mention of the pool   *)
(*     in the one row it looks at;                                         *)
(*   - each member with a status exists, its deletion has not failed, and  *)
(*     its pool is in that row, so that member_delete forgets the status   *)
(*     wherever there is one.                                              *)
(* It is an invariant beside IInv, which tells that no other row holds a   *)
(* key of the same pool or listener.                                       *)
(***************************************************************************)

KnownPools == {p \in Pool : Exists(oPool[p])}

\* The members that exist and whose deletion has not failed.
KnownMembers == {m \in Member : oMember[m].prov \in {"ACTIVE", "ERROR"}}

PoolsKnown(row, P) == \A k \in row.pools : k[1] \in P

RefsKnown(row, P) ==
    \A k \in row.listeners : \A x \in row.refs[k] : x[1] # None =>
        x[1] \in P /\ ProtocolOf[x[1]] = ProtocolOf[k[1]]

StatusKnown(row, M) ==
    \A m \in Member : row.status[m] # "none" =>
        m \in M /\ \E b \in BOOLEAN : <<PoolOf[m], b>> \in row.pools

Known(row, P, M) == PoolsKnown(row, P) /\ RefsKnown(row, P) /\ StatusKnown(row, M)

Knows == oLb.prov = "ACTIVE" =>
             \A r \in live : Known(rows[r], KnownPools, KnownMembers)

KInv == IInv /\ Knows

-----------------------------------------------------------------------------
(* Which rows a handler need not look at                                   *)

\* The row found for a protocol is the only one of that protocol.
LEMMA FoundAlone ==
    ASSUME RowsOK, NEW proto \in Protocol, NEW r \in FindRow(proto),
           NEW s \in live, s # r
    PROVE  rows[s].protocol # proto
<1>1. r \in live
  BY FindRowLive
<1>2. rows[r].protocol = proto
  BY <1>1 DEF FindRow
<1>. QED  BY <1>1, <1>2 DEF RowsOK, ProtocolsDistinct

LEMMA NoneFound ==
    ASSUME NEW proto, FindRow(proto) = {}, NEW s \in live
    PROVE  rows[s].protocol # proto
BY DEF FindRow

\* A row of another protocol says nothing of a pool.
LEMMA StrangeRow ==
    ASSUME NEW row \in RowContents, RowKeysOK(row), NEW p \in Pool,
           row.protocol # ProtocolOf[p], NEW P, NEW M, Known(row, P, M)
    PROVE  /\ \A k \in row.pools : k[1] # p
           /\ \A k \in row.listeners : \A x \in row.refs[k] : x[1] # p
           /\ \A m \in Member : PoolOf[m] = p => row.status[m] = "none"
<1>1. \A k \in row.pools : k[1] # p
  BY DEF RowKeysOK
<1>2. ASSUME NEW k \in row.listeners, NEW x \in row.refs[k], x[1] = p
      PROVE  FALSE
  <2>1. p # None
    BY ConstantsAssumption
  <2>2. ProtocolOf[p] = ProtocolOf[k[1]]
    BY <1>2, <2>1 DEF Known, RefsKnown
  <2>. QED  BY <2>2 DEF RowKeysOK
<1>3. \A m \in Member : PoolOf[m] = p => row.status[m] = "none"
  <2>1. \A b \in BOOLEAN : <<p, b>> \notin row.pools
    BY <1>1
  <2>. QED  BY <2>1 DEF Known, StatusKnown
<1>. QED  BY <1>1, <1>2, <1>3

-----------------------------------------------------------------------------
(* What the operators on rows leave of it                                  *)

\* More pools and members known.
LEMMA KnownGrows ==
    ASSUME NEW row, NEW P, NEW M, Known(row, P, M),
           NEW P2, P \subseteq P2, NEW M2, M \subseteq M2
    PROVE  Known(row, P2, M2)
BY DEF Known, PoolsKnown, RefsKnown, StatusKnown

\* A row that lists no more.
LEMMA KnownShrinks ==
    ASSUME NEW row, NEW P, NEW M, Known(row, P, M), NEW new,
           new.pools = row.pools, new.listeners \subseteq row.listeners,
           \A k \in new.listeners : new.refs[k] \subseteq row.refs[k],
           \A m \in Member : new.status[m] \in {row.status[m], "none"}
    PROVE  Known(new, P, M)
<1>1. PoolsKnown(new, P)
  BY DEF Known, PoolsKnown
<1>2. RefsKnown(new, P)
  BY DEF Known, RefsKnown
<1>3. StatusKnown(new, M)
  BY DEF Known, StatusKnown
<1>. QED  BY <1>1, <1>2, <1>3 DEF Known

LEMMA KnownNewRow ==
    ASSUME NEW proto, NEW up, NEW P, NEW M
    PROVE  Known(NewRow(proto, up), P, M)
BY DEF Known, PoolsKnown, RefsKnown, StatusKnown, NewRow

\* The fields that the vips are derived from, except members and enabled.
SameRecords(a, b) ==
    /\ a.pools = b.pools /\ a.listeners = b.listeners
    /\ a.refs = b.refs /\ a.status = b.status

LEMMA KnownSame ==
    ASSUME NEW a, NEW b, SameRecords(a, b), NEW P, NEW M, Known(b, P, M)
    PROVE  Known(a, P, M)
BY DEF SameRecords, Known, PoolsKnown, RefsKnown, StatusKnown

LEMMA RefreshRecords ==
    ASSUME NEW row \in RowContents
    PROVE  SameRecords(Refresh(row), row)
BY DEF Refresh, RowContents, SameRecords

LEMMA PutListenerRecords ==
    ASSUME NEW row \in RowContents, NEW k \in ListenerKey, NEW refs
    PROVE  LET new == PutListener(row, k, refs)
           IN  /\ new.pools = row.pools /\ new.status = row.status
               /\ new.listeners = row.listeners \cup {k}
               /\ new.refs[k] = refs
               /\ \A x \in ListenerKey \ {k} : new.refs[x] = row.refs[x]
BY DEF PutListener, RowContents

LEMMA DropListenerRecords ==
    ASSUME NEW row \in RowContents, NEW k \in ListenerKey
    PROVE  LET new == DropListener(row, k)
           IN  /\ new.pools = row.pools /\ new.status = row.status
               /\ new.listeners = row.listeners \ {k}
               /\ \A x \in ListenerKey \ {k} : new.refs[x] = row.refs[x]
BY DEF DropListener, RowContents

LEMMA PutPoolRecords ==
    ASSUME NEW row \in RowContents, NEW k, NEW mems
    PROVE  LET new == PutPool(row, k, mems)
           IN  /\ new.pools = row.pools \cup {k}
               /\ new.status = row.status /\ new.refs = row.refs
               /\ new.listeners = row.listeners
BY DEF PutPool, RowContents

LEMMA DropPoolRecords ==
    ASSUME NEW row \in RowContents, NEW k
    PROVE  LET new == DropPool(row, k)
           IN  /\ new.pools = row.pools \ {k}
               /\ new.status = row.status /\ new.refs = row.refs
               /\ new.listeners = row.listeners
BY DEF DropPool, RowContents

\* The value under the key k names the pool p.
Mentions(row, k, p) == \E b \in BOOLEAN : <<p, b>> \in row.refs[k]

LEMMA DetachPoolRecords ==
    ASSUME NEW row \in RowContents, NEW p
    PROVE  LET new == DetachPool(row, p)
           IN  /\ new.pools = row.pools /\ new.status = row.status
               /\ new.listeners = row.listeners
               /\ \A k \in ListenerKey :
                     /\ Mentions(row, k, p) => new.refs[k] = {}
                     /\ ~Mentions(row, k, p) => new.refs[k] = row.refs[k]
BY DEF DetachPool, RowContents, Mentions

LEMMA MemberJoinedRecords ==
    ASSUME NEW row \in RowContents, NEW k \in row.pools, NEW m \in Member,
           NEW up \in BOOLEAN
    PROVE  SameRecords(MemberJoined(row, k, m, up), row)
<1>. DEFINE joined == PutPool(row, k, row.members[k] \cup {m})
<1>1. k \in PoolKey /\ row.members[k] \cup {m} \in SUBSET Member
  BY DEF RowContents
<1>2. joined \in RowContents /\ SameRecords(joined, row)
  <2>1. row.pools \cup {k} = row.pools
    OBVIOUS
  <2>2. joined \in RowContents
    BY <1>1, PutPoolGives
  <2>3. /\ joined.pools = row.pools \cup {k}
        /\ joined.status = row.status /\ joined.refs = row.refs
        /\ joined.listeners = row.listeners
    BY PutPoolRecords
  <2>. HIDE DEF joined
  <2>. QED  BY <2>1, <2>2, <2>3 DEF SameRecords
<1>. HIDE DEF joined
<1>3. SameRecords(Refresh(joined), joined)
  BY <1>2, RefreshRecords
<1>. QED  BY <1>2, <1>3 DEF MemberJoined, joined, SameRecords

LEMMA MemberLeftRecords ==
    ASSUME NEW row \in RowContents, NEW k \in row.pools, NEW m \in Member
    PROVE  SameRecords(MemberLeft(row, k, m), row)
<1>. DEFINE left == PutPool(row, k, row.members[k] \ {m})
<1>1. k \in PoolKey /\ row.members[k] \ {m} \in SUBSET Member
  BY DEF RowContents
<1>2. left \in RowContents /\ SameRecords(left, row)
  <2>1. row.pools \cup {k} = row.pools
    OBVIOUS
  <2>2. left \in RowContents
    BY <1>1, PutPoolGives
  <2>3. /\ left.pools = row.pools \cup {k}
        /\ left.status = row.status /\ left.refs = row.refs
        /\ left.listeners = row.listeners
    BY PutPoolRecords
  <2>. HIDE DEF left
  <2>. QED  BY <2>1, <2>2, <2>3 DEF SameRecords
<1>. HIDE DEF left
<1>3. SameRecords(Refresh(left), left)
  BY <1>2, RefreshRecords
<1>. QED  BY <1>2, <1>3 DEF MemberLeft, left, SameRecords

\* A member gets a status in the row of its pool, or loses it.
LEMMA SetStatusKnown ==
    ASSUME NEW row \in RowContents, NEW m \in Member, NEW status,
           NEW P, NEW M, Known(row, P, M), m \in M,
           \E b \in BOOLEAN : <<PoolOf[m], b>> \in row.pools
    PROVE  Known(SetStatus(row, m, status), P, M)
<1>. DEFINE new == SetStatus(row, m, status)
<1>1. /\ new.pools = row.pools /\ new.listeners = row.listeners
      /\ new.refs = row.refs
      /\ \A x \in Member \ {m} : new.status[x] = row.status[x]
  BY DEF SetStatus, RowContents
<1>. HIDE DEF new
<1>. QED  BY <1>1 DEF new, Known, PoolsKnown, RefsKnown, StatusKnown

LEMMA ForgetKnown ==
    ASSUME NEW row \in RowContents, NEW m \in Member,
           NEW P, NEW M, Known(row, P, M)
    PROVE  Known(Forget(row, m), P, M \ {m})
<1>. DEFINE new == Forget(row, m)
<1>1. /\ new.pools = row.pools /\ new.listeners = row.listeners
      /\ new.refs = row.refs /\ new.status[m] = "none"
      /\ \A x \in Member \ {m} : new.status[x] = row.status[x]
  BY DEF Forget, RowContents
<1>. HIDE DEF new
<1>. QED  BY <1>1 DEF new, Known, PoolsKnown, RefsKnown, StatusKnown

-----------------------------------------------------------------------------
(* Writing rows                                                            *)

LEMMA PutKnown ==
    ASSUME RowsOK, NEW r \in Row, NEW row, Put(r, row), NEW P, NEW M,
           Known(row, P, M), \A s \in live \ {r} : Known(rows[s], P, M)
    PROVE  \A s \in live' : Known(rows'[s], P, M)
BY DEF Put, RowsOK

LEMMA PutOrCleanKnown ==
    ASSUME RowsOK, NEW r \in live, NEW row \in RowContents, NEW left,
           PutOrClean(r, row, left), NEW P, NEW M,
           Known(row, P, M), \A s \in live \ {r} : Known(rows[s], P, M)
    PROVE  \A s \in live' : Known(rows'[s], P, M)
<1>. r \in Row
  BY DEF RowsOK
<1>1. CASE Put(r, row)
  BY <1>1, PutKnown
<1>2. CASE Put(r, [row EXCEPT !.protocol = NoProtocol])
  <2>. DEFINE clean == [row EXCEPT !.protocol = NoProtocol]
  <2>1. SameRecords(clean, row)
    BY DEF SameRecords, RowContents
  <2>. HIDE DEF clean
  <2>2. Known(clean, P, M)
    BY <2>1, KnownSame
  <2>. QED  BY <1>2, <2>2, PutKnown DEF clean
<1>3. CASE live' = live \ {r} /\ rows' = [rows EXCEPT ![r] = BlankRow]
  BY <1>3 DEF RowsOK
<1>. QED  BY <1>1, <1>2, <1>3 DEF PutOrClean

\* What a handler may rely on.
LEMMA ActiveKnows ==
    ASSUME KInv, oLb.prov = "ACTIVE"
    PROVE  /\ IInv /\ RowsOK /\ OctaviaOK
           /\ \A r \in live : /\ r \in Row /\ rows[r] \in RowContents
                              /\ RowKeysOK(rows[r])
                              /\ Known(rows[r], KnownPools, KnownMembers)
BY LiveRowOK DEF KInv, Knows, IInv

\* A handler that writes no row and makes no resource unknown.
LEMMA NothingPut ==
    ASSUME KInv, oLb.prov = "ACTIVE", UNCHANGED <<live, rows>>,
           KnownPools \subseteq KnownPools', KnownMembers \subseteq KnownMembers'
    PROVE  Knows'
BY ActiveKnows, KnownGrows DEF Knows

\* A handler that writes one row and makes no resource unknown.
LEMMA OnePut ==
    ASSUME KInv, oLb.prov = "ACTIVE", NEW r \in Row, NEW row, Put(r, row),
           Known(row, KnownPools', KnownMembers'),
           KnownPools \subseteq KnownPools', KnownMembers \subseteq KnownMembers'
    PROVE  Knows'
<1>1. \A s \in live \ {r} : Known(rows[s], KnownPools', KnownMembers')
  BY ActiveKnows, KnownGrows
<1>. QED  BY <1>1, ActiveKnows, PutKnown DEF Knows

\* The row _get_or_create_ovn_lb returns says what it said before, or nothing.
LEMMA ObtainKnown ==
    ASSUME KInv, oLb.prov = "ACTIVE", NEW proto \in Protocol, NEW up \in BOOLEAN,
           NEW o \in Obtain(proto, up)
    PROVE  Known(o.row, KnownPools, KnownMembers)
<1>1. \/ \E r \in live : o.row \in {rows[r], [rows[r] EXCEPT !.protocol = proto]}
      \/ o.row = NewRow(proto, up)
  <2>. DEFINE same  == {r \in live : rows[r].protocol = proto}
              unset == {r \in live : rows[r].protocol = NoProtocol}
  <2>1. CASE same # {}
    BY <2>1 DEF Obtain
  <2>2. CASE same = {} /\ unset # {}
    BY <2>2 DEF Obtain
  <2>3. CASE same = {} /\ unset = {}
    <3>. DEFINE fresh == IF live = {} THEN {} ELSE Row \ live
                ports == IF "later" \in Failures THEN {oLb.vipPort, FALSE}
                                                 ELSE {oLb.vipPort}
    <3>1. o \in NewRows(proto, up)
      BY <2>3 DEF Obtain
    <3>2. NewRows(proto, up) = {[id |-> r, row |-> NewRow(proto, up), port |-> port] :
                                   r \in fresh, port \in ports}
      BY DEF NewRows
    <3>. HIDE DEF fresh, ports
    <3>. QED  BY <3>1, <3>2
  <2>. QED  BY <2>1, <2>2, <2>3
<1>2. ASSUME NEW r \in live
      PROVE  LET new == [rows[r] EXCEPT !.protocol = proto]
             IN  Known(new, KnownPools, KnownMembers)
  <2>. DEFINE new == [rows[r] EXCEPT !.protocol = proto]
  <2>1. rows[r] \in RowContents
    BY ActiveKnows
  <2>2. SameRecords(new, rows[r])
    BY <2>1 DEF RowContents, SameRecords
  <2>. HIDE DEF new
  <2>3. Known(new, KnownPools, KnownMembers)
    BY <2>2, ActiveKnows, KnownSame
  <2>. QED  BY <2>3 DEF new
<1>. QED  BY <1>1, <1>2, ActiveKnows, KnownNewRow

-----------------------------------------------------------------------------
(* The handlers keep it                                                    *)

LEMMA LbCreateKnows ==
    ASSUME KInv, NEW up \in BOOLEAN, LbCreate(up)
    PROVE  Knows'
<1>1. RowsOK /\ live = {}
  BY DEF KInv, IInv, LbCreate, DeletedLeavesNothing, AbsentLb
<1>2. \/ \E r \in Row : Put(r, NewRow(NoProtocol, up))
      \/ UNCHANGED <<live, rows>>
  BY DEF LbCreate
<1>3. CASE \E r \in Row : Put(r, NewRow(NoProtocol, up))
  BY <1>1, <1>3, KnownNewRow, PutKnown DEF Knows
<1>. QED  BY <1>1, <1>2, <1>3 DEF Knows

LEMMA LbUpdateKnows ==
    ASSUME KInv, NEW up \in BOOLEAN, LbUpdate(up)
    PROVE  Knows'
<1>1. oLb.prov = "ACTIVE" /\ UNCHANGED <<live, oPool, oMember>>
  BY DEF LbUpdate, Mutable
<1>2. ASSUME NEW r \in live
      PROVE  Known(rows'[r], KnownPools, KnownMembers)
  <2>. DEFINE new == [rows[r] EXCEPT !.enabled = up]
  <2>1. rows[r] \in RowContents /\ Known(rows[r], KnownPools, KnownMembers)
    BY <1>1, ActiveKnows
  <2>2. new \in RowContents /\ SameRecords(new, rows[r])
    BY <2>1 DEF RowContents, SameRecords
  <2>3. rows'[r] = rows[r] \/ rows'[r] = Refresh(new)
    BY <1>1, ActiveKnows DEF LbUpdate
  <2>. HIDE DEF new
  <2>4. Known(Refresh(new), KnownPools, KnownMembers)
    BY <2>1, <2>2, RefreshRecords, KnownSame
  <2>. QED  BY <2>1, <2>3, <2>4
<1>. QED  BY <1>1, <1>2 DEF Knows, KnownPools, KnownMembers

LEMMA LbDeleteKnows ==
    ASSUME KInv, NEW cascade \in BOOLEAN, LbDelete(cascade)
    PROVE  Knows'
<1>1. live' = {} \/ \E noted : DeletionFails(noted)
  BY DEF LbDelete, AllRowsGo
<1>2. ASSUME NEW noted, DeletionFails(noted)
      PROVE  oLb'.prov = "ERROR"
  BY <1>2 DEF DeletionFails, KInv, IInv, OctaviaOK, LbRecord
<1>. QED  BY <1>1, <1>2 DEF Knows

LEMMA ListenerCreateKnows ==
    ASSUME KInv, NEW l \in Listener, NEW up \in CreateStates,
           NEW dp \in Pool \cup {None}, ListenerCreate(l, up, dp)
    PROVE  Knows'
<1>. DEFINE key == <<l, up>>
            ref == IF dp = None THEN {} ELSE {<<dp, TRUE>>}
<1>1. oLb.prov = "ACTIVE" /\ UNCHANGED <<oPool, oMember>>
  BY DEF ListenerCreate, Mutable
<1>2. up \in BOOLEAN /\ key \in ListenerKey /\ ref \in SUBSET PoolRef
      /\ ProtocolOf[l] \in Protocol
  <2>1. up \in BOOLEAN /\ ProtocolOf[l] \in Protocol
    BY ConstantsAssumption
  <2>2. <<dp, TRUE>> \in PoolRef
    BY DEF PoolRef
  <2>. QED  BY <2>1, <2>2 DEF ListenerKey
<1>3. KnownPools' = KnownPools /\ KnownMembers' = KnownMembers
  BY <1>1 DEF KnownPools, KnownMembers
<1>4. ASSUME NEW o \in Obtain(ProtocolOf[l], up)
      PROVE  /\ o.id \in Row
             /\ Known(o.row, KnownPools, KnownMembers)
             /\ Known(Refresh(PutListener(o.row, key, ref)), KnownPools, KnownMembers)
  <2>. DEFINE put == PutListener(o.row, key, ref)
  <2>1. o.id \in Row /\ o.row \in RowContents
    BY <1>1, <1>2, ActiveKnows, ObtainOK
  <2>2. Known(o.row, KnownPools, KnownMembers)
    BY <1>1, <1>2, ObtainKnown
  <2>3. /\ put \in RowContents
        /\ put.pools = o.row.pools /\ put.status = o.row.status
        /\ put.listeners = o.row.listeners \cup {key}
        /\ put.refs[key] = ref
        /\ \A x \in ListenerKey \ {key} : put.refs[x] = o.row.refs[x]
    <3>. HIDE DEF key, ref
    <3>. QED  BY <1>2, <2>1, PutListenerGives, PutListenerRecords
  <2>. HIDE DEF put
  <2>4. \A x \in ref : x[1] \in KnownPools /\ ProtocolOf[x[1]] = ProtocolOf[l]
    <3>1. dp # None => dp \in KnownPools /\ ProtocolOf[dp] = ProtocolOf[l]
      BY DEF ListenerCreate, KnownPools
    <3>2. ASSUME NEW x \in ref PROVE dp # None /\ x[1] = dp
      <4>1. dp # None
        BY <3>2
      <4>2. ref = {<<dp, TRUE>>}
        BY <4>1
      <4>. HIDE DEF ref
      <4>3. x = <<dp, TRUE>>
        BY <3>2, <4>2
      <4>. QED  BY <4>1, <4>3
    <3>. QED  BY <3>1, <3>2
  <2>5. RefsKnown(put, KnownPools)
    <3>1. o.row.listeners \subseteq ListenerKey
      BY <2>1 DEF RowContents
    <3>2. ASSUME NEW k \in put.listeners, NEW x \in put.refs[k], x[1] # None
          PROVE  x[1] \in KnownPools /\ ProtocolOf[x[1]] = ProtocolOf[k[1]]
      <4>1. CASE k = key
        BY <2>3, <2>4, <4>1
      <4>2. CASE k # key
        BY <2>2, <2>3, <3>1, <3>2, <4>2 DEF Known, RefsKnown
      <4>. QED  BY <4>1, <4>2
    <3>. QED  BY <3>2 DEF RefsKnown
  <2>6. Known(put, KnownPools, KnownMembers)
    BY <2>2, <2>3, <2>5 DEF Known, PoolsKnown, StatusKnown
  <2>7. Known(Refresh(put), KnownPools, KnownMembers)
    BY <2>3, <2>6, RefreshRecords, KnownSame
  <2>. QED  BY <2>1, <2>2, <2>7 DEF put
<1>5. \/ UNCHANGED <<live, rows>>
      \/ \E o \in Obtain(ProtocolOf[l], up) :
            \/ Put(o.id, Refresh(PutListener(o.row, key, ref)))
            \/ Put(o.id, o.row)
  BY DEF ListenerCreate, ObtainFails
<1>. HIDE DEF key, ref
<1>. QED  BY <1>1, <1>3, <1>4, <1>5, NothingPut, OnePut

LEMMA ListenerDeleteKnows ==
    ASSUME KInv, NEW l \in Listener, ListenerDelete(l)
    PROVE  Knows'
<1>. DEFINE key == <<l, TRUE>>
<1>1. oLb.prov = "ACTIVE" /\ UNCHANGED <<oPool, oMember>>
  BY DEF ListenerDelete, Mutable
<1>2. KnownPools' = KnownPools /\ KnownMembers' = KnownMembers
  BY <1>1 DEF KnownPools, KnownMembers
<1>3. ASSUME NEW r \in FindRow(ProtocolOf[l]),
             PutOrClean(r, Refresh(DropListener(rows[r], key)),
                        DropListener(rows[r], key))
      PROVE  Knows'
  <2>. DEFINE row == DropListener(rows[r], key)
  <2>1. /\ r \in live /\ rows[r] \in RowContents
        /\ Known(rows[r], KnownPools, KnownMembers)
    BY <1>1, FindRowLive, ActiveKnows
  <2>2. /\ row \in RowContents
        /\ row.pools = rows[r].pools /\ row.status = rows[r].status
        /\ row.listeners = rows[r].listeners \ {key}
        /\ \A x \in ListenerKey \ {key} : row.refs[x] = rows[r].refs[x]
    <3>1. key \in ListenerKey
      BY DEF ListenerKey
    <3>. HIDE DEF key
    <3>. QED  BY <2>1, <3>1, DropListenerGives, DropListenerRecords
  <2>. HIDE DEF row
  <2>3. Known(row, KnownPools, KnownMembers)
    <3>1. rows[r].listeners \subseteq ListenerKey
      BY <2>1 DEF RowContents
    <3>. QED  BY <2>1, <2>2, <3>1, KnownShrinks
  <2>4. Refresh(row) \in RowContents /\ Known(Refresh(row), KnownPools, KnownMembers)
    BY <2>2, <2>3, RefreshKeeps, RefreshRecords, KnownSame
  <2>5. PutOrClean(r, Refresh(row), row)
    BY <1>3 DEF row
  <2>. QED  BY <1>1, <1>2, <2>1, <2>4, <2>5, ActiveKnows, PutOrCleanKnown DEF Knows
<1>. QED  BY <1>1, <1>2, <1>3, NothingPut DEF ListenerDelete

LEMMA ListenerUpdateKnows ==
    ASSUME KInv, NEW l \in Listener, NEW up \in Opt(BOOLEAN),
           NEW dp \in Opt(Pool \cup {None}), ListenerUpdate(l, up, dp)
    PROVE  Knows'
<1>1. oLb.prov = "ACTIVE" /\ UNCHANGED <<oPool, oMember>>
  BY DEF ListenerUpdate, Mutable
<1>2. KnownPools' = KnownPools /\ KnownMembers' = KnownMembers
  BY <1>1 DEF KnownPools, KnownMembers
<1>3. ASSUME NEW r \in FindRow(ProtocolOf[l]), NEW k \in rows[r].listeners, k[1] = l
      PROVE  /\ r \in Row
             /\ Known(ListenerMoved(rows[r], k, up, dp), KnownPools, KnownMembers)
  <2>. DEFINE moved == <<k[1], Given(up, k[2])>>
              refs == IF dp = {} THEN rows[r].refs[k] ELSE {<<Given(dp, None), TRUE>>}
              dropped == DropListener(rows[r], k)
              put == PutListener(dropped, moved, refs)
  <2>1. /\ r \in Row /\ rows[r] \in RowContents
        /\ Known(rows[r], KnownPools, KnownMembers)
        /\ k \in ListenerKey
    BY <1>1, FindRowLive, ActiveKnows DEF RowContents
  <2>2. moved \in ListenerKey /\ moved[1] = l
    <3>1. Given(up, k[2]) \in BOOLEAN
      BY <2>1 DEF ListenerKey, Opt, Given
    <3>. QED  BY <1>3, <3>1 DEF ListenerKey
  <2>3. refs \in SUBSET PoolRef
    <3>1. Given(dp, None) \in Pool \cup {None}
      BY DEF Opt, Given
    <3>2. <<Given(dp, None), TRUE>> \in PoolRef
      BY <3>1 DEF PoolRef
    <3>3. rows[r].refs[k] \in SUBSET PoolRef
      BY <2>1 DEF RowContents
    <3>. QED  BY <3>2, <3>3
  <2>4. \A x \in refs : x[1] # None =>
           x[1] \in KnownPools /\ ProtocolOf[x[1]] = ProtocolOf[l]
    <3>1. CASE dp = {}
      BY <1>3, <2>1, <3>1 DEF Known, RefsKnown
    <3>2. CASE dp # {}
      <4>1. PICK p \in Pool \cup {None} : dp = {p}
        BY <3>2 DEF Opt
      <4>2. refs = {<<p, TRUE>>}
        BY <4>1 DEF Given
      <4>3. p # None => p \in KnownPools /\ ProtocolOf[p] = ProtocolOf[l]
        BY <4>1 DEF ListenerUpdate, KnownPools
      <4>. HIDE DEF refs
      <4>. QED  BY <4>2, <4>3
    <3>. QED  BY <3>1, <3>2
  <2>5. /\ dropped \in RowContents
        /\ dropped.pools = rows[r].pools /\ dropped.status = rows[r].status
        /\ dropped.listeners = rows[r].listeners \ {k}
        /\ \A x \in ListenerKey \ {k} : dropped.refs[x] = rows[r].refs[x]
    BY <2>1, DropListenerGives, DropListenerRecords
  <2>6. Known(dropped, KnownPools, KnownMembers)
    <3>1. rows[r].listeners \subseteq ListenerKey
      BY <2>1 DEF RowContents
    <3>. HIDE DEF dropped
    <3>. QED  BY <2>1, <2>5, <3>1, KnownShrinks
  <2>7. /\ put \in RowContents
        /\ put.pools = dropped.pools /\ put.status = dropped.status
        /\ put.listeners = dropped.listeners \cup {moved}
        /\ put.refs[moved] = refs
        /\ \A x \in ListenerKey \ {moved} : put.refs[x] = dropped.refs[x]
    <3>. HIDE DEF dropped, moved, refs
    <3>. QED  BY <2>2, <2>3, <2>5, PutListenerGives, PutListenerRecords
  <2>8. RefsKnown(put, KnownPools)
    <3>. HIDE DEF put, dropped, refs, moved
    <3>1. dropped.listeners \subseteq ListenerKey
      BY <2>5 DEF RowContents
    <3>2. ASSUME NEW y \in put.listeners, NEW x \in put.refs[y], x[1] # None
          PROVE  x[1] \in KnownPools /\ ProtocolOf[x[1]] = ProtocolOf[y[1]]
      <4>1. CASE y = moved
        BY <2>2, <2>4, <2>7, <3>2, <4>1
      <4>2. CASE y # moved
        BY <2>6, <2>7, <3>1, <3>2, <4>2 DEF Known, RefsKnown
      <4>. QED  BY <4>1, <4>2
    <3>. QED  BY <3>2 DEF RefsKnown
  <2>9. ListenerMoved(rows[r], k, up, dp) = Refresh(put)
    BY DEF ListenerMoved
  <2>. HIDE DEF put, dropped
  <2>10. Known(put, KnownPools, KnownMembers)
    BY <2>6, <2>7, <2>8 DEF Known, PoolsKnown, StatusKnown
  <2>11. Known(Refresh(put), KnownPools, KnownMembers)
    BY <2>7, <2>10, RefreshRecords, KnownSame
  <2>. QED  BY <2>1, <2>9, <2>11
<1>4. \/ UNCHANGED <<live, rows>>
      \/ \E r \in FindRow(ProtocolOf[l]) : \E k \in rows[r].listeners :
            k[1] = l /\ Put(r, ListenerMoved(rows[r], k, up, dp))
  BY DEF ListenerUpdate
<1>. QED  BY <1>1, <1>2, <1>3, <1>4, NothingPut, OnePut

LEMMA PoolCreateKnows ==
    ASSUME KInv, NEW p \in Pool, NEW up \in CreateStates,
           NEW l \in Listener \cup {None}, PoolCreate(p, up, l)
    PROVE  Knows'
<1>. DEFINE key == <<p, up>>
            lkey == <<l, TRUE>>
            attached(row) == IF l # None /\ lkey \in row.listeners
                             THEN [row EXCEPT !.refs[lkey] = @ \cup {key}] ELSE row
<1>1. oLb.prov = "ACTIVE" /\ oMember' = oMember
  BY DEF PoolCreate, Mutable
<1>2. up \in BOOLEAN /\ ProtocolOf[p] \in Protocol /\ key \in PoolKey
      /\ key \in PoolRef
  <2>1. up \in BOOLEAN /\ ProtocolOf[p] \in Protocol
    BY ConstantsAssumption
  <2>. QED  BY <2>1 DEF PoolKey, PoolRef
<1>3. /\ KnownPools \subseteq KnownPools' /\ p \in KnownPools'
      /\ KnownMembers \subseteq KnownMembers'
  <2>1. PICK prov \in {"ACTIVE", "ERROR"} :
           oPool' = [oPool EXCEPT ![p] = [prov |-> prov, up |-> up]]
    BY DEF PoolCreate
  <2>2. oPool \in [Pool -> ChildRecord]
    BY <1>1, ActiveKnows DEF OctaviaOK
  <2>3. \A q \in Pool : Exists(oPool[q]) \/ q = p => Exists(oPool'[q])
    BY <2>1, <2>2 DEF Exists
  <2>. QED  BY <1>1, <2>3 DEF KnownPools, KnownMembers
<1>4. ASSUME NEW o \in Obtain(ProtocolOf[p], up)
      PROVE  /\ o.id \in Row
             /\ Known(o.row, KnownPools', KnownMembers')
             /\ Known(PutPool(attached(o.row), key, {}), KnownPools', KnownMembers')
  <2>1. /\ o.id \in Row /\ o.row \in RowContents /\ RowKeysOK(o.row)
        /\ o.row.protocol = ProtocolOf[p]
    BY <1>1, <1>2, ActiveKnows, ObtainOK
  <2>2. Known(o.row, KnownPools', KnownMembers')
    BY <1>1, <1>2, <1>3, ObtainKnown, KnownGrows
  <2>. DEFINE row == attached(o.row)
  <2>3. /\ row \in RowContents
        /\ row.pools = o.row.pools /\ row.status = o.row.status
        /\ row.listeners = o.row.listeners
        /\ \A k \in ListenerKey : row.refs[k] \subseteq o.row.refs[k] \cup {key}
    <3>1. CASE l # None /\ lkey \in o.row.listeners
      <4>1. lkey \in ListenerKey
        BY <2>1, <3>1 DEF RowContents
      <4>2. row = [o.row EXCEPT !.refs[lkey] = @ \cup {key}]
        BY <3>1
      <4>. HIDE DEF lkey, key, row
      <4>. QED  BY <1>2, <2>1, <4>1, <4>2 DEF RowContents
    <3>2. CASE ~(l # None /\ lkey \in o.row.listeners)
      <4>1. row = o.row
        BY <3>2
      <4>. HIDE DEF row
      <4>. QED  BY <2>1, <4>1
    <3>. QED  BY <3>1, <3>2
  <2>. HIDE DEF row
  <2>4. LET put == PutPool(row, key, {})
        IN  /\ put.pools = row.pools \cup {key}
            /\ put.status = row.status /\ put.refs = row.refs
            /\ put.listeners = row.listeners
    <3>. HIDE DEF key
    <3>. QED  BY <2>3, PutPoolRecords
  <2>. DEFINE put == PutPool(row, key, {})
  <2>5. PoolsKnown(put, KnownPools')
    <3>. HIDE DEF put
    <3>. QED  BY <1>3, <2>2, <2>3, <2>4 DEF put, Known, PoolsKnown
  <2>6. RefsKnown(put, KnownPools')
    <3>1. o.row.listeners \subseteq ListenerKey
      BY <2>1 DEF RowContents
    <3>2. \A k \in o.row.listeners : ProtocolOf[k[1]] = ProtocolOf[p]
      BY <2>1 DEF RowKeysOK
    <3>3. ASSUME NEW k \in put.listeners, NEW x \in put.refs[k], x[1] # None
          PROVE  x[1] \in KnownPools' /\ ProtocolOf[x[1]] = ProtocolOf[k[1]]
      <4>1. k \in o.row.listeners /\ (x \in o.row.refs[k] \/ x = key)
        BY <2>3, <2>4, <3>1, <3>3
      <4>2. CASE x \in o.row.refs[k]
        BY <2>2, <3>3, <4>1, <4>2 DEF Known, RefsKnown
      <4>3. CASE x = key
        BY <1>3, <3>2, <4>1, <4>3
      <4>. QED  BY <4>1, <4>2, <4>3
    <3>. QED  BY <3>3 DEF RefsKnown
  <2>7. StatusKnown(put, KnownMembers')
    <3>. HIDE DEF put
    <3>. QED  BY <2>2, <2>3, <2>4 DEF put, Known, StatusKnown
  <2>. QED  BY <2>1, <2>2, <2>5, <2>6, <2>7 DEF Known, row
<1>5. \/ UNCHANGED <<live, rows>>
      \/ \E o \in Obtain(ProtocolOf[p], up) :
            \/ Put(o.id, PutPool(attached(o.row), key, {}))
            \/ Put(o.id, o.row)
  BY DEF PoolCreate, ObtainFails
<1>. HIDE DEF key, attached
<1>. QED  BY <1>1, <1>3, <1>4, <1>5, NothingPut, OnePut

LEMMA PoolUpdateKnows ==
    ASSUME KInv, NEW p \in Pool, NEW up \in Opt(BOOLEAN), PoolUpdate(p, up)
    PROVE  Knows'
<1>. DEFINE to == Given(up, TRUE)
<1>1. oLb.prov = "ACTIVE" /\ oMember' = oMember /\ to \in BOOLEAN
  BY DEF PoolUpdate, Mutable, Opt, Given
<1>2. KnownPools \subseteq KnownPools' /\ KnownMembers \subseteq KnownMembers'
  <2>1. PICK prov \in {"ACTIVE", "ERROR"} :
           oPool' = [oPool EXCEPT ![p] = [prov |-> prov, up |-> Given(up, @.up)]]
    BY DEF PoolUpdate
  <2>2. oPool \in [Pool -> ChildRecord]
    BY <1>1, ActiveKnows DEF OctaviaOK
  <2>3. \A q \in Pool : Exists(oPool[q]) => Exists(oPool'[q])
    BY <2>1, <2>2 DEF Exists
  <2>. QED  BY <1>1, <2>3 DEF KnownPools, KnownMembers
<1>3. \/ UNCHANGED <<live, rows>>
      \/ \E r \in FindRow(ProtocolOf[p]) :
            /\ <<p, ~to>> \in rows[r].pools
            /\ Put(r, PoolSwitched(rows[r], <<p, ~to>>, <<p, to>>))
  BY DEF PoolUpdate
<1>. HIDE DEF to
<1>4. ASSUME NEW r \in FindRow(ProtocolOf[p]), <<p, ~to>> \in rows[r].pools
      PROVE  /\ r \in Row
             /\ LET new == PoolSwitched(rows[r], <<p, ~to>>, <<p, to>>)
                IN  Known(new, KnownPools, KnownMembers)
  <2>. DEFINE old == <<p, ~to>>
              fresh == <<p, to>>
              put == PutPool(rows[r], fresh, rows[r].members[old])
              left == DropPool(put, old)
  <2>1. /\ r \in Row /\ rows[r] \in RowContents
        /\ Known(rows[r], KnownPools, KnownMembers)
    BY <1>1, FindRowLive, ActiveKnows
  <2>2. old \in PoolKey /\ fresh \in PoolKey /\ old # fresh
        /\ rows[r].members[old] \in SUBSET Member
    BY <1>1, <2>1 DEF PoolKey, RowContents
  <2>3. /\ put \in RowContents
        /\ put.pools = rows[r].pools \cup {fresh}
        /\ put.status = rows[r].status /\ put.refs = rows[r].refs
        /\ put.listeners = rows[r].listeners
    <3>. HIDE DEF old, fresh
    <3>. QED  BY <2>1, <2>2, PutPoolGives, PutPoolRecords
  <2>4. /\ left \in RowContents
        /\ left.pools = (rows[r].pools \cup {fresh}) \ {old}
        /\ left.status = rows[r].status /\ left.refs = rows[r].refs
        /\ left.listeners = rows[r].listeners
    <3>. HIDE DEF old, fresh, put
    <3>. QED  BY <2>2, <2>3, DropPoolGives, DropPoolRecords
  <2>. HIDE DEF left, put
  <2>5. PoolsKnown(left, KnownPools)
    <3>1. old[1] = p /\ fresh[1] = p
      OBVIOUS
    <3>. HIDE DEF old, fresh
    <3>. QED  BY <1>4, <2>1, <2>4, <3>1 DEF Known, PoolsKnown, old
  <2>6. RefsKnown(left, KnownPools)
    BY <2>1, <2>4 DEF Known, RefsKnown
  <2>7. StatusKnown(left, KnownMembers)
    <3>1. ASSUME NEW m \in Member, left.status[m] # "none"
          PROVE  m \in KnownMembers /\ \E b \in BOOLEAN : <<PoolOf[m], b>> \in left.pools
      <4>1. m \in KnownMembers /\ \E b \in BOOLEAN : <<PoolOf[m], b>> \in rows[r].pools
        BY <2>1, <2>4, <3>1 DEF Known, StatusKnown
      <4>2. PICK b \in BOOLEAN : <<PoolOf[m], b>> \in rows[r].pools
        BY <4>1
      <4>3. CASE <<PoolOf[m], b>> = old
        <5>1. PoolOf[m] = p
          BY <4>3
        <5>2. <<PoolOf[m], to>> \in left.pools
          BY <2>2, <2>4, <5>1
        <5>. QED  BY <1>1, <4>1, <5>2
      <4>4. CASE <<PoolOf[m], b>> # old
        <5>1. <<PoolOf[m], b>> \in left.pools
          BY <2>4, <4>2, <4>4
        <5>. QED  BY <4>1, <5>1
      <4>. QED  BY <4>3, <4>4
    <3>. QED  BY <3>1 DEF StatusKnown
  <2>8. PoolSwitched(rows[r], old, fresh) = Refresh(left)
    BY DEF PoolSwitched, left, put
  <2>9. Known(Refresh(left), KnownPools, KnownMembers)
    BY <2>4, <2>5, <2>6, <2>7, RefreshRecords, KnownSame DEF Known
  <2>. QED  BY <2>1, <2>8, <2>9
<1>5. ASSUME NEW r \in FindRow(ProtocolOf[p]), <<p, ~to>> \in rows[r].pools,
             Put(r, PoolSwitched(rows[r], <<p, ~to>>, <<p, to>>))
      PROVE  Knows'
  <2>. DEFINE new == PoolSwitched(rows[r], <<p, ~to>>, <<p, to>>)
  <2>1. r \in Row /\ Known(new, KnownPools', KnownMembers')
    BY <1>2, <1>4, <1>5, KnownGrows
  <2>2. Put(r, new)
    BY <1>5
  <2>. HIDE DEF new
  <2>. QED  BY <1>1, <1>2, <2>1, <2>2, OnePut
<1>. QED  BY <1>1, <1>2, <1>3, <1>5, NothingPut

LEMMA PoolDeleteKnows ==
    ASSUME KInv, NEW p \in Pool, PoolDelete(p)
    PROVE  Knows'
<1>. DEFINE plain(row) == IF <<p, TRUE>> \in row.pools
                          THEN Refresh(DropPool(row, <<p, TRUE>>)) ELSE row
            believed(row) == DetachPool(plain(row), p)
            final(row) == DropPool(believed(row), <<p, FALSE>>)
            gone == /\ oPool' = [oPool EXCEPT ![p] = AbsentChild]
                    /\ oMember' = [m \in Member |->
                          IF PoolOf[m] = p THEN AbsentChild ELSE oMember[m]]
<1>1. oLb.prov = "ACTIVE" /\ oLb' = oLb /\ p \in KnownPools
      /\ ProtocolOf[p] \in Protocol
  BY ConstantsAssumption DEF PoolDelete, Mutable, KnownPools
<1>2. \A m \in KnownMembers : PoolOf[m] # p
  BY DEF PoolDelete, KnownMembers
<1>3. ASSUME gone
      PROVE  KnownPools' = KnownPools \ {p} /\ KnownMembers' = KnownMembers
  <2>1. oPool \in [Pool -> ChildRecord] /\ oMember \in [Member -> ChildRecord]
    BY <1>1, ActiveKnows DEF OctaviaOK
  <2>2. \A q \in Pool : Exists(oPool'[q]) <=> Exists(oPool[q]) /\ q # p
    BY <1>3, <2>1 DEF Exists, AbsentChild
  <2>3. \A m \in Member : oMember'[m] = IF PoolOf[m] = p THEN AbsentChild ELSE oMember[m]
    BY <1>3
  <2>4. \A m \in Member : oMember'[m].prov \in {"ACTIVE", "ERROR"}
                             <=> oMember[m].prov \in {"ACTIVE", "ERROR"}
    BY <1>2, <2>3 DEF KnownMembers, AbsentChild
  <2>. QED  BY <2>2, <2>4 DEF KnownPools, KnownMembers
\* A row of another protocol does not mention the pool.
<1>4. ASSUME NEW s \in live, rows[s].protocol # ProtocolOf[p]
      PROVE  Known(rows[s], KnownPools \ {p}, KnownMembers)
  <2>1. /\ rows[s] \in RowContents /\ RowKeysOK(rows[s])
        /\ Known(rows[s], KnownPools, KnownMembers)
    BY <1>1, ActiveKnows
  <2>2. /\ \A k \in rows[s].pools : k[1] # p
        /\ \A k \in rows[s].listeners : \A x \in rows[s].refs[k] : x[1] # p
    BY <1>4, <2>1, StrangeRow
  <2>. QED  BY <2>1, <2>2 DEF Known, PoolsKnown, RefsKnown
\* The row of its protocol forgets it.
<1>5. ASSUME NEW r \in FindRow(ProtocolOf[p])
      PROVE  /\ r \in live /\ final(rows[r]) \in RowContents
             /\ Known(final(rows[r]), KnownPools \ {p}, KnownMembers)
  <2>. DEFINE row == rows[r]
  <2>. <<p, TRUE>> \in PoolKey /\ <<p, FALSE>> \in PoolKey
    BY DEF PoolKey
  <2>1. r \in live /\ row \in RowContents /\ Known(row, KnownPools, KnownMembers)
    BY <1>1, FindRowLive, ActiveKnows
  <2>. HIDE DEF row
  <2>2. /\ plain(row) \in RowContents
        /\ plain(row).pools = row.pools \ {<<p, TRUE>>}
        /\ plain(row).status = row.status /\ plain(row).refs = row.refs
        /\ plain(row).listeners = row.listeners
    <3>1. CASE <<p, TRUE>> \in row.pools
      <4>. DEFINE dropped == DropPool(row, <<p, TRUE>>)
      <4>1. /\ dropped \in RowContents
            /\ dropped.pools = row.pools \ {<<p, TRUE>>}
            /\ dropped.status = row.status /\ dropped.refs = row.refs
            /\ dropped.listeners = row.listeners
        BY <2>1, DropPoolGives, DropPoolRecords
      <4>2. plain(row) = Refresh(dropped)
        BY <3>1
      <4>. HIDE DEF dropped, plain
      <4>. QED  BY <4>1, <4>2, RefreshKeeps, RefreshRecords DEF SameRecords
    <3>2. CASE <<p, TRUE>> \notin row.pools
      BY <2>1, <3>2
    <3>. QED  BY <3>1, <3>2
  <2>. HIDE DEF plain
  <2>3. /\ believed(row) \in RowContents
        /\ believed(row).pools = row.pools \ {<<p, TRUE>>}
        /\ believed(row).status = row.status
        /\ believed(row).listeners = row.listeners
        /\ \A k \in ListenerKey :
              /\ Mentions(row, k, p) => believed(row).refs[k] = {}
              /\ ~Mentions(row, k, p) => believed(row).refs[k] = row.refs[k]
    <3>. DEFINE from == plain(row)
    <3>1. from \in RowContents /\ believed(row) = DetachPool(from, p)
      BY <2>2
    <3>. HIDE DEF from, believed
    <3>2. believed(row) \in RowContents
      BY <3>1, DetachPoolKeeps
    <3>3. /\ believed(row).pools = from.pools /\ believed(row).status = from.status
          /\ believed(row).listeners = from.listeners
          /\ \A k \in ListenerKey :
                /\ Mentions(from, k, p) => believed(row).refs[k] = {}
                /\ ~Mentions(from, k, p) => believed(row).refs[k] = from.refs[k]
      BY <3>1, DetachPoolRecords
    <3>. QED  BY <2>2, <3>2, <3>3 DEF from, Mentions
  <2>. HIDE DEF believed
  <2>4. /\ final(row) \in RowContents
        /\ final(row).pools = row.pools \ {<<p, TRUE>>, <<p, FALSE>>}
        /\ final(row).status = row.status
        /\ final(row).listeners = row.listeners
        /\ final(row).refs = believed(row).refs
    <3>1. LET new == DropPool(believed(row), <<p, FALSE>>)
          IN  /\ new \in RowContents
              /\ new.pools = believed(row).pools \ {<<p, FALSE>>}
              /\ new.status = believed(row).status
              /\ new.listeners = believed(row).listeners
              /\ new.refs = believed(row).refs
      BY <2>3, DropPoolGives, DropPoolRecords
    <3>. QED  BY <2>3, <3>1
  <2>. HIDE DEF final
  <2>5. PoolsKnown(final(row), KnownPools \ {p})
    <3>1. \A k \in row.pools : k = <<k[1], k[2]>> /\ k[2] \in BOOLEAN
      BY <2>1 DEF RowContents, PoolKey
    <3>2. \A k \in final(row).pools : k[1] # p
      BY <2>4, <3>1
    <3>. QED  BY <2>1, <2>4, <3>2 DEF Known, PoolsKnown
  <2>6. RefsKnown(final(row), KnownPools \ {p})
    <3>1. row.listeners \subseteq ListenerKey
          /\ \A k \in ListenerKey : row.refs[k] \subseteq PoolRef
      BY <2>1 DEF RowContents
    <3>2. ASSUME NEW k \in row.listeners, NEW x \in final(row).refs[k], x[1] # None
          PROVE  x[1] \in KnownPools \ {p} /\ ProtocolOf[x[1]] = ProtocolOf[k[1]]
      <4>1. /\ x \in row.refs[k]
            /\ ~ \E b \in BOOLEAN : <<p, b>> \in row.refs[k]
        BY <2>3, <2>4, <3>1, <3>2 DEF Mentions
      <4>2. x = <<x[1], x[2]>> /\ x[2] \in BOOLEAN
        BY <3>1, <4>1 DEF PoolRef
      <4>3. x[1] # p
        BY <4>1, <4>2
      <4>. QED  BY <2>1, <3>2, <4>1, <4>3 DEF Known, RefsKnown
    <3>. QED  BY <2>4, <3>2 DEF RefsKnown
  <2>7. StatusKnown(final(row), KnownMembers)
    <3>1. ASSUME NEW m \in Member, row.status[m] # "none"
          PROVE  m \in KnownMembers /\ \E b \in BOOLEAN : <<PoolOf[m], b>> \in final(row).pools
      <4>1. m \in KnownMembers /\ \E b \in BOOLEAN : <<PoolOf[m], b>> \in row.pools
        BY <2>1, <3>1 DEF Known, StatusKnown
      <4>2. \A b \in BOOLEAN : <<PoolOf[m], b>> \notin {<<p, TRUE>>, <<p, FALSE>>}
        BY <1>2, <4>1
      <4>. QED  BY <2>4, <4>1, <4>2
    <3>. QED  BY <2>4, <3>1 DEF StatusKnown
  <2>. QED  BY <2>1, <2>4, <2>5, <2>6, <2>7 DEF Known, row
<1>6. ASSUME FindRow(ProtocolOf[p]) = {}, gone, UNCHANGED <<live, rows>>
      PROVE  Knows'
  <2>1. \A s \in live : Known(rows[s], KnownPools \ {p}, KnownMembers)
    BY <1>4, <1>6, NoneFound
  <2>. QED  BY <1>3, <1>6, <2>1 DEF Knows
<1>7. ASSUME NEW r \in FindRow(ProtocolOf[p]), gone,
             PutOrClean(r, final(rows[r]), believed(rows[r]))
      PROVE  Knows'
  <2>. HIDE DEF final, believed
  <2>1. RowsOK
    BY <1>1, ActiveKnows
  <2>2. \A s \in live \ {r} : Known(rows[s], KnownPools \ {p}, KnownMembers)
    BY <1>1, <1>4, <2>1, FoundAlone
  <2>3. \A s \in live' : Known(rows'[s], KnownPools \ {p}, KnownMembers)
    BY <1>5, <1>7, <2>1, <2>2, PutOrCleanKnown
  <2>. QED  BY <1>3, <1>7, <2>3 DEF Knows
<1>8. ASSUME oPool' = [oPool EXCEPT ![p].prov = "ERROR"],
             UNCHANGED <<live, rows, oListener, oMember>>
      PROVE  Knows'
  <2>1. oPool \in [Pool -> ChildRecord]
    BY <1>1, ActiveKnows DEF OctaviaOK
  <2>2. \A q \in Pool : Exists(oPool[q]) => Exists(oPool'[q])
    BY <1>8, <2>1 DEF Exists, ChildRecord
  <2>. QED  BY <1>1, <1>8, <2>2, NothingPut DEF KnownPools, KnownMembers
<1>. QED
  <2>1. \/ FindRow(ProtocolOf[p]) = {} /\ gone /\ UNCHANGED <<live, rows>>
        \/ \E r \in FindRow(ProtocolOf[p]) :
              PutOrClean(r, final(rows[r]), believed(rows[r])) /\ gone
        \/ /\ oPool' = [oPool EXCEPT ![p].prov = "ERROR"]
           /\ UNCHANGED <<live, rows, oListener, oMember>>
    BY DEF PoolDelete
  <2>. HIDE DEF final, believed, gone
  <2>. QED  BY <1>6, <1>7, <1>8, <2>1

\* The rows PoolRows returns hold the pool.
LEMMA PoolRowsHold ==
    ASSUME NEW p, NEW rk \in PoolRows(p)
    PROVE  rk[2][1] = p /\ \E b \in BOOLEAN : <<p, b>> \in rows[rk[1]].pools
<1>. DEFINE holding(b) == {r \in live : <<p, b>> \in rows[r].pools}
<1>1. PICK b \in BOOLEAN : rk \in holding(b) \X {<<p, b>>}
  BY DEF PoolRows
<1>. QED  BY <1>1

LEMMA MemberCreateKnows ==
    ASSUME KInv, NEW m \in Member, NEW up \in CreateStates, MemberCreate(m, up)
    PROVE  Knows'
<1>. DEFINE record == [prov |-> "ACTIVE", up |-> up]
            marked(row, status) == SetStatus(row, m, IF up THEN status ELSE "OFFLINE")
<1>1. oLb.prov = "ACTIVE" /\ UNCHANGED <<oLb, oListener, oPool>> /\ up \in BOOLEAN
  BY ConstantsAssumption DEF MemberCreate, Mutable
<1>2. OctaviaOK
  BY <1>1, ActiveKnows
<1>3. ASSUME oMember' = [oMember EXCEPT ![m] = record]
      PROVE  /\ KnownPools \subseteq KnownPools'
             /\ KnownMembers \subseteq KnownMembers' /\ m \in KnownMembers'
  <2>1. record.prov \in {"ACTIVE", "ERROR"}
    OBVIOUS
  <2>. HIDE DEF record
  <2>2. oPool' = oPool
    BY <1>1
  <2>3. KnownPools' = KnownPools
    BY <2>2 DEF KnownPools
  <2>4. KnownMembers \subseteq KnownMembers' /\ m \in KnownMembers'
    <3>1. \A x \in Member : oMember'[x] = IF x = m THEN record ELSE oMember[x]
      BY <1>2, <1>3 DEF OctaviaOK
    <3>. QED  BY <2>1, <3>1 DEF KnownMembers
  <2>. QED  BY <2>3, <2>4
<1>4. ASSUME NEW rk \in PoolRows(PoolOf[m]), NEW status,
             NEW base \in {rows[rk[1]], MemberJoined(rows[rk[1]], rk[2], m, up)},
             Put(rk[1], marked(base, status)),
             oMember' = [oMember EXCEPT ![m] = record]
      PROVE  Knows'
  <2>1. /\ rk[1] \in Row /\ rk[2] \in rows[rk[1]].pools
        /\ rows[rk[1]] \in RowContents
        /\ Known(rows[rk[1]], KnownPools, KnownMembers)
    BY <1>1, PoolRowsLive, ActiveKnows
  <2>2. base \in RowContents /\ SameRecords(base, rows[rk[1]])
    <3>1. CASE base = rows[rk[1]]
      BY <2>1, <3>1 DEF SameRecords
    <3>2. CASE base = MemberJoined(rows[rk[1]], rk[2], m, up)
      BY <1>1, <2>1, <3>2, MemberJoinedOK, MemberJoinedRecords
    <3>. QED  BY <3>1, <3>2
  <2>3. Known(base, KnownPools', KnownMembers')
    BY <1>3, <1>4, <2>1, <2>2, KnownSame, KnownGrows
  <2>4. \E b \in BOOLEAN : <<PoolOf[m], b>> \in base.pools
    BY <2>2, PoolRowsHold DEF SameRecords
  <2>5. Known(marked(base, status), KnownPools', KnownMembers')
    BY <1>3, <1>4, <2>2, <2>3, <2>4, SetStatusKnown
  <2>. HIDE DEF marked
  <2>. QED  BY <1>1, <1>3, <1>4, <2>1, <2>5, OnePut
<1>5. CASE MemberRowMissing(m, record)
  <2>1. UNCHANGED <<live, rows>> /\ oMember' = [oMember EXCEPT ![m] = record]
    BY <1>5 DEF MemberRowMissing
  <2>. HIDE DEF record
  <2>. QED  BY <1>1, <1>3, <2>1, NothingPut
<1>6. CASE \E rk \in PoolRows(PoolOf[m]), status \in {"NO_MONITOR", "ERROR"} :
           \E base \in {rows[rk[1]], MemberJoined(rows[rk[1]], rk[2], m, up)} :
              /\ Put(rk[1], marked(base, status))
              /\ oMember' = [oMember EXCEPT ![m] = record]
  <2>. HIDE DEF marked, record
  <2>. QED  BY <1>4, <1>6
<1>. QED  BY <1>5, <1>6 DEF MemberCreate, Report

LEMMA MemberDeleteKnows ==
    ASSUME KInv, NEW m \in Member, MemberDelete(m)
    PROVE  Knows'
<1>. DEFINE failed == [oMember[m] EXCEPT !.prov = "DELETE_ERROR"]
<1>1. oLb.prov = "ACTIVE" /\ UNCHANGED <<oLb, oListener, oPool>>
  BY DEF MemberDelete, Mutable
<1>2. RowsOK /\ OctaviaOK
  BY <1>1, ActiveKnows
<1>3. KnownPools' = KnownPools
  BY <1>1 DEF KnownPools
<1>4. ASSUME NEW rk \in PoolRows(PoolOf[m]),
             NEW base \in {rows[rk[1]], MemberLeft(rows[rk[1]], rk[2], m)},
             Put(rk[1], Forget(base, m)),
             NEW record \in {failed, AbsentChild},
             oMember' = [oMember EXCEPT ![m] = record]
      PROVE  Knows'
  <2>1. KnownMembers' = KnownMembers \ {m}
    <3>1. oMember[m] \in ChildRecord
      BY <1>2 DEF OctaviaOK
    <3>2. record.prov \notin {"ACTIVE", "ERROR"}
      BY <1>4, <3>1 DEF AbsentChild, ChildRecord
    <3>3. \A x \in Member : oMember'[x] = IF x = m THEN record ELSE oMember[x]
      BY <1>2, <1>4 DEF OctaviaOK
    <3>. QED  BY <3>2, <3>3 DEF KnownMembers
  <2>2. /\ rk[1] \in Row /\ rk[1] \in live /\ rk[2] \in rows[rk[1]].pools
        /\ rows[rk[1]] \in RowContents /\ RowKeysOK(rows[rk[1]])
        /\ Known(rows[rk[1]], KnownPools, KnownMembers)
    BY <1>1, PoolRowsLive, ActiveKnows
  <2>3. base \in RowContents /\ SameRecords(base, rows[rk[1]])
    <3>1. CASE base = rows[rk[1]]
      BY <2>2, <3>1 DEF SameRecords
    <3>2. CASE base = MemberLeft(rows[rk[1]], rk[2], m)
      BY <2>2, <3>2, MemberLeftOK, MemberLeftRecords
    <3>. QED  BY <3>1, <3>2
  <2>4. Known(Forget(base, m), KnownPools, KnownMembers \ {m})
    BY <2>2, <2>3, KnownSame, ForgetKnown
  \* No other row holds the pool, so none has a status of the member.
  <2>5. ASSUME NEW s \in live \ {rk[1]}
        PROVE  Known(rows[s], KnownPools, KnownMembers \ {m})
    <3>1. rows[rk[1]].protocol = ProtocolOf[PoolOf[m]]
      <4>1. PICK b \in BOOLEAN : <<PoolOf[m], b>> \in rows[rk[1]].pools
        BY PoolRowsHold
      <4>. QED  BY <2>2, <4>1 DEF RowKeysOK
    <3>2. rows[s].protocol # ProtocolOf[PoolOf[m]]
      BY <1>2, <2>2, <3>1 DEF RowsOK, ProtocolsDistinct
    <3>3. /\ rows[s] \in RowContents /\ RowKeysOK(rows[s])
          /\ Known(rows[s], KnownPools, KnownMembers)
      BY <1>1, ActiveKnows
    <3>4. PoolOf[m] \in Pool
      BY ConstantsAssumption
    <3>5. rows[s].status[m] = "none"
      BY <3>2, <3>3, <3>4, StrangeRow
    <3>. QED  BY <3>3, <3>5 DEF Known, StatusKnown
  <2>. QED  BY <1>1, <1>2, <1>3, <1>4, <2>1, <2>2, <2>4, <2>5, PutKnown DEF Knows
<1>5. CASE MemberRowMissing(m, oMember[m])
  <2>1. UNCHANGED <<live, rows>> /\ oMember' = [oMember EXCEPT ![m] = oMember[m]]
    BY <1>5 DEF MemberRowMissing
  <2>2. oMember' = oMember
    BY <1>2, <2>1 DEF OctaviaOK
  <2>. QED  BY <1>1, <1>3, <2>1, <2>2, NothingPut DEF KnownMembers
<1>6. CASE \E rk \in PoolRows(PoolOf[m]), record \in {failed, AbsentChild} :
           \E base \in {rows[rk[1]], MemberLeft(rows[rk[1]], rk[2], m)} :
              /\ Put(rk[1], Forget(base, m))
              /\ oMember' = [oMember EXCEPT ![m] = record]
  <2>. HIDE DEF failed
  <2>. QED  BY <1>4, <1>6
<1>. QED
  <2>1. ASSUME NEW rk \in PoolRows(PoolOf[m]),
               LET row == rows[rk[1]]
                   left == MemberLeft(row, rk[2], m)
               IN  \/ Put(rk[1], Forget(left, m)) /\ Report(left, m, AbsentChild)
                   \/ Put(rk[1], Forget(row, m)) /\ Report(row, m, failed)
                   \/ Put(rk[1], Forget(left, m)) /\ Report(row, m, failed)
        PROVE  Knows'
    <3>. HIDE DEF failed
    <3>. QED  BY <1>4, <2>1 DEF Report
  <2>. QED  BY <1>5, <2>1 DEF MemberDelete

LEMMA MemberUpdateKnows ==
    ASSUME KInv, NEW m \in Member, NEW up \in Opt(BOOLEAN), MemberUpdate(m, up)
    PROVE  Knows'
<1>. DEFINE status(row) == SetStatus(row, m, IF Given(up, TRUE) THEN "NO_MONITOR"
                                                                ELSE "OFFLINE")
            asked(prov) == [prov |-> prov, up |-> Given(up, oMember[m].up)]
<1>1. oLb.prov = "ACTIVE" /\ UNCHANGED <<oLb, oListener, oPool>>
  BY DEF MemberUpdate, Mutable
<1>2. OctaviaOK
  BY <1>1, ActiveKnows
<1>3. ASSUME NEW prov \in {"ACTIVE", "ERROR"},
             oMember' = [oMember EXCEPT ![m] = asked(prov)]
      PROVE  /\ KnownPools \subseteq KnownPools'
             /\ KnownMembers \subseteq KnownMembers' /\ m \in KnownMembers'
  <2>1. asked(prov).prov \in {"ACTIVE", "ERROR"}
    OBVIOUS
  <2>. HIDE DEF asked
  <2>2. oPool' = oPool
    BY <1>1
  <2>3. KnownPools' = KnownPools
    BY <2>2 DEF KnownPools
  <2>4. KnownMembers \subseteq KnownMembers' /\ m \in KnownMembers'
    <3>1. \A x \in Member : oMember'[x] = IF x = m THEN asked(prov) ELSE oMember[x]
      BY <1>2, <1>3 DEF OctaviaOK
    <3>. QED  BY <2>1, <3>1 DEF KnownMembers
  <2>. QED  BY <2>3, <2>4
<1>4. ASSUME NEW rk \in PoolRows(PoolOf[m]), NEW prov \in {"ACTIVE", "ERROR"},
             NEW new \in {rows[rk[1]], status(rows[rk[1]]),
                          Refresh(status(rows[rk[1]]))},
             Put(rk[1], new), oMember' = [oMember EXCEPT ![m] = asked(prov)]
      PROVE  Knows'
  <2>1. /\ rk[1] \in Row /\ rows[rk[1]] \in RowContents
        /\ Known(rows[rk[1]], KnownPools, KnownMembers)
    BY <1>1, PoolRowsLive, ActiveKnows
  <2>2. Known(rows[rk[1]], KnownPools', KnownMembers')
    BY <1>3, <1>4, <2>1, KnownGrows
  <2>3. status(rows[rk[1]]) \in RowContents
    <3>1. (IF Given(up, TRUE) THEN "NO_MONITOR" ELSE "OFFLINE") \in MemberStatus
      BY DEF MemberStatus
    <3>. QED  BY <2>1, <3>1, SetStatusKeeps
  <2>4. Known(status(rows[rk[1]]), KnownPools', KnownMembers')
    <3>1. \E b \in BOOLEAN : <<PoolOf[m], b>> \in rows[rk[1]].pools
      BY PoolRowsHold
    <3>. QED  BY <1>3, <1>4, <2>1, <2>2, <3>1, SetStatusKnown
  <2>. HIDE DEF status
  <2>5. Known(Refresh(status(rows[rk[1]])), KnownPools', KnownMembers')
    BY <2>3, <2>4, RefreshRecords, KnownSame
  <2>. QED  BY <1>1, <1>3, <1>4, <2>1, <2>2, <2>4, <2>5, OnePut
<1>5. CASE MemberRowMissing(m, asked("ACTIVE"))
  <2>1. UNCHANGED <<live, rows>> /\ oMember' = [oMember EXCEPT ![m] = asked("ACTIVE")]
    BY <1>5 DEF MemberRowMissing
  <2>. HIDE DEF asked
  <2>. QED  BY <1>1, <1>3, <2>1, NothingPut
<1>. QED
  <2>1. ASSUME NEW rk \in PoolRows(PoolOf[m]),
               LET row == rows[rk[1]]
                   Ends(new, prov) == Put(rk[1], new) /\ Report(row, m, asked(prov))
               IN  \/ Ends(row, "ACTIVE")
                   \/ Ends(Refresh(status(row)), "ACTIVE")
                   \/ Ends(status(row), "ACTIVE")
                   \/ Ends(status(row), "ERROR")
        PROVE  Knows'
    <3>. HIDE DEF status, asked
    <3>. QED  BY <1>4, <2>1 DEF Report
  <2>. QED  BY <1>5, <2>1 DEF MemberUpdate

LEMMA NextKnows == KInv /\ [Next]_vars => KInv'
<1>. SUFFICES ASSUME KInv, [Next]_vars PROVE Knows'
  BY NextOK DEF KInv
<1>. CreateStates \subseteq BOOLEAN
  BY ConstantsAssumption
<1>1. ASSUME NEW up \in CreateStates, LbCreate(up) PROVE Knows'
  BY <1>1, LbCreateKnows
<1>2. ASSUME NEW up \in BOOLEAN, LbUpdate(up) PROVE Knows'
  BY <1>2, LbUpdateKnows
<1>3. ASSUME NEW cascade \in BOOLEAN, LbDelete(cascade) PROVE Knows'
  BY <1>3, LbDeleteKnows
<1>4. ASSUME NEW l \in Listener,
             \/ \E up \in CreateStates, dp \in Pool \cup {None} :
                   ListenerCreate(l, up, dp)
             \/ \E up \in Opt(BOOLEAN), dp \in Opt(Pool \cup {None}) :
                   ListenerUpdate(l, up, dp)
             \/ ListenerDelete(l)
      PROVE  Knows'
  BY <1>4, ListenerCreateKnows, ListenerUpdateKnows, ListenerDeleteKnows
<1>5. ASSUME NEW p \in Pool,
             \/ \E up \in CreateStates, l \in Listener \cup {None} :
                   PoolCreate(p, up, l)
             \/ \E up \in Opt(BOOLEAN) : PoolUpdate(p, up)
             \/ PoolDelete(p)
      PROVE  Knows'
  BY <1>5, PoolCreateKnows, PoolUpdateKnows, PoolDeleteKnows
<1>6. ASSUME NEW m \in Member,
             \/ \E up \in CreateStates : MemberCreate(m, up)
             \/ \E up \in Opt(BOOLEAN) : MemberUpdate(m, up)
             \/ MemberDelete(m)
      PROVE  Knows'
  BY <1>6, MemberCreateKnows, MemberUpdateKnows, MemberDeleteKnows
<1>7. ASSUME UNCHANGED vars PROVE Knows'
  BY <1>7 DEF vars, KInv, Knows, KnownPools, KnownMembers
<1>. QED  BY <1>1, <1>2, <1>3, <1>4, <1>5, <1>6, <1>7 DEF Next

THEOREM KnownInvariance == Spec => []KInv
<1>1. Init => KInv
  BY InitOK DEF Init, KInv, Knows
<1>. QED  BY <1>1, NextKnows, PTL DEF Spec

-----------------------------------------------------------------------------
(* The theorems                                                            *)

\* Once Octavia has deleted a pool, no row holds its key and no listener names
\* it, whichever transaction of pool_delete, or of any handler before it, failed.
THEOREM NoDeletedPool == Spec => []DeletedPoolForgotten
<1>1. KInv => DeletedPoolForgotten
  <2>. SUFFICES ASSUME KInv, oLb.prov = "ACTIVE", NEW r \in live, NEW p \in Pool,
                       NEW b \in BOOLEAN, ~Exists(oPool[p])
                PROVE  /\ <<p, b>> \notin rows[r].pools
                       /\ \A k \in rows[r].listeners : <<p, b>> \notin rows[r].refs[k]
    BY DEF DeletedPoolForgotten
  <2>1. Known(rows[r], KnownPools, KnownMembers) /\ p \notin KnownPools /\ p # None
    BY ActiveKnows, ConstantsAssumption DEF KnownPools
  <2>. QED  BY <2>1 DEF Known, PoolsKnown, RefsKnown
<1>. QED  BY <1>1, KnownInvariance, PTL

\* An entry of neutron:member_status is of a member Octavia knows, in the row that
\* holds its pool: what _get_current_operating_statuses reports was asked for, even
\* after transactions of member_create, member_delete or pool_delete failed.
THEOREM StatusesBelong == Spec => []MemberStatusBelongs
<1>1. KInv => MemberStatusBelongs
  <2>1. \A m \in KnownMembers : Exists(oMember[m])
    BY DEF KnownMembers, Exists
  <2>. QED  BY <2>1, ActiveKnows DEF MemberStatusBelongs, Known, StatusKnown
<1>. QED  BY <1>1, KnownInvariance, PTL
=============================================================================
