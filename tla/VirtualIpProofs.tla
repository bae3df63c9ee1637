-------------------------- MODULE VirtualIpProofs --------------------------
(***************************************************************************)
(* What is proved of VirtualIp.  The types hold in every world.  That ports *)
(* follow the load balancer needs that no copy of a row fails after it was  *)
(* made.  That floating IPs are served, and that health checks follow them, *)
(* is about the world without races: the rows are some steps behind Neutron, *)
(* and what waits at the agent tells those steps one by one (Told).         *)
(***************************************************************************)
EXTENDS VirtualIp, SequenceTheorems, FunctionTheorems, FiniteSetTheorems, TLAPS

-----------------------------------------------------------------------------
(* The invariants                                                          *)

\* Which rows and ports there are follows from the state of the load balancer.
PInv ==
    /\ IsFiniteSet(rows)
    /\ lb = "absent"   => ports = {} /\ rows = {}
    /\ lb = "building" => ports = Port /\ rows = {}
    /\ lb = "active"   => ports = Port /\ rows # {}
    /\ lb = "deleted"  => ports = {} /\ rows = {}

\* The floating IPs of the ports at a moment: no two ports have the same.
Fips == [Port -> Fip \cup {NoFip}]
Apart(s) == \A p, q \in Port : s[p] = s[q] /\ s[p] # NoFip => p = q

\* The change that leads from s to t.
Leads(s, c, t) ==
    /\ t = [s EXCEPT ![c.port] = IF c.does = "associate" THEN c.fip ELSE NoFip]
    /\ s[c.port] = IF c.does = "associate" THEN NoFip ELSE c.fip
    /\ Apart(s) /\ Apart(t)

\* A row with these entries has the floating IPs of that moment.
Knows(s, main, more) == main = s["vip"] /\ more = {s["additional"]} \ {NoFip}

\* Only the holder of the lock has anything to do.
Alone == \A a \in Agent \ {holder} :
            inbox[a] = <<>> /\ queue[a] = <<>> /\ job[a] = Idle

\* The checks of an address, and what they are when repeated for a floating IP.
At(x, p) == {d \in x : d[2] = p}
CopiesOf(x, p, f) == {<<c[1], f>> : c \in At(x, p)}

\* What an agent has read of a row is what the row still says; the checks of
\* the VIP are repeated already.
JobFresh(a) ==
    LET j == job[a]
        r == j.req.row
    IN  j # Idle =>
          /\ r \in rows /\ j.listed = (r \in listed)
          /\ j.vipFip = vipFip[r] /\ j.addFips = addFips[r]
          /\ checks[r] = j.checks \cup
                (IF j.req.what.does = "associate"
                 THEN CopiesOf(j.checks, j.req.what.port, j.req.what.fip) ELSE {})

\* What waits in the inbox leads from s to f.
Past(in, s, f) ==
    \E past \in [0..Len(in) -> Fips] :
        /\ past[0] = s /\ past[Len(in)] = f
        /\ \A i \in 1..Len(in) : Leads(past[i - 1], in[i], past[i])

\* The request an agent is at leads row r from its entries to s.
Reached(j, r, main, more, s) ==
    IF j # Idle /\ j.req.row = r
    THEN \E t \in Fips : Knows(t, main, more) /\ Leads(t, j.req.what, s)
    ELSE Knows(s, main, more)

\* A request leads its row from s to t, and says nothing of the others.
Tells(req, r, s, t) == IF req.row = r THEN Leads(s, req.what, t) ELSE t = s

\* What waits in the queue for the row then leads to s.
Seen(q, j, r, main, more, s) ==
    \E seen \in [0..Len(q) -> Fips] :
        /\ Reached(j, r, main, more, seen[0]) /\ seen[Len(q)] = s
        /\ \A i \in 1..Len(q) : Tells(q[i], r, seen[i - 1], seen[i])

NoFips == [p \in Port |-> NoFip]

\* As long as no row and no port is given up, what waits is what a row lacks.
Told ==
    \E s \in Fips :
        /\ Past(inbox[holder], s, fip)
        /\ rows = {} => s = NoFips /\ queue[holder] = <<>> /\ job[holder] = Idle
        /\ \A r \in rows : Seen(queue[holder], job[holder], r, vipFip[r], addFips[r], s)

Blank == \A r \in Row \ rows :
            vipFip[r] = NoFip /\ addFips[r] = {} /\ vips[r] = {} /\ checks[r] = {}

Framed == \A r \in rows : vips[r] = Frame(r \in listed, vipFip[r], addFips[r])

Alive == lb \in {"absent", "building", "active"}

FInv == /\ TypeOK /\ PInv /\ Alone /\ Apart(fip)
        /\ lb = "absent" => inbox[holder] = <<>> /\ fip = NoFips
        /\ Alive => Told /\ Blank /\ Framed /\ \A a \in Agent : JobFresh(a)

\* The checks of a row, before those of a floating IP that comes are repeated.
Repeated(a, r) == IF job[a] # Idle /\ job[a].req.row = r THEN job[a].checks ELSE checks[r]

\* The checks of a monitor for some addresses.
Check(h, z) == <<h, z>>
Each(h, s) == {h} \X s

\* No check, or those of one monitor of the row for the addresses the row knows.
Following(x, r, main, more) ==
    x # {} => \E h \in Monitor : RowOf[h] = r /\ x = Each(h, Frame(TRUE, main, more))

ChecksFramed == \A r \in Row : Following(Repeated(holder, r), r, vipFip[r], addFips[r])

GInv == FInv /\ (Alive => ChecksFramed)

-----------------------------------------------------------------------------
(* Types                                                                   *)

TInv == TypeOK /\ IsFiniteSet(rows)

\* The requests for a notification: one for each row.
LEMMA OrderOnce ==
    ASSUME NEW S, IsFiniteSet(S), NEW o \in SetToSeqs(S)
    PROVE  /\ o \in Seq(S) /\ Len(o) \in Nat /\ DOMAIN o = 1..Len(o)
           /\ \A i \in DOMAIN o : o[i] \in S
           /\ \A i, j \in DOMAIN o : o[i] = o[j] => i = j
           /\ \A b \in S : \E i \in DOMAIN o : o[i] = b
<1>. DEFINE n == Cardinality(S)
<1>1. /\ o \in [1..n -> S] /\ n \in Nat
      /\ \A i, j \in 1..n : o[i] = o[j] => i = j
  BY FS_CardinalityType DEF SetToSeqs
<1>2. o \in Seq(S)
  <2>. HIDE DEF n
  <2>. QED  BY <1>1
<1>3. DOMAIN o = 1..Len(o) /\ Len(o) \in Nat
  BY <1>2, LenProperties
<1>4. ASSUME NEW b \in S, \A i \in 1..n : o[i] # b PROVE FALSE
  <2>1. o \in Injection(1..n, S \ {b})
    BY <1>1, <1>4 DEF Injection, IsInjective
  <2>2. IsFiniteSet(S \ {b}) /\ Cardinality(S \ {b}) = n - 1
    BY FS_RemoveElement
  <2>3. Cardinality(1..n) <= Cardinality(S \ {b})
    BY <2>1, <2>2, FS_Injection
  <2>4. Cardinality(1..n) = n
    <3>. HIDE DEF n
    <3>1. 1 \in Int /\ n \in Int /\ (1 > n <=> n = 0)
      BY <1>1
    <3>2. Cardinality(1..n) = IF 1 > n THEN 0 ELSE n - 1 + 1
      BY <3>1, FS_Interval
    <3>. QED  BY <1>1, <3>1, <3>2
  <2>. HIDE DEF n
  <2>. QED  BY <1>1, <2>2, <2>3, <2>4
<1>. HIDE DEF n
<1>. QED  BY <1>1, <1>2, <1>3, <1>4

LEMMA RequestsOnce ==
    ASSUME IsFiniteSet(rows), rows \subseteq Row, NEW c \in Change, NEW q \in Requests(c)
    PROVE  /\ q \in Seq(Request) /\ Len(q) \in Nat
           /\ \A i \in 1..Len(q) : q[i].row \in rows /\ q[i].what = c
           /\ \A i, j \in 1..Len(q) : q[i].row = q[j].row => i = j
           /\ \A r \in rows : \E i \in 1..Len(q) : q[i].row = r
<1>1. PICK o \in SetToSeqs(rows) : q = [i \in DOMAIN o |-> [row |-> o[i], what |-> c]]
  BY DEF Requests
<1>2. /\ o \in Seq(rows) /\ Len(o) \in Nat /\ DOMAIN o = 1..Len(o)
      /\ \A i \in DOMAIN o : o[i] \in rows
      /\ \A i, j \in DOMAIN o : o[i] = o[j] => i = j
      /\ \A b \in rows : \E i \in DOMAIN o : o[i] = b
  BY OrderOnce
<1>3. /\ DOMAIN q = 1..Len(o)
      /\ \A i \in 1..Len(o) : q[i] \in Request /\ q[i].row = o[i] /\ q[i].what = c
  BY <1>1, <1>2 DEF Request
<1>4. q \in Seq(Request)
  <2>1. q \in [1..Len(o) -> Request]
    BY <1>1, <1>2, <1>3
  <2>. QED  BY <1>2, <2>1
<1>5. Len(q) = Len(o)
  BY <1>2, <1>3, <1>4, LenProperties
<1>. QED  BY <1>2, <1>3, <1>4, <1>5

LEMMA ChangeTypes ==
    ASSUME NEW c \in Change
    PROVE  /\ c.port \in Port /\ c.fip \in Fip /\ c.does \in {"associate", "disassociate"}
           /\ c.port \in Address /\ c.fip \in Address
BY DEF Change, Address

LEMMA FrameType ==
    ASSUME NEW l, NEW m \in Fip \cup {NoFip}, NEW s \in SUBSET Fip
    PROVE  Frame(l, m, s) \subseteq Address
BY DEF Frame, Address

LEMMA JobTypes ==
    ASSUME NEW j \in Job, j # Idle
    PROVE  /\ j.does = "commit" /\ j.req \in Request
           /\ j.req.row \in Row /\ j.req.what \in Change
           /\ j.listed \in BOOLEAN /\ j.vipFip \in Fip \cup {NoFip}
           /\ j.addFips \in SUBSET Fip /\ j.checks \in SUBSET (Monitor \X Address)
           /\ FipsAfter(j).main \in Fip \cup {NoFip} /\ FipsAfter(j).more \in SUBSET Fip
<1>1. /\ j.does = "commit" /\ j.req \in Request
      /\ j.listed \in BOOLEAN /\ j.vipFip \in Fip \cup {NoFip}
      /\ j.addFips \in SUBSET Fip /\ j.checks \in SUBSET (Monitor \X Address)
  BY DEF Job
<1>2. j.req.row \in Row /\ j.req.what \in Change
  BY <1>1 DEF Request
<1>3. j.req.what.fip \in Fip
  BY <1>2, ChangeTypes
<1>4. FipsAfter(j).main \in Fip \cup {NoFip} /\ FipsAfter(j).more \in SUBSET Fip
  BY <1>1, <1>3 DEF FipsAfter
<1>. QED  BY <1>1, <1>2, <1>4

LEMMA TInit == Init /\ VirtualIpAssumption => TInv
<1>. SUFFICES ASSUME Init, VirtualIpAssumption PROVE TInv
  OBVIOUS
<1>1. holder \in Agent
  BY DEF Init, VirtualIpAssumption
<1>2. <<>> \in Seq(Change) /\ <<>> \in Seq(Request)
  BY EmptySeq
<1>3. IsFiniteSet(rows)
  BY FS_EmptySet DEF Init
<1>. QED  BY <1>1, <1>2, <1>3 DEF Init, TInv, TypeOK, Job

LEMMA TStep == TInv /\ [Next]_vars => TInv'
<1>. SUFFICES ASSUME TInv, [Next]_vars PROVE TInv'
  OBVIOUS
<1>. USE DEF TInv, Port
<1>1. CASE CreatePorts
  BY <1>1 DEF CreatePorts, MadeBefore, TypeOK, nb, agents
<1>2. CASE LbDelete
  <2>1. PICK gone \in SUBSET rows, freed \in SUBSET Port :
          /\ rows' = rows \ gone
          /\ listed' = listed \ gone
          /\ vipFip' = Emptied(vipFip, gone, NoFip)
          /\ addFips' = Emptied(addFips, gone, {})
          /\ vips' = Emptied(vips, gone, {})
          /\ checks' = Emptied(checks, gone, {})
          /\ DropPorts(freed)
          /\ lb' = IF freed = Port THEN "deleted" ELSE "error"
    BY <1>2 DEF LbDelete
  <2>2. IsFiniteSet(rows')
    BY <2>1, FS_Subset
  <2>3. UNCHANGED agents
    BY <1>2 DEF LbDelete
  <2>. QED  BY <2>1, <2>2, <2>3 DEF TypeOK, Emptied, DropPorts, agents
<1>3. CASE LockMoves
  BY <1>3 DEF LockMoves, TypeOK, nb
<1>4. ASSUME NEW r \in Row, LbCreate(r) PROVE TInv'
  <2>1. IsFiniteSet(rows')
    BY <1>4, FS_AddElement DEF LbCreate
  <2>. QED  BY <1>4, <2>1 DEF LbCreate, DropPorts, TypeOK, agents
<1>5. ASSUME NEW r \in Row, NewRow(r) PROVE TInv'
  <2>1. IsFiniteSet(rows')
    BY <1>5, FS_AddElement DEF NewRow, CopyFips
  <2>. QED  BY <1>5, <2>1 DEF NewRow, CopyFips, DropPorts, TypeOK, agents
<1>6. ASSUME NEW r \in Row, MemberChange(r) PROVE TInv'
  <2>1. /\ r \in rows /\ listed' = (listed \ {r}) \cup ({r} \ listed)
        /\ vips' = [vips EXCEPT ![r] = Frame(r \in listed', vipFip[r], addFips[r])]
        /\ UNCHANGED <<lb, ports, fip, rows, vipFip, addFips, checks, agents>>
    BY <1>6 DEF MemberChange
  <2>2. Frame(r \in listed', vipFip[r], addFips[r]) \subseteq Address
    BY FrameType DEF TypeOK
  <2>. QED  BY <2>1, <2>2 DEF TypeOK, agents
<1>7. ASSUME NEW h \in Monitor, HmCreate(h) PROVE TInv'
  <2>1. \A r \in Row : {h} \X Frame(TRUE, vipFip[r], addFips[r]) \subseteq Monitor \X Address
    BY FrameType DEF TypeOK
  <2>. QED  BY <1>7, <2>1 DEF HmCreate, TypeOK, agents
<1>8. ASSUME NEW h \in Monitor, HmDelete(h) PROVE TInv'
  BY <1>8 DEF HmDelete, TypeOK, agents
<1>9. ASSUME NEW p \in Port, NEW f \in Fip, FipAssociate(p, f) PROVE TInv'
  <2>1. [port |-> p, fip |-> f, does |-> "associate"] \in Change
    BY DEF Change
  <2>2. inbox' \in [Agent -> Seq(Change)]
    BY <1>9, <2>1, AppendProperties DEF FipAssociate, Announce, TypeOK
  <2>. QED  BY <1>9, <2>2 DEF FipAssociate, TypeOK, nb
<1>10. ASSUME NEW p \in Port, FipDisassociate(p) PROVE TInv'
  <2>1. [port |-> p, fip |-> fip[p], does |-> "disassociate"] \in Change
    BY <1>10 DEF Change, FipDisassociate, TypeOK
  <2>2. inbox' \in [Agent -> Seq(Change)]
    BY <1>10, <2>1, AppendProperties DEF FipDisassociate, Announce, TypeOK
  <2>. QED  BY <1>10, <2>2 DEF FipDisassociate, TypeOK, nb
<1>11. ASSUME NEW a \in Agent, Notified(a) PROVE TInv'
  <2>1. /\ inbox[a] \in Seq(Change) /\ inbox[a] # <<>> /\ queue[a] \in Seq(Request)
        /\ inbox' = [inbox EXCEPT ![a] = Tail(@)]
        /\ UNCHANGED <<lb, ports, fip, nb, holder, job>>
    BY <1>11 DEF Notified, TypeOK
  <2>2. Head(inbox[a]) \in Change /\ Tail(inbox[a]) \in Seq(Change)
    BY <2>1, HeadTailProperties
  <2>3. \A q \in Requests(Head(inbox[a])) : queue[a] \o q \in Seq(Request)
    BY <2>1, <2>2, RequestsOnce, ConcatProperties DEF TypeOK
  <2>4. queue' \in [Agent -> Seq(Request)]
    <3>1. CASE UNCHANGED queue
      BY <3>1 DEF TypeOK
    <3>2. CASE \E q \in Requests(Head(inbox[a])) : queue' = [queue EXCEPT ![a] = @ \o q]
      BY <2>3, <3>2 DEF TypeOK
    <3>. QED  BY <1>11, <3>1, <3>2 DEF Notified
  <2>. QED  BY <2>1, <2>2, <2>4 DEF TypeOK, nb
<1>12. ASSUME NEW a \in Agent, Take(a) PROVE TInv'
  <2>. DEFINE req == Head(queue[a])
              r == req.row
              j == [does |-> "commit", req |-> req, listed |-> r \in listed,
                     vipFip |-> vipFip[r], addFips |-> addFips[r],
                     checks |-> checks[r]]
  <2>1. req \in Request /\ Tail(queue[a]) \in Seq(Request)
    BY <1>12, HeadTailProperties DEF Take, TypeOK
  <2>2. r \in Row /\ req.what \in Change
    BY <2>1 DEF Request
  <2>3. /\ queue' = [queue EXCEPT ![a] = Tail(@)]
        /\ \/ UNCHANGED <<checks, job>>
           \/ /\ checks' = [checks EXCEPT ![r] = @ \cup Copied(r, req.what)]
              /\ job' = [job EXCEPT ![a] = j]
        /\ UNCHANGED <<lb, ports, fip, rows, listed, vipFip, addFips, vips, holder, inbox>>
    BY <1>12 DEF Take
  <2>4. j \in Job
    <3>1. (r \in listed) \in BOOLEAN
      OBVIOUS
    <3>. HIDE DEF req, r
    <3>. QED  BY <2>1, <2>2, <3>1 DEF Job, TypeOK
  <2>5. Copied(r, req.what) \subseteq Monitor \X Address
    <3>1. req.what.fip \in Address
      BY <2>2, ChangeTypes
    <3>2. checks[r] \subseteq Monitor \X Address
      BY <2>2 DEF TypeOK
    <3>3. \A c \in checks[r] : c[1] \in Monitor
      BY <3>2
    <3>. HIDE DEF req, r
    <3>. QED  BY <3>1, <3>3 DEF Copied
  <2>6. queue' \in [Agent -> Seq(Request)]
    BY <2>1, <2>3 DEF TypeOK
  <2>. HIDE DEF req, r, j
  <2>7. job' \in [Agent -> Job]
    BY <2>3, <2>4 DEF TypeOK
  <2>8. checks' \in [Row -> SUBSET (Monitor \X Address)]
    <3>1. \A w \in Row : checks[w] \subseteq Monitor \X Address
      BY DEF TypeOK
    <3>2. PICK new : new = Copied(r, req.what)
      OBVIOUS
    <3>3. checks[r] \cup new \subseteq Monitor \X Address
      BY <2>2, <2>5, <3>1, <3>2
    <3>4. CASE checks' = [checks EXCEPT ![r] = @ \cup new]
      BY <3>3, <3>4 DEF TypeOK
    <3>5. CASE UNCHANGED checks
      BY <3>5 DEF TypeOK
    <3>. QED  BY <2>3, <3>2, <3>4, <3>5
  <2>. QED  BY <2>3, <2>6, <2>7, <2>8 DEF TypeOK
<1>13. ASSUME NEW a \in Agent, Commit(a) PROVE TInv'
  <2>. PICK j : j = job[a]
    OBVIOUS
  <2>. PICK r, main, more : r = j.req.row /\ main = FipsAfter(j).main /\ more = FipsAfter(j).more
    OBVIOUS
  <2>1. /\ j # Idle /\ job' = [job EXCEPT ![a] = Idle]
        /\ \/ UNCHANGED <<vipFip, addFips, vips, checks>>
           \/ /\ vipFip' = [vipFip EXCEPT ![r] = IF main = j.vipFip THEN @ ELSE main]
              /\ addFips' = [addFips EXCEPT ![r] = IF more = j.addFips THEN @ ELSE more]
              /\ vips' = [vips EXCEPT ![r] = Frame(j.listed, main, more)]
              /\ \E gone \in Removed(j) : checks' = [checks EXCEPT ![r] = @ \ gone]
        /\ UNCHANGED <<lb, ports, fip, rows, listed, holder, inbox, queue>>
    BY <1>13 DEF Commit
  <2>2. r \in Row /\ main \in Fip \cup {NoFip} /\ more \in SUBSET Fip
    BY <2>1, JobTypes DEF TypeOK
  <2>3. Frame(j.listed, main, more) \subseteq Address
    BY <2>2, FrameType
  <2>4. job' \in [Agent -> Job]
    BY <2>1 DEF Job, TypeOK
  <2>5. vipFip' \in [Row -> Fip \cup {NoFip}] /\ addFips' \in [Row -> SUBSET Fip]
    BY <2>1, <2>2 DEF TypeOK
  <2>6. vips' \in [Row -> SUBSET Address]
    <3>1. PICK new : new = Frame(j.listed, main, more)
      OBVIOUS
    <3>2. vips' = vips \/ vips' = [vips EXCEPT ![r] = new]
      BY <2>1, <3>1
    <3>. QED  BY <2>2, <2>3, <3>1, <3>2 DEF TypeOK
  <2>7. checks' \in [Row -> SUBSET (Monitor \X Address)]
    <3>1. PICK left : /\ left \subseteq checks[r]
                      /\ checks' = [checks EXCEPT ![r] = left] \/ checks' = checks
      <4>1. CASE checks' = checks
        BY <4>1
      <4>2. CASE \E gone \in Removed(j) : checks' = [checks EXCEPT ![r] = @ \ gone]
        <5>1. PICK gone : checks' = [checks EXCEPT ![r] = @ \ gone]
          BY <4>2
        <5>. QED  BY <5>1
      <4>. QED  BY <2>1, <4>1, <4>2
    <3>2. checks \in [Row -> SUBSET (Monitor \X Address)]
      BY DEF TypeOK
    <3>3. left \in SUBSET (Monitor \X Address)
      BY <2>2, <3>1, <3>2
    <3>. QED  BY <3>1, <3>2, <3>3
  <2>. QED  BY <2>1, <2>4, <2>5, <2>6, <2>7 DEF TypeOK
<1>14. CASE UNCHANGED vars
  BY <1>14 DEF vars, nb, agents, TypeOK
<1>. QED  BY <1>1, <1>2, <1>3, <1>4, <1>5, <1>6, <1>7, <1>8, <1>9, <1>10, <1>11, <1>12,
             <1>13, <1>14 DEF Next, AgentStep

\* Every variable keeps its type, in every world: checks are of a monitor and an
\* address, and what is queued are requests for rows (vip_port_update_handler,
\* handle_vip_fip).
THEOREM AddressTypes == Spec => []TypeOK
<1>1. Init => TInv
  BY TInit, VirtualIpAssumption
<1>2. TInv => TypeOK
  BY DEF TInv
<1>. QED  BY <1>1, <1>2, TStep, PTL DEF Spec

-----------------------------------------------------------------------------
(* Ports and rows                                                          *)

LEMMA PInit == Init => PInv
<1>. SUFFICES ASSUME Init PROVE PInv
  OBVIOUS
<1>. QED  BY FS_EmptySet DEF Init, PInv

LEMMA PStep ==
    ASSUME "copied" \notin Failures, TInv, PInv, [Next]_vars
    PROVE  PInv'
<1>0. IsFiniteSet(rows')
  BY TStep DEF TInv
<1>1. CASE CreatePorts
  BY <1>0, <1>1 DEF CreatePorts, MadeBefore, PInv, nb
<1>2. CASE LbDelete
  <2>1. PICK gone \in SUBSET rows, freed \in SUBSET Port :
          /\ freed # {} => gone = rows
          /\ rows' = rows \ gone
          /\ ports' = ports \ freed
          /\ lb' = IF freed = Port THEN "deleted" ELSE "error"
    BY <1>2 DEF LbDelete, DropPorts
  <2>2. freed = Port => rows' = {} /\ ports' = {}
    BY <2>1 DEF Port, TInv, TypeOK
  <2>. QED  BY <1>0, <2>1, <2>2 DEF PInv
<1>3. ASSUME NEW r \in Row, LbCreate(r) PROVE PInv'
  BY <1>0, <1>3 DEF LbCreate, PInv
<1>4. ASSUME NEW r \in Row, NewRow(r) PROVE PInv'
  BY <1>0, <1>4 DEF NewRow, CopyFips, PInv
<1>5. CASE UNCHANGED <<lb, ports, rows>>
  BY <1>5 DEF PInv
<1>6. LockMoves => UNCHANGED <<lb, ports, rows>>
  BY DEF LockMoves, nb
<1>7. \A r \in Row : MemberChange(r) => UNCHANGED <<lb, ports, rows>>
  BY DEF MemberChange
<1>8. \A h \in Monitor : HmCreate(h) \/ HmDelete(h) => UNCHANGED <<lb, ports, rows>>
  BY DEF HmCreate, HmDelete
<1>9. \A p \in Port : /\ FipDisassociate(p) => UNCHANGED <<lb, ports, rows>>
                      /\ \A f \in Fip : FipAssociate(p, f) => UNCHANGED <<lb, ports, rows>>
  BY DEF FipAssociate, FipDisassociate, nb
<1>10. \A a \in Agent : AgentStep(a) => UNCHANGED <<lb, ports, rows>>
  BY DEF AgentStep, Notified, Take, Commit, nb
<1>11. UNCHANGED vars => UNCHANGED <<lb, ports, rows>>
  BY DEF vars, nb
<1>. QED  BY <1>1, <1>2, <1>3, <1>4, <1>5, <1>6, <1>7, <1>8, <1>9, <1>10, <1>11 DEF Next

\* An active load balancer has its rows and its ports, and one that is gone has left
\* nothing behind, whatever else fails, in any interleaving: provided that no copy of a
\* row fails after it was made (create_vip_port, lb_create, lb_delete).
THEOREM PortsFollow == "copied" \notin Failures /\ Spec => []PortsFollowLb
<1>. SUFFICES ASSUME "copied" \notin Failures PROVE Spec => []PortsFollowLb
  OBVIOUS
<1>1. Init => TInv /\ PInv
  BY TInit, PInit, VirtualIpAssumption
<1>2. TInv /\ PInv /\ [Next]_vars => (TInv /\ PInv)'
  BY TStep, PStep
<1>3. PInv => PortsFollowLb
  BY DEF PInv, PortsFollowLb
<1>. QED  BY <1>1, <1>2, <1>3, PTL DEF Spec

-----------------------------------------------------------------------------
(* What waits, told step by step                                           *)

LEMMA LeadsTypes ==
    ASSUME NEW s \in Fips, NEW c \in Change, NEW t, Leads(s, c, t)
    PROVE  t \in Fips /\ Apart(s) /\ Apart(t)
BY ChangeTypes DEF Leads, Fips

LEMMA PastEmpty ==
    ASSUME NEW s, NEW f \in Fips
    PROVE  Past(<<>>, s, f) <=> s = f
<1>1. Len(<<>>) = 0
  BY EmptySeq
<1>2. ASSUME Past(<<>>, s, f) PROVE s = f
  BY <1>1, <1>2 DEF Past
<1>3. ASSUME s = f PROVE Past(<<>>, s, f)
  <2>. PICK past : past = [i \in 0..0 |-> f]
    OBVIOUS
  <2>1. past \in [0..Len(<<>>) -> Fips] /\ past[0] = s /\ past[Len(<<>>)] = f
    BY <1>1, <1>3
  <2>2. 1..Len(<<>>) = {}
    BY <1>1
  <2>. QED  BY <2>1, <2>2 DEF Past
<1>. QED  BY <1>2, <1>3

LEMMA PastAppend ==
    ASSUME NEW in \in Seq(Change), NEW c \in Change, NEW s, NEW f, NEW g \in Fips,
           Past(in, s, f), Leads(f, c, g)
    PROVE  Past(Append(in, c), s, g)
<1>. PICK n, out : n = Len(in) /\ out = Append(in, c)
  OBVIOUS
<1>1. PICK past \in [0..n -> Fips] :
        /\ past[0] = s /\ past[n] = f
        /\ \A i \in 1..n : Leads(past[i - 1], in[i], past[i])
  BY DEF Past
<1>2. /\ n \in Nat /\ Len(out) = n + 1 /\ out[n + 1] = c
      /\ \A i \in 1..n : out[i] = in[i]
  BY LenProperties, AppendProperties
<1>. PICK new : new = [i \in 0..(n + 1) |-> IF i <= n THEN past[i] ELSE g]
  OBVIOUS
<1>3. new \in [0..(n + 1) -> Fips] /\ new[n + 1] = g /\ \A i \in 0..n : new[i] = past[i]
  BY <1>1, <1>2
<1>4. ASSUME NEW i \in 1..(n + 1) PROVE Leads(new[i - 1], out[i], new[i])
  <2>1. CASE i \in 1..n
    <3>1. i - 1 \in 0..n /\ i \in 0..n
      BY <1>2, <2>1
    <3>. QED  BY <1>1, <1>2, <1>3, <2>1, <3>1
  <2>2. CASE i = n + 1
    <3>1. i - 1 = n /\ n \in 0..n
      BY <1>2, <2>2
    <3>. QED  BY <1>1, <1>2, <1>3, <2>2, <3>1
  <2>. QED  BY <1>2, <2>1, <2>2
<1>5. new[0] = s /\ Len(out) = n + 1
  BY <1>1, <1>2, <1>3
<1>. QED  BY <1>3, <1>4, <1>5 DEF Past

LEMMA PastTail ==
    ASSUME NEW in \in Seq(Change), in # <<>>, NEW s, NEW f, Past(in, s, f)
    PROVE  /\ s \in Fips
           /\ \E t \in Fips : Leads(s, Head(in), t) /\ Past(Tail(in), t, f)
<1>. PICK n, out : n = Len(in) /\ out = Tail(in)
  OBVIOUS
<1>1. PICK past \in [0..n -> Fips] :
        /\ past[0] = s /\ past[n] = f
        /\ \A i \in 1..n : Leads(past[i - 1], in[i], past[i])
  BY DEF Past
<1>2. n \in Nat \ {0} /\ Head(in) = in[1]
  BY EmptySeq
<1>3. Len(out) = n - 1 /\ \A i \in 1..(n - 1) : out[i] = in[i + 1]
  BY <1>2, HeadTailProperties
<1>. PICK new : new = [i \in 0..(n - 1) |-> past[i + 1]]
  OBVIOUS
<1>4. new \in [0..(n - 1) -> Fips] /\ \A i \in 0..(n - 1) : new[i] = past[i + 1]
  BY <1>1, <1>2
<1>5. new[0] = past[1] /\ new[n - 1] = f
  BY <1>1, <1>2, <1>4
<1>6. ASSUME NEW i \in 1..(n - 1) PROVE Leads(new[i - 1], out[i], new[i])
  <2>1. i - 1 \in 0..(n - 1) /\ i \in 0..(n - 1) /\ i + 1 \in 1..n /\ (i + 1) - 1 = i /\ (i - 1) + 1 = i
    BY <1>2
  <2>2. Leads(past[(i + 1) - 1], in[i + 1], past[i + 1])
    BY <1>1, <2>1
  <2>3. new[i - 1] = past[i] /\ new[i] = past[i + 1] /\ out[i] = in[i + 1]
    BY <1>3, <1>4, <2>1
  <2>. QED  BY <2>1, <2>2, <2>3
<1>7. Past(out, past[1], f)
  BY <1>3, <1>4, <1>5, <1>6 DEF Past
<1>8. past[1] \in Fips /\ s \in Fips /\ Leads(s, in[1], past[1])
  <2>1. 1 \in 1..n /\ 1 \in 0..n /\ 0 \in 0..n /\ 1 - 1 = 0
    BY <1>2
  <2>. QED  BY <1>1, <2>1
<1>. QED  BY <1>2, <1>7, <1>8

LEMMA SeenEmpty ==
    ASSUME NEW r, NEW main, NEW more, NEW s \in Fips
    PROVE  Seen(<<>>, Idle, r, main, more, s) <=> Knows(s, main, more)
<1>1. Len(<<>>) = 0 /\ 1..Len(<<>>) = {}
  BY EmptySeq
<1>2. ASSUME Seen(<<>>, Idle, r, main, more, s) PROVE Knows(s, main, more)
  BY <1>1, <1>2 DEF Seen, Reached
<1>3. ASSUME Knows(s, main, more) PROVE Seen(<<>>, Idle, r, main, more, s)
  <2>. PICK seen : seen = [i \in 0..0 |-> s]
    OBVIOUS
  <2>1. seen \in [0..Len(<<>>) -> Fips] /\ seen[0] = s /\ seen[Len(<<>>)] = s
    BY <1>1
  <2>2. Reached(Idle, r, main, more, seen[0])
    BY <1>3, <2>1 DEF Reached
  <2>. QED  BY <1>1, <2>1, <2>2 DEF Seen
<1>. QED  BY <1>2, <1>3

\* Requests of other rows tell nothing of this one.
LEMMA SeenOther ==
    ASSUME NEW q, NEW r, NEW main, NEW more, NEW s, NEW j, NEW k,
           j = Idle \/ j.req.row # r, k = Idle \/ k.req.row # r,
           Seen(q, j, r, main, more, s)
    PROVE  Seen(q, k, r, main, more, s)
<1>1. \A t : Reached(j, r, main, more, t) <=> Reached(k, r, main, more, t)
  BY DEF Reached
<1>. QED  BY <1>1 DEF Seen

\* A notification becomes one request for each row.
LEMMA SeenAppend ==
    ASSUME NEW q \in Seq(Request), NEW new \in Seq(Request), NEW c \in Change,
           NEW r, NEW main, NEW more, NEW j, NEW s \in Fips, NEW t \in Fips,
           Seen(q, j, r, main, more, s), Leads(s, c, t),
           \A i \in 1..Len(new) : new[i].what = c,
           NEW k \in 1..Len(new), new[k].row = r,
           \A i \in 1..Len(new) : new[i].row = r => i = k
    PROVE  Seen(q \o new, j, r, main, more, t)
<1>. PICK n, m, out : n = Len(q) /\ m = Len(new) /\ out = q \o new
  OBVIOUS
<1>1. PICK seen \in [0..n -> Fips] :
        /\ Reached(j, r, main, more, seen[0]) /\ seen[n] = s
        /\ \A i \in 1..n : Tells(q[i], r, seen[i - 1], seen[i])
  BY DEF Seen
<1>2. /\ n \in Nat /\ m \in Nat /\ Len(out) = n + m
      /\ \A i \in 1..(n + m) : out[i] = IF i <= n THEN q[i] ELSE new[i - n]
  BY LenProperties, ConcatProperties
<1>3. k \in 1..m /\ \A i \in 1..m : new[i].row = r => i = k
  OBVIOUS
<1>. PICK all : all = [i \in 0..(n + m) |-> IF i <= n THEN seen[i] ELSE IF i < n + k THEN s ELSE t]
  OBVIOUS
<1>4. /\ all \in [0..(n + m) -> Fips]
      /\ \A i \in 0..n : all[i] = seen[i]
      /\ \A i \in n..(n + m) : all[i] = IF i < n + k THEN s ELSE t
  BY <1>1, <1>2, <1>3
<1>5. all[0] = seen[0] /\ all[n + m] = t
  BY <1>2, <1>3, <1>4
<1>6. ASSUME NEW i \in 1..(n + m)
      PROVE  Tells(out[i], r, all[i - 1], all[i])
  <2>1. CASE i <= n
    <3>1. i \in 1..n /\ i - 1 \in 0..n /\ i \in 0..n /\ out[i] = q[i]
      BY <1>2, <2>1
    <3>2. all[i - 1] = seen[i - 1] /\ all[i] = seen[i]
      BY <1>4, <3>1
    <3>. QED  BY <1>1, <3>1, <3>2
  <2>2. CASE i > n
    <3>. PICK l : l = i - n
      OBVIOUS
    <3>1. l \in 1..m /\ out[i] = new[l] /\ i = n + l
      BY <1>2, <2>2
    <3>2. i \in n..(n + m) /\ i - 1 \in n..(n + m)
      BY <1>2, <2>2
    <3>. PICK h : h = i - 1
      OBVIOUS
    <3>3. all[i] = (IF l < k THEN s ELSE t) /\ all[h] = (IF l - 1 < k THEN s ELSE t)
      <4>1. all[i] = (IF i < n + k THEN s ELSE t) /\ all[h] = (IF h < n + k THEN s ELSE t)
        BY <1>4, <3>2
      <4>2. (i < n + k <=> l < k) /\ (h < n + k <=> l - 1 < k)
        BY <1>2, <1>3, <3>1
      <4>. QED  BY <4>1, <4>2
    <3>4. CASE l = k
      <4>1. all[i] = t /\ all[i - 1] = s
        BY <1>2, <1>3, <3>1, <3>3, <3>4
      <4>. QED  BY <3>1, <3>4, <4>1 DEF Tells
    <3>5. CASE l # k
      <4>1. all[i] = all[i - 1]
        BY <1>2, <1>3, <3>1, <3>3, <3>5
      <4>2. out[i].row # r
        BY <1>3, <3>1, <3>5
      <4>. QED  BY <4>1, <4>2 DEF Tells
    <3>. QED  BY <3>4, <3>5
  <2>. QED  BY <1>2, <2>1, <2>2
<1>7. Len(out) = n + m
  BY <1>2
<1>8. out = q \o new
  OBVIOUS
<1>. QED  BY <1>1, <1>4, <1>5, <1>6, <1>7 DEF Seen

\* The agent takes the first request of its queue.
LEMMA SeenTake ==
    ASSUME NEW q \in Seq(Request), q # <<>>, NEW r, NEW main, NEW more, NEW s, NEW j,
           Seen(q, Idle, r, main, more, s),
           IF Head(q).row = r THEN j # Idle /\ j.req = Head(q) ELSE j = Idle \/ j.req.row # r
    PROVE  Seen(Tail(q), j, r, main, more, s)
<1>. PICK n, out : n = Len(q) /\ out = Tail(q)
  OBVIOUS
<1>1. PICK seen \in [0..n -> Fips] :
        /\ Reached(Idle, r, main, more, seen[0]) /\ seen[n] = s
        /\ \A i \in 1..n : Tells(q[i], r, seen[i - 1], seen[i])
  BY DEF Seen
<1>2. n \in Nat \ {0} /\ Head(q) = q[1]
  BY EmptySeq
<1>3. Len(out) = n - 1 /\ \A i \in 1..(n - 1) : out[i] = q[i + 1]
  BY <1>2, HeadTailProperties
<1>. PICK new : new = [i \in 0..(n - 1) |-> seen[i + 1]]
  OBVIOUS
<1>4. new \in [0..(n - 1) -> Fips] /\ \A i \in 0..(n - 1) : new[i] = seen[i + 1]
  BY <1>1, <1>2
<1>5. new[0] = seen[1] /\ new[n - 1] = s
  BY <1>1, <1>2, <1>4
<1>6. ASSUME NEW i \in 1..(n - 1)
      PROVE  Tells(out[i], r, new[i - 1], new[i])
  <2>1. i - 1 \in 0..(n - 1) /\ i \in 0..(n - 1) /\ i + 1 \in 1..n /\ (i + 1) - 1 = i /\ (i - 1) + 1 = i
    BY <1>2
  <2>2. Tells(q[i + 1], r, seen[(i + 1) - 1], seen[i + 1])
    BY <1>1, <2>1
  <2>3. new[i - 1] = seen[i] /\ new[i] = seen[i + 1] /\ out[i] = q[i + 1]
    BY <1>3, <1>4, <2>1
  <2>. QED  BY <2>1, <2>2, <2>3
<1>7. /\ seen[0] \in Fips /\ Knows(seen[0], main, more)
      /\ Tells(q[1], r, seen[0], seen[1])
  <2>1. 1 \in 1..n /\ 0 \in 0..n /\ 1 - 1 = 0
    BY <1>2
  <2>2. Tells(q[1], r, seen[1 - 1], seen[1])
    BY <1>1, <2>1
  <2>. QED  BY <1>1, <2>1, <2>2 DEF Reached
<1>8. Reached(j, r, main, more, new[0])
  BY <1>2, <1>5, <1>7 DEF Reached, Tells
<1>. QED  BY <1>3, <1>4, <1>5, <1>6, <1>8 DEF Seen

\* What the row says after a request.
LEMMA AfterKnows ==
    ASSUME VirtualIpAssumption, NEW j, j.req.what \in Change, NEW t \in Fips, NEW s,
           Knows(t, j.vipFip, j.addFips), Leads(t, j.req.what, s)
    PROVE  Knows(s, FipsAfter(j).main, FipsAfter(j).more)
<1>. PICK c : c = j.req.what
  OBVIOUS
<1>1. c \in Change /\ c.port \in {"vip", "additional"} /\ c.fip \in Fip /\ c.fip # NoFip
      /\ c.does \in {"associate", "disassociate"}
  BY ChangeTypes DEF Port, VirtualIpAssumption
<1>2. /\ s = [t EXCEPT ![c.port] = IF c.does = "associate" THEN c.fip ELSE NoFip]
      /\ t[c.port] = IF c.does = "associate" THEN NoFip ELSE c.fip
      /\ t["vip"] = t["additional"] => t["vip"] = NoFip
  BY DEF Leads, Apart, Port
<1>3. \A p \in {"vip", "additional"} :
         s[p] = IF p = c.port THEN (IF c.does = "associate" THEN c.fip ELSE NoFip) ELSE t[p]
  BY <1>2 DEF Fips, Port
<1>4. j.vipFip = t["vip"] /\ j.addFips = {t["additional"]} \ {NoFip}
  BY DEF Knows
<1>5. CASE c.does = "associate" /\ c.port = "vip"
  BY <1>1, <1>2, <1>3, <1>4, <1>5 DEF FipsAfter, Knows
<1>6. CASE c.does = "associate" /\ c.port = "additional"
  BY <1>1, <1>2, <1>3, <1>4, <1>6 DEF FipsAfter, Knows
<1>7. CASE c.does = "disassociate" /\ c.port = "vip"
  BY <1>1, <1>2, <1>3, <1>4, <1>7 DEF FipsAfter, Knows
<1>8. CASE c.does = "disassociate" /\ c.port = "additional"
  BY <1>1, <1>2, <1>3, <1>4, <1>8 DEF FipsAfter, Knows
<1>. QED  BY <1>1, <1>5, <1>6, <1>7, <1>8

LEMMA SeenCommit ==
    ASSUME VirtualIpAssumption, NEW q, NEW r, NEW main, NEW more, NEW s, NEW j,
           j # Idle, j.req.row = r, j.req.what \in Change, j.vipFip = main, j.addFips = more,
           Seen(q, j, r, main, more, s)
    PROVE  Seen(q, Idle, r, FipsAfter(j).main, FipsAfter(j).more, s)
<1>1. ASSUME NEW u, Reached(j, r, main, more, u)
      PROVE  Reached(Idle, r, FipsAfter(j).main, FipsAfter(j).more, u)
  <2>1. PICK t \in Fips : Knows(t, j.vipFip, j.addFips) /\ Leads(t, j.req.what, u)
    BY <1>1 DEF Reached
  <2>2. Knows(u, FipsAfter(j).main, FipsAfter(j).more)
    BY <2>1, AfterKnows
  <2>. QED  BY <2>2 DEF Reached
<1>2. PICK seen \in [0..Len(q) -> Fips] :
        /\ Reached(j, r, main, more, seen[0]) /\ seen[Len(q)] = s
        /\ \A i \in 1..Len(q) : Tells(q[i], r, seen[i - 1], seen[i])
  BY DEF Seen
<1>3. Reached(Idle, r, FipsAfter(j).main, FipsAfter(j).more, seen[0])
  BY <1>1, <1>2
<1>. QED  BY <1>2, <1>3 DEF Seen

-----------------------------------------------------------------------------
(* Steps of the API worker                                                 *)

\* The world of the run: one step of an agent ends before the API worker writes, a
\* row is copied and the lock moves when nothing waits.
Serial == Races = {} /\ "copied" \notin Failures

LEMMA FTypes == FInv => TInv
BY DEF FInv, PInv, TInv

LEMMA ToldKept ==
    ASSUME Told, UNCHANGED <<inbox, queue, job, holder, fip, rows, vipFip, addFips>>
    PROVE  Told'
BY DEF Told

LEMMA AloneKept ==
    ASSUME Alone, UNCHANGED agents
    PROVE  Alone'
BY DEF Alone, agents

\* Agents without a job have read nothing.
LEMMA FreshIdle ==
    ASSUME \A a \in Agent : job'[a] = Idle
    PROVE  \A a \in Agent : JobFresh(a)'
BY DEF JobFresh

LEMMA ApartDropped ==
    ASSUME Apart(fip), NEW gone, DropPorts(gone)
    PROVE  Apart(fip')
<1>1. fip' = [p \in Port |-> IF p \in gone THEN NoFip ELSE fip[p]]
  BY DEF DropPorts
<1>2. \A p \in Port : fip'[p] = NoFip \/ fip'[p] = fip[p]
  BY <1>1
<1>. QED  BY <1>2 DEF Apart

\* A load balancer that is given up promises nothing any more.
LEMMA FGivenUp ==
    ASSUME FInv, TInv', PInv', ~Alive', Alone', Apart(fip')
    PROVE  FInv'
BY DEF FInv, TInv, Alive

LEMMA FCreatePorts ==
    ASSUME FInv, TInv', PInv', CreatePorts
    PROVE  FInv'
<1>1. UNCHANGED <<fip, nb, agents>>
  BY DEF CreatePorts
<1>2. Alone' /\ Apart(fip')
  BY <1>1, AloneKept DEF FInv
<1>3. Alive /\ lb' # "absent"
  BY DEF CreatePorts, Alive
<1>4. Told'
  BY <1>1, <1>3, ToldKept DEF FInv, nb, agents
<1>5. Blank' /\ Framed'
  BY <1>1, <1>3 DEF FInv, nb, Blank, Framed
<1>6. \A a \in Agent : JobFresh(a)'
  BY <1>1, <1>3 DEF FInv, nb, agents, JobFresh
<1>. QED  BY <1>2, <1>3, <1>4, <1>5, <1>6 DEF FInv, TInv

LEMMA FLbDelete ==
    ASSUME FInv, TInv', PInv', LbDelete
    PROVE  FInv'
<1>1. UNCHANGED agents /\ lb' \in {"deleted", "error"} /\ \E freed : DropPorts(freed)
  BY DEF LbDelete
<1>2. Alone' /\ Apart(fip')
  BY <1>1, AloneKept, ApartDropped DEF FInv
<1>. QED  BY <1>1, <1>2, FGivenUp DEF Alive

LEMMA FLockMoves ==
    ASSUME Serial, FInv, TInv', PInv', LockMoves
    PROVE  FInv'
<1>1. /\ \A a \in Agent : inbox[a] = <<>> /\ queue[a] = <<>> /\ job[a] = Idle
      /\ holder' \in Agent /\ holder \in Agent
      /\ UNCHANGED <<lb, ports, fip, nb, inbox, queue, job>>
  BY DEF LockMoves, Serial, Settled, FInv, TypeOK
<1>2. Alone' /\ Apart(fip')
  BY <1>1 DEF Alone, FInv
<1>3. lb' = "absent" => inbox'[holder'] = <<>> /\ fip' = NoFips
  BY <1>1 DEF FInv
<1>4. \A a \in Agent : JobFresh(a)'
  BY <1>1, FreshIdle
<1>5. ASSUME Alive PROVE Told' /\ Blank' /\ Framed'
  <2>1. Told /\ Blank /\ Framed
    BY <1>5 DEF FInv
  <2>2. Told'
    <3>1. inbox'[holder'] = inbox[holder] /\ queue'[holder'] = queue[holder]
          /\ job'[holder'] = job[holder]
      BY <1>1
    <3>. QED  BY <1>1, <2>1, <3>1 DEF Told, nb
  <2>. QED  BY <1>1, <2>1, <2>2 DEF Blank, Framed, nb
<1>6. Alive' => Alive
  BY <1>1 DEF Alive
<1>. QED  BY <1>2, <1>3, <1>4, <1>5, <1>6 DEF FInv, TInv

\* The first row, of a load balancer that had none.
LEMMA FLbCreate ==
    ASSUME VirtualIpAssumption, Serial, FInv, TInv', PInv', NEW r \in Row, LbCreate(r)
    PROVE  FInv'
<1>1. UNCHANGED <<listed, vipFip, addFips, vips, checks, agents>> /\ lb = "building"
      /\ Alive /\ rows = {} /\ \A a \in Agent : job[a] = Idle
  BY DEF LbCreate, Alive, FInv, PInv, Calm, Serial
<1>2. CASE lb' = "error" /\ DropPorts(Port)
  <2>1. Alone' /\ Apart(fip')
    BY <1>1, <1>2, AloneKept, ApartDropped DEF FInv
  <2>. QED  BY <1>2, <2>1, FGivenUp DEF Alive
<1>3. CASE rows' = rows \cup {r} /\ lb' = "active" /\ UNCHANGED <<ports, fip>>
  <2>1. Alone' /\ Apart(fip')
    BY <1>1, <1>3, AloneKept DEF FInv
  <2>2. \A a \in Agent : JobFresh(a)'
    BY <1>1, FreshIdle DEF agents
  <2>3. rows' = {r} /\ vipFip'[r] = NoFip /\ addFips'[r] = {} /\ vips'[r] = {} /\ r \notin listed'
    BY <1>1, <1>3 DEF FInv, Blank, TypeOK
  <2>4. Blank'
    BY <1>1, <1>3 DEF FInv, Blank
  <2>5. Framed'
    BY <2>3 DEF Framed, Frame
  <2>6. PICK s \in Fips : /\ Past(inbox[holder], s, fip)
                          /\ s = NoFips /\ queue[holder] = <<>> /\ job[holder] = Idle
    BY <1>1 DEF FInv, Told
  <2>7. Knows(s, NoFip, {})
    BY <2>6 DEF NoFips, Knows, Port
  <2>8. Seen(queue'[holder'], job'[holder'], r, vipFip'[r], addFips'[r], s)
    BY <1>1, <2>3, <2>6, <2>7, SeenEmpty DEF agents
  <2>9. Past(inbox'[holder'], s, fip')
    BY <1>1, <1>3, <2>6 DEF agents
  <2>10. Told'
    BY <2>3, <2>8, <2>9 DEF Told
  <2>. QED  BY <1>3, <2>1, <2>2, <2>4, <2>5, <2>10 DEF FInv, TInv
<1>. QED  BY <1>2, <1>3 DEF LbCreate

\* A row for another protocol knows what the first one does.
LEMMA FNewRow ==
    ASSUME Serial, FInv, TInv', PInv', NEW r \in Row, NewRow(r)
    PROVE  FInv'
<1>1. UNCHANGED <<listed, vips, checks, agents>> /\ lb = "active" /\ r \notin rows
      /\ Alive /\ \A a \in Agent : inbox[a] = <<>> /\ queue[a] = <<>> /\ job[a] = Idle
  BY DEF NewRow, Alive, FInv, Settled, Serial
<1>2. CASE DropPorts(Port) /\ lb' = "pending"
  <2>1. Alone' /\ Apart(fip')
    BY <1>1, <1>2, AloneKept, ApartDropped DEF FInv
  <2>. QED  BY <1>2, <2>1, FGivenUp DEF Alive
<1>3. CASE \E first \in rows : CopyFips(r, first) /\ UNCHANGED <<lb, ports, fip>>
  <2>1. Alone' /\ Apart(fip')
    BY <1>1, <1>3, AloneKept DEF FInv
  <2>2. \A a \in Agent : JobFresh(a)'
    BY <1>1, FreshIdle DEF agents
  <2>3. PICK first \in rows :
           /\ rows' = rows \cup {r} /\ UNCHANGED <<lb, ports, fip>>
           /\ vipFip' = [vipFip EXCEPT ![r] = vipFip[first]]
           /\ addFips' = [addFips EXCEPT ![r] = addFips[first]]
    BY <1>3 DEF CopyFips
  <2>4. /\ \A q \in Row \ {r} : vipFip'[q] = vipFip[q] /\ addFips'[q] = addFips[q]
        /\ vipFip'[r] = vipFip[first] /\ addFips'[r] = addFips[first] /\ rows \subseteq Row
        /\ r \notin listed /\ listed \subseteq rows
    BY <1>1, <2>3 DEF FInv, TypeOK
  <2>5. Blank'
    BY <1>1, <2>3, <2>4 DEF FInv, Blank
  <2>6. Framed'
    <3>1. vips[r] = {} /\ \A q \in rows : vips[q] = Frame(q \in listed, vipFip[q], addFips[q])
      BY <1>1 DEF FInv, Blank, Framed
    <3>2. vips'[r] = Frame(r \in listed', vipFip'[r], addFips'[r])
      BY <1>1, <2>4, <3>1 DEF Frame
    <3>3. ASSUME NEW q \in rows PROVE vips'[q] = Frame(q \in listed', vipFip'[q], addFips'[q])
      <4>1. vipFip'[q] = vipFip[q] /\ addFips'[q] = addFips[q]
        BY <1>1, <2>4
      <4>. QED  BY <1>1, <3>1, <4>1
    <3>. QED  BY <2>3, <3>2, <3>3 DEF Framed
  <2>7. PICK s \in Fips :
           /\ Past(inbox[holder], s, fip)
           /\ \A q \in rows : Seen(queue[holder], job[holder], q, vipFip[q], addFips[q], s)
    BY <1>1 DEF FInv, Told
  <2>8. queue[holder] = <<>> /\ job[holder] = Idle
    BY <1>1 DEF FInv, TypeOK
  <2>9. Seen(queue[holder], job[holder], r, vipFip[first], addFips[first], s)
    <3>1. Seen(queue[holder], job[holder], first, vipFip[first], addFips[first], s)
      BY <2>7
    <3>. QED  BY <2>8, <3>1, SeenEmpty
  <2>10. ASSUME NEW q \in rows'
         PROVE  Seen(queue'[holder'], job'[holder'], q, vipFip'[q], addFips'[q], s)
    <3>1. CASE q = r
      BY <1>1, <2>4, <2>9, <3>1 DEF agents
    <3>2. CASE q \in rows
      <4>1. vipFip'[q] = vipFip[q] /\ addFips'[q] = addFips[q]
        BY <1>1, <2>4, <3>2
      <4>. QED  BY <1>1, <2>7, <3>2, <4>1 DEF agents
    <3>. QED  BY <2>3, <3>1, <3>2
  <2>11. Past(inbox'[holder'], s, fip') /\ rows' # {}
    BY <1>1, <2>3, <2>7 DEF agents
  <2>12. Told'
    BY <2>10, <2>11 DEF Told
  <2>. QED  BY <1>1, <2>1, <2>2, <2>3, <2>5, <2>6, <2>12 DEF FInv, TInv
<1>. QED  BY <1>2, <1>3 DEF NewRow, Serial

\* Members and monitors leave floating IPs alone.
LEMMA FMemberChange ==
    ASSUME Serial, FInv, TInv', PInv', NEW r \in Row, MemberChange(r)
    PROVE  FInv'
<1>1. /\ r \in rows /\ listed' = (listed \ {r}) \cup ({r} \ listed)
      /\ vips' = [vips EXCEPT ![r] = Frame(r \in listed', vipFip[r], addFips[r])]
      /\ UNCHANGED <<lb, ports, fip, rows, vipFip, addFips, checks, agents>>
      /\ Alive /\ lb # "absent" /\ \A a \in Agent : job[a] = Idle
  BY DEF MemberChange, Alive, Calm, Serial
<1>2. Alone' /\ Apart(fip') /\ Told'
  BY <1>1, AloneKept, ToldKept DEF FInv, agents
<1>3. \A a \in Agent : JobFresh(a)'
  BY <1>1, FreshIdle DEF agents
<1>4. \A q \in Row \ {r} : vips'[q] = vips[q] /\ (q \in listed' <=> q \in listed)
  BY <1>1 DEF FInv, TypeOK
<1>5. Blank'
  BY <1>1, <1>4 DEF FInv, Blank
<1>6. Framed'
  <2>1. \A q \in rows : vips[q] = Frame(q \in listed, vipFip[q], addFips[q])
    BY <1>1 DEF FInv, Framed
  <2>2. vips'[r] = Frame(r \in listed', vipFip'[r], addFips'[r])
    BY <1>1 DEF FInv, TypeOK
  <2>3. ASSUME NEW q \in rows \ {r} PROVE vips'[q] = Frame(q \in listed', vipFip'[q], addFips'[q])
    <3>1. vips'[q] = vips[q] /\ (q \in listed' <=> q \in listed) /\ q \in rows
      BY <1>4 DEF FInv, TypeOK
    <3>. QED  BY <1>1, <2>1, <3>1 DEF Frame
  <2>. QED  BY <1>1, <2>2, <2>3 DEF Framed
<1>. QED  BY <1>1, <1>2, <1>3, <1>5, <1>6 DEF FInv, TInv

LEMMA FMonitor ==
    ASSUME VirtualIpAssumption, Serial, FInv, TInv', PInv', NEW h \in Monitor,
           HmCreate(h) \/ HmDelete(h)
    PROVE  FInv'
<1>. PICK r : r = RowOf[h]
  OBVIOUS
<1>1. /\ UNCHANGED <<lb, ports, fip, rows, listed, vipFip, addFips, vips, agents>>
      /\ Alive /\ lb # "absent" /\ \A a \in Agent : job[a] = Idle
      /\ \E new : checks' = [checks EXCEPT ![r] = new]
  BY DEF HmCreate, HmDelete, Alive, Calm, Serial
<1>2. r \in Row /\ (r \notin rows => checks[r] = {})
  BY <1>1 DEF FInv, Blank, VirtualIpAssumption
<1>3. r \in rows
  <2>1. HmDelete(h) => checks[r] # {}
    BY DEF HmDelete, Checks
  <2>2. HmCreate(h) => r \in rows
    BY DEF HmCreate
  <2>. QED  BY <1>2, <2>1, <2>2
<1>4. Alone' /\ Apart(fip') /\ Told'
  BY <1>1, AloneKept, ToldKept DEF FInv, agents
<1>5. \A a \in Agent : JobFresh(a)'
  BY <1>1, FreshIdle DEF agents
<1>6. Framed'
  BY <1>1 DEF FInv, Framed
<1>7. Blank'
  BY <1>1, <1>3 DEF FInv, Blank, TypeOK
<1>. QED  BY <1>1, <1>4, <1>5, <1>6, <1>7 DEF FInv, TInv

-----------------------------------------------------------------------------
(* Steps of Neutron and of the agent                                       *)

LEMMA HearsHolder ==
    ASSUME Serial, FInv, NEW c \in Change, Announce(c)
    PROVE  /\ inbox'[holder] = Append(inbox[holder], c)
           /\ \A a \in Agent \ {holder} : inbox'[a] = inbox[a]
BY DEF Announce, Hears, Serial, FInv, TypeOK

\* A floating IP comes or goes: one more step to tell.
LEMMA FAnnounce ==
    ASSUME Serial, FInv, TInv', PInv', NEW c \in Change, Announce(c),
           Leads(fip, c, fip'), ports # {}, UNCHANGED <<lb, ports, nb, holder, queue, job>>
    PROVE  FInv'
<1>1. /\ inbox'[holder] = Append(inbox[holder], c)
      /\ \A a \in Agent \ {holder} : inbox'[a] = inbox[a]
  BY HearsHolder
<1>2. Alone' /\ Apart(fip')
  BY <1>1 DEF FInv, Alone, Leads
<1>3. lb # "absent"
  BY DEF FInv, PInv
<1>4. ASSUME Alive PROVE Told' /\ Blank' /\ Framed' /\ \A a \in Agent : JobFresh(a)'
  <2>1. PICK s \in Fips :
           /\ Past(inbox[holder], s, fip)
           /\ rows = {} => s = NoFips /\ queue[holder] = <<>> /\ job[holder] = Idle
           /\ \A r \in rows : Seen(queue[holder], job[holder], r, vipFip[r], addFips[r], s)
    BY <1>4 DEF FInv, Told
  <2>2. inbox[holder] \in Seq(Change) /\ fip' \in Fips
    BY DEF FInv, TypeOK, TInv, Fips
  <2>3. Past(inbox'[holder], s, fip')
    BY <1>1, <2>1, <2>2, PastAppend
  <2>4. Told'
    BY <2>1, <2>3 DEF Told, nb
  <2>5. Blank' /\ Framed' /\ \A a \in Agent : JobFresh(a)'
    BY <1>4 DEF FInv, Blank, Framed, JobFresh, nb
  <2>. QED  BY <2>4, <2>5
<1>5. Alive' => Alive
  BY DEF Alive
<1>. QED  BY <1>2, <1>3, <1>4, <1>5 DEF FInv, TInv

LEMMA FAssociate ==
    ASSUME VirtualIpAssumption, Serial, FInv, TInv', PInv', NEW p \in Port, NEW f \in Fip,
           FipAssociate(p, f)
    PROVE  FInv'
<1>. PICK c : c = [port |-> p, fip |-> f, does |-> "associate"]
  OBVIOUS
<1>1. c \in Change /\ c.port = p /\ c.fip = f /\ c.does = "associate"
  BY DEF Change
<1>2. /\ p \in ports /\ fip[p] = NoFip /\ \A q \in Port : fip[q] # f
      /\ fip' = [fip EXCEPT ![p] = f] /\ Announce(c)
      /\ UNCHANGED <<lb, ports, nb, holder, queue, job>>
  BY DEF FipAssociate
<1>3. \A q \in Port : fip'[q] = IF q = p THEN f ELSE fip[q]
  BY <1>2 DEF FInv, TypeOK
<1>4. Apart(fip) /\ Apart(fip')
  BY <1>2, <1>3 DEF FInv, Apart
<1>5. Leads(fip, c, fip')
  BY <1>1, <1>2, <1>4 DEF Leads
<1>. QED  BY <1>1, <1>2, <1>5, FAnnounce

LEMMA FDisassociate ==
    ASSUME VirtualIpAssumption, Serial, FInv, TInv', PInv', NEW p \in Port,
           FipDisassociate(p)
    PROVE  FInv'
<1>. PICK c : c = [port |-> p, fip |-> fip[p], does |-> "disassociate"]
  OBVIOUS
<1>1. c \in Change /\ c.port = p /\ c.fip = fip[p] /\ c.does = "disassociate"
  BY DEF Change, FipDisassociate, FInv, TypeOK
<1>2. /\ p \in ports /\ fip' = [fip EXCEPT ![p] = NoFip] /\ Announce(c)
      /\ UNCHANGED <<lb, ports, nb, holder, queue, job>>
  BY DEF FipDisassociate
<1>3. \A q \in Port : fip'[q] = IF q = p THEN NoFip ELSE fip[q]
  BY <1>2 DEF FInv, TypeOK
<1>4. Apart(fip) /\ Apart(fip')
  BY <1>2, <1>3 DEF FInv, Apart
<1>5. Leads(fip, c, fip')
  BY <1>1, <1>2, <1>4 DEF Leads
<1>. QED  BY <1>1, <1>2, <1>5, FAnnounce

\* The agent hears: a step in the inbox becomes one for each row.
LEMMA FNotified ==
    ASSUME Serial, FInv, TInv', PInv', NEW a \in Agent, Notified(a)
    PROVE  FInv'
<1>1. a = holder /\ inbox[a] # <<>>
  BY DEF Notified, FInv, Alone
<1>. PICK c : c = Head(inbox[a])
  OBVIOUS
<1>2. PICK new \in Requests(c) :
        /\ queue' = [queue EXCEPT ![a] = @ \o new]
        /\ inbox' = [inbox EXCEPT ![a] = Tail(@)]
        /\ UNCHANGED <<lb, ports, fip, nb, holder, job>>
        /\ rows # {} \/ lb # "building"
  BY <1>1 DEF Notified, Serial
<1>3. /\ inbox[a] \in Seq(Change) /\ queue[a] \in Seq(Request) /\ fip \in Fips
      /\ IsFiniteSet(rows) /\ rows \subseteq Row
      /\ inbox'[a] = Tail(inbox[a]) /\ queue'[a] = queue[a] \o new
  BY <1>2 DEF FInv, PInv, TypeOK, Fips
<1>4. c \in Change
  BY <1>1, <1>3, HeadTailProperties
<1>5. /\ new \in Seq(Request) /\ Len(new) \in Nat
      /\ \A i \in 1..Len(new) : new[i].row \in rows /\ new[i].what = c
      /\ \A i, j \in 1..Len(new) : new[i].row = new[j].row => i = j
      /\ \A r \in rows : \E i \in 1..Len(new) : new[i].row = r
  BY <1>3, <1>4, RequestsOnce
<1>6. Alone' /\ Apart(fip')
  BY <1>1, <1>2 DEF FInv, Alone, TypeOK
<1>7. lb # "absent"
  BY <1>1 DEF FInv
<1>8. ASSUME Alive PROVE Told' /\ Blank' /\ Framed' /\ \A b \in Agent : JobFresh(b)'
  <2>1. rows # {}
    BY <1>2, <1>7, <1>8 DEF Alive, FInv, PInv
  <2>2. PICK s \in Fips :
           /\ Past(inbox[a], s, fip)
           /\ \A r \in rows : Seen(queue[a], job[a], r, vipFip[r], addFips[r], s)
    BY <1>1, <1>8 DEF FInv, Told
  <2>3. PICK t : Leads(s, c, t) /\ Past(Tail(inbox[a]), t, fip)
    BY <1>1, <1>3, <2>2, PastTail
  <2>4. t \in Fips
    BY <1>4, <2>3, LeadsTypes
  <2>5. ASSUME NEW r \in rows
        PROVE  Seen(queue[a] \o new, job[a], r, vipFip[r], addFips[r], t)
    <3>. PICK main, more, j, q : main = vipFip[r] /\ more = addFips[r] /\ j = job[a] /\ q = queue[a]
      OBVIOUS
    <3>1. PICK k \in 1..Len(new) : new[k].row = r
      BY <1>5
    <3>2. \A i \in 1..Len(new) : new[i].row = r => i = k
      BY <1>5, <3>1
    <3>3. Seen(q, j, r, main, more, s)
      BY <2>2
    <3>4. \A i \in 1..Len(new) : new[i].what = c
      BY <1>5
    <3>5. q \in Seq(Request)
      BY <1>3
    <3>6. Seen(q \o new, j, r, main, more, t)
      BY <1>4, <1>5, <2>3, <2>4, <3>1, <3>2, <3>3, <3>4, <3>5, SeenAppend
    <3>. QED  BY <3>6
  <2>6. /\ Past(inbox'[holder'], t, fip')
        /\ \A r \in rows' : Seen(queue'[holder'], job'[holder'], r, vipFip'[r], addFips'[r], t)
    BY <1>1, <1>2, <1>3, <2>3, <2>5 DEF nb
  <2>7. Told'
    BY <1>2, <2>1, <2>4, <2>6 DEF Told, nb
  <2>8. Blank' /\ Framed' /\ \A b \in Agent : JobFresh(b)'
    BY <1>2, <1>8 DEF FInv, Blank, Framed, JobFresh, nb
  <2>. QED  BY <2>7, <2>8
<1>9. Alive' => Alive
  BY <1>2 DEF Alive
<1>10. lb' # "absent"
  BY <1>2, <1>7
<1>. QED  BY <1>6, <1>8, <1>9, <1>10 DEF FInv, TInv

\* The agent takes a request and reads its row.
LEMMA FTake ==
    ASSUME Serial, FInv, TInv', PInv', NEW a \in Agent, Take(a)
    PROVE  FInv'
<1>1. a = holder /\ queue[a] # <<>> /\ job[a] = Idle
  BY DEF Take, FInv, Alone
<1>. PICK req, w : req = Head(queue[a]) /\ w = req.row
  OBVIOUS
<1>. PICK j : j = [does |-> "commit", req |-> req, listed |-> w \in listed,
                   vipFip |-> vipFip[w], addFips |-> addFips[w], checks |-> checks[w]]
  OBVIOUS
<1>2. /\ queue' = [queue EXCEPT ![a] = Tail(@)]
      /\ UNCHANGED <<lb, ports, fip, rows, listed, vipFip, addFips, vips, holder, inbox>>
      /\ \/ w \notin rows /\ UNCHANGED <<checks, job>>
         \/ /\ w \in rows
            /\ checks' = [checks EXCEPT ![w] = @ \cup Copied(w, req.what)]
            /\ job' = [job EXCEPT ![a] = j]
  BY DEF Take
<1>3. /\ queue[a] \in Seq(Request) /\ queue'[a] = Tail(queue[a])
      /\ \A b \in Agent \ {a} : job'[b] = job[b] /\ queue'[b] = queue[b]
  BY <1>2 DEF FInv, TypeOK
<1>4. /\ j.req = req /\ j.listed = (w \in listed) /\ j.vipFip = vipFip[w]
      /\ j.addFips = addFips[w] /\ j.checks = checks[w] /\ j # Idle
  <2>1. j.does = "commit" /\ Idle.does = "nothing"
    BY DEF Idle
  <2>. QED  BY <2>1
<1>5. job'[a] = IF w \in rows THEN j ELSE Idle
  BY <1>1, <1>2 DEF FInv, TypeOK
<1>6. Alone' /\ Apart(fip')
  BY <1>1, <1>2, <1>3 DEF FInv, Alone
<1>7. ASSUME Alive PROVE Told' /\ Blank' /\ Framed' /\ \A b \in Agent : JobFresh(b)'
  <2>1. PICK s \in Fips :
           /\ Past(inbox[a], s, fip)
           /\ rows # {}
           /\ \A r \in rows : Seen(queue[a], job[a], r, vipFip[r], addFips[r], s)
    BY <1>1, <1>7 DEF FInv, Told
  <2>2. ASSUME NEW r \in rows
        PROVE  Seen(Tail(queue[a]), job'[a], r, vipFip[r], addFips[r], s)
    <3>. PICK main, more, k, q : main = vipFip[r] /\ more = addFips[r] /\ k = job'[a] /\ q = queue[a]
      OBVIOUS
    <3>1. Seen(q, Idle, r, main, more, s) /\ q \in Seq(Request) /\ q # <<>>
      BY <1>1, <1>3, <2>1
    <3>2. IF Head(q).row = r THEN k # Idle /\ k.req = Head(q) ELSE k = Idle \/ k.req.row # r
      BY <1>4, <1>5
    <3>3. Seen(Tail(q), k, r, main, more, s)
      BY <3>1, <3>2, SeenTake
    <3>. QED  BY <3>3
  <2>3. /\ Past(inbox'[holder'], s, fip')
        /\ \A r \in rows' : Seen(queue'[holder'], job'[holder'], r, vipFip'[r], addFips'[r], s)
    BY <1>1, <1>2, <1>3, <2>1, <2>2
  <2>4. Told'
    BY <1>2, <2>1, <2>3 DEF Told
  <2>5. Blank' /\ Framed'
    BY <1>2, <1>7 DEF FInv, Blank, Framed, TypeOK
  <2>6. ASSUME NEW b \in Agent PROVE JobFresh(b)'
    <3>1. CASE b # a
      BY <1>1, <1>3, <3>1 DEF FInv, Alone, JobFresh
    <3>2. CASE b = a /\ w \notin rows
      BY <1>5, <3>2 DEF JobFresh
    <3>3. CASE b = a /\ w \in rows
      <4>1. job'[b] = j /\ j.req.row = w /\ j.req.what = req.what
        BY <1>4, <1>5, <3>3
      <4>2. checks'[w] = checks[w] \cup Copied(w, req.what)
        BY <1>2, <3>3 DEF FInv, TypeOK
      <4>3. checks'[w] = j.checks \cup
                (IF j.req.what.does = "associate"
                 THEN CopiesOf(j.checks, j.req.what.port, j.req.what.fip) ELSE {})
        BY <1>4, <4>1, <4>2 DEF Copied, CopiesOf, At
      <4>. QED  BY <1>2, <1>4, <3>3, <4>1, <4>3 DEF JobFresh
    <3>. QED  BY <3>1, <3>2, <3>3
  <2>. QED  BY <2>4, <2>5, <2>6
<1>8. (Alive' => Alive) /\ (lb' = "absent" => inbox'[holder'] = <<>> /\ fip' = NoFips)
  BY <1>2 DEF Alive, FInv
<1>. QED  BY <1>6, <1>7, <1>8 DEF FInv, TInv

\* The agent writes what follows from what it read.
LEMMA FCommit ==
    ASSUME VirtualIpAssumption, Serial, FInv, TInv', PInv', NEW a \in Agent, Commit(a)
    PROVE  FInv'
<1>. PICK j : j = job[a]
  OBVIOUS
<1>. PICK w, main, more : w = j.req.row /\ main = FipsAfter(j).main /\ more = FipsAfter(j).more
  OBVIOUS
<1>1. a = holder /\ j # Idle
  BY DEF Commit, FInv, Alone
<1>2. /\ job' = [job EXCEPT ![a] = Idle]
      /\ \/ w \notin rows /\ UNCHANGED <<vipFip, addFips, vips, checks>>
         \/ /\ w \in rows
            /\ vipFip' = [vipFip EXCEPT ![w] = IF main = j.vipFip THEN @ ELSE main]
            /\ addFips' = [addFips EXCEPT ![w] = IF more = j.addFips THEN @ ELSE more]
            /\ vips' = [vips EXCEPT ![w] = Frame(j.listed, main, more)]
            /\ \E gone \in Removed(j) : checks' = [checks EXCEPT ![w] = @ \ gone]
      /\ UNCHANGED <<lb, ports, fip, rows, listed, holder, inbox, queue>>
  BY DEF Commit
<1>3. j \in Job /\ j.req.what \in Change /\ \A b \in Agent : b = a \/ job[b] = Idle
  BY <1>1, JobTypes DEF FInv, TypeOK, Alone
<1>4. \A b \in Agent : job'[b] = Idle
  BY <1>2, <1>3 DEF FInv, TypeOK
<1>5. Alone' /\ Apart(fip')
  BY <1>1, <1>2, <1>4 DEF FInv, Alone
<1>6. \A b \in Agent : JobFresh(b)'
  BY <1>4, FreshIdle
<1>7. ASSUME Alive PROVE Told' /\ Blank' /\ Framed'
  <2>1. /\ w \in rows /\ j.listed = (w \in listed)
        /\ j.vipFip = vipFip[w] /\ j.addFips = addFips[w]
    BY <1>1, <1>7 DEF FInv, JobFresh
  <2>2. /\ vipFip'[w] = main /\ addFips'[w] = more
        /\ vips'[w] = Frame(j.listed, main, more)
        /\ \A r \in Row \ {w} : /\ vipFip'[r] = vipFip[r] /\ addFips'[r] = addFips[r]
                                /\ vips'[r] = vips[r] /\ checks'[r] = checks[r]
    BY <1>2, <2>1 DEF FInv, TypeOK
  <2>3. PICK s \in Fips :
           /\ Past(inbox[a], s, fip)
           /\ \A r \in rows : Seen(queue[a], j, r, vipFip[r], addFips[r], s)
    BY <1>1, <1>7 DEF FInv, Told
  <2>4. ASSUME NEW r \in rows
        PROVE  Seen(queue[a], Idle, r, vipFip'[r], addFips'[r], s)
    <3>. PICK m, n, q : m = vipFip[r] /\ n = addFips[r] /\ q = queue[a]
      OBVIOUS
    <3>1. Seen(q, j, r, m, n, s)
      BY <2>3
    <3>2. CASE r = w
      <4>1. j.req.row = r /\ j.vipFip = m /\ j.addFips = n
        BY <2>1, <3>2
      <4>2. Seen(q, Idle, r, FipsAfter(j).main, FipsAfter(j).more, s)
        BY <1>1, <1>3, <3>1, <4>1, SeenCommit
      <4>. QED  BY <2>2, <3>2, <4>2
    <3>3. CASE r # w
      <4>1. j.req.row # r
        BY <3>3
      <4>2. Seen(q, Idle, r, m, n, s)
        BY <3>1, <4>1, SeenOther
      <4>3. vipFip'[r] = m /\ addFips'[r] = n
        BY <2>2, <3>3 DEF FInv, TypeOK
      <4>. QED  BY <4>2, <4>3
    <3>. QED  BY <3>2, <3>3
  <2>5. /\ Past(inbox'[holder'], s, fip') /\ rows' # {}
        /\ \A r \in rows' : Seen(queue'[holder'], job'[holder'], r, vipFip'[r], addFips'[r], s)
    BY <1>1, <1>2, <1>4, <2>1, <2>3, <2>4
  <2>6. Told'
    BY <2>5 DEF Told
  <2>7. Blank'
    BY <1>2, <1>7, <2>1, <2>2 DEF FInv, Blank
  <2>8. Framed'
    <3>1. \A r \in rows : vips[r] = Frame(r \in listed, vipFip[r], addFips[r]) /\ r \in Row
      BY <1>7 DEF FInv, Framed, TypeOK
    <3>2. vips'[w] = Frame(w \in listed', vipFip'[w], addFips'[w])
      BY <1>2, <2>1, <2>2 DEF Frame
    <3>3. ASSUME NEW r \in rows \ {w} PROVE vips'[r] = Frame(r \in listed', vipFip'[r], addFips'[r])
      <4>1. vips'[r] = vips[r] /\ vipFip'[r] = vipFip[r] /\ addFips'[r] = addFips[r]
        BY <2>2, <3>1
      <4>. QED  BY <1>2, <3>1, <4>1
    <3>. QED  BY <1>2, <3>2, <3>3 DEF Framed
  <2>. QED  BY <2>6, <2>7, <2>8
<1>8. (Alive' => Alive) /\ (lb' = "absent" => inbox'[holder'] = <<>> /\ fip' = NoFips)
  BY <1>2 DEF Alive, FInv
<1>. QED  BY <1>5, <1>6, <1>7, <1>8 DEF FInv, TInv

LEMMA FInit == VirtualIpAssumption /\ Init => FInv
<1>. SUFFICES ASSUME VirtualIpAssumption, Init PROVE FInv
  OBVIOUS
<1>1. TInv /\ PInv
  BY TInit, PInit
<1>2. holder \in Agent /\ fip = NoFips /\ NoFips \in Fips
  BY DEF Init, VirtualIpAssumption, NoFips, Fips
<1>3. Alone /\ \A a \in Agent : JobFresh(a)
  BY <1>2 DEF Init, Alone, JobFresh
<1>4. Apart(fip)
  BY <1>2 DEF NoFips, Apart
<1>5. Told
  <2>1. Past(inbox[holder], NoFips, fip)
    BY <1>2, PastEmpty DEF Init
  <2>. QED  BY <1>2, <2>1 DEF Init, Told
<1>6. Blank /\ Framed
  BY DEF Init, Blank, Framed
<1>. QED  BY <1>1, <1>2, <1>3, <1>4, <1>5, <1>6 DEF FInv, TInv, Init

LEMMA FStep ==
    ASSUME VirtualIpAssumption, Serial, FInv, [Next]_vars
    PROVE  FInv'
<1>1. TInv' /\ PInv'
  BY FTypes, TStep, PStep DEF FInv, Serial
<1>2. CASE CreatePorts
  BY <1>1, <1>2, FCreatePorts
<1>3. CASE LbDelete
  BY <1>1, <1>3, FLbDelete
<1>4. CASE LockMoves
  BY <1>1, <1>4, FLockMoves
<1>5. ASSUME NEW r \in Row, LbCreate(r) \/ NewRow(r) \/ MemberChange(r) PROVE FInv'
  BY <1>1, <1>5, FLbCreate, FNewRow, FMemberChange
<1>6. ASSUME NEW h \in Monitor, HmCreate(h) \/ HmDelete(h) PROVE FInv'
  BY <1>1, <1>6, FMonitor
<1>7. ASSUME NEW p \in Port, FipDisassociate(p) \/ \E f \in Fip : FipAssociate(p, f) PROVE FInv'
  BY <1>1, <1>7, FAssociate, FDisassociate
<1>8. ASSUME NEW a \in Agent, AgentStep(a) PROVE FInv'
  BY <1>1, <1>8, FNotified, FTake, FCommit DEF AgentStep
<1>9. CASE UNCHANGED vars
  <2>1. UNCHANGED <<lb, ports, fip, rows, listed, vipFip, addFips, vips, checks,
                    holder, inbox, queue, job>>
    BY <1>9 DEF vars, nb, agents
  <2>2. Alive => Told'
    BY <2>1, ToldKept DEF FInv
  <2>3. Alone' /\ Apart(fip') /\ (lb' = "absent" => inbox'[holder'] = <<>> /\ fip' = NoFips)
    BY <2>1 DEF FInv, Alone
  <2>4. Alive => Blank' /\ Framed' /\ \A a \in Agent : JobFresh(a)'
    BY <2>1 DEF FInv, Blank, Framed, JobFresh
  <2>5. Alive' => Alive
    BY <2>1 DEF Alive
  <2>. QED  BY <1>1, <2>2, <2>3, <2>4, <2>5 DEF FInv, TInv
<1>. QED  BY <1>2, <1>3, <1>4, <1>5, <1>6, <1>7, <1>8, <1>9 DEF Next

\* The inductive invariant: what waits at the holder of the lock leads every row, step
\* by step, to the floating IPs its ports have.
THEOREM ToldInvariance == Serial /\ Spec => []FInv
<1>. SUFFICES ASSUME Serial PROVE Spec => []FInv
  OBVIOUS
<1>1. Init => FInv
  BY FInit, VirtualIpAssumption
<1>2. FInv /\ [Next]_vars => FInv'
  BY FStep, VirtualIpAssumption
<1>. QED  BY <1>1, <1>2, PTL DEF Spec

\* When nothing waits, an active load balancer answers where users expect it.
LEMMA SettledServes ==
    ASSUME VirtualIpAssumption, FInv, Settled, lb = "active", NEW r \in rows
    PROVE  /\ vipFip[r] = fip["vip"] /\ addFips[r] = {fip["additional"]} \ {NoFip}
           /\ Frame(TRUE, vipFip[r], addFips[r]) = Wanted
<1>1. /\ inbox[holder] = <<>> /\ queue[holder] = <<>> /\ job[holder] = Idle
      /\ fip \in Fips /\ Alive
  BY DEF Settled, FInv, TypeOK, Fips, Alive
<1>2. PICK s \in Fips : Past(<<>>, s, fip) /\ Seen(<<>>, Idle, r, vipFip[r], addFips[r], s)
  BY <1>1 DEF FInv, Told
<1>3. s = fip
  BY <1>1, <1>2, PastEmpty
<1>4. Knows(fip, vipFip[r], addFips[r])
  <2>. PICK main, more : main = vipFip[r] /\ more = addFips[r]
    OBVIOUS
  <2>1. Seen(<<>>, Idle, r, main, more, s)
    BY <1>2
  <2>2. Knows(s, main, more)
    BY <2>1, SeenEmpty
  <2>. QED  BY <1>3, <2>2
<1>5. Wanted = Port \cup ({fip["vip"], fip["additional"]} \ {NoFip})
  BY DEF Wanted, Port
<1>. QED  BY <1>4, <1>5 DEF Knows, Frame

\* When the agents have nothing left to do, every row with a member answers on its
\* VIPs and on the floating IPs they have now, and on no other, for any number of rows,
\* floating IPs, agents and notifications (vip_port_update_handler, handle_vip_fip).
THEOREM FipsServed == Serial /\ Spec => []FipServed
<1>. SUFFICES ASSUME Serial PROVE Spec => []FipServed
  OBVIOUS
<1>1. FInv => FipServed
  <2>. SUFFICES ASSUME FInv, Settled, lb = "active", NEW r \in rows
                PROVE  vips[r] = IF r \in listed THEN Wanted ELSE {}
    BY DEF FipServed
  <2>1. vips[r] = Frame(r \in listed, vipFip[r], addFips[r])
    BY DEF FInv, Framed, Alive
  <2>2. Frame(TRUE, vipFip[r], addFips[r]) = Wanted
    BY SettledServes, VirtualIpAssumption
  <2>. QED  BY <2>1, <2>2 DEF Frame
<1>. QED  BY <1>1, ToldInvariance, PTL

-----------------------------------------------------------------------------
(* Health checks of one monitor for each row                               *)

OneMonitor == \A g, h \in Monitor : RowOf[g] = RowOf[h] => g = h

MonitorOf(c) == c[1]
AddressOf(c) == c[2]

LEMMA CheckParts ==
    /\ \A h, z : MonitorOf(Check(h, z)) = h /\ AddressOf(Check(h, z)) = z
    /\ \A h, s, y : y \in Each(h, s) <=> \E z \in s : y = Check(h, z)
<1>1. \A h, z : MonitorOf(Check(h, z)) = h /\ AddressOf(Check(h, z)) = z
  BY DEF Check, MonitorOf, AddressOf
<1>2. \A h, s, y : y \in Each(h, s) <=> \E z \in s : y = Check(h, z)
  BY DEF Check, Each
<1>. QED  BY <1>1, <1>2

\* The checks of a monitor among others.
OwnedBy(x, h) == {c \in x : c[1] = h}

LEMMA EachOwned == \A h, s : OwnedBy(Each(h, s), h) = Each(h, s) /\ (s # {} => Each(h, s) # {})
<1>. SUFFICES ASSUME NEW h, NEW s
              PROVE  OwnedBy(Each(h, s), h) = Each(h, s) /\ (s # {} => Each(h, s) # {})
  OBVIOUS
<1>1. \A c \in Each(h, s) : MonitorOf(c) = h
  BY CheckParts
<1>2. OwnedBy(Each(h, s), h) = Each(h, s)
  BY <1>1 DEF OwnedBy, MonitorOf
<1>. QED  BY <1>2, CheckParts

LEMMA CopyOne ==
    \A h, s, f : \A p \in s : CopiesOf(Each(h, s), p, f) = {Check(h, f)}
<1>. SUFFICES ASSUME NEW h, NEW s, NEW p \in s, NEW f
              PROVE  CopiesOf(Each(h, s), p, f) = {Check(h, f)}
  OBVIOUS
<1>1. {e \in Each(h, s) : AddressOf(e) = p} = {Check(h, p)}
  BY CheckParts
<1>2. At(Each(h, s), p) = {Check(h, p)}
  BY <1>1 DEF AddressOf, At
<1>3. {<<d[1], f>> : d \in {<<h, p>>}} = {<<h, f>>}
  OBVIOUS
<1>. QED  BY <1>2, <1>3 DEF Check, CopiesOf

\* A change adds its floating IP to the addresses of a row, or takes it away.
LEMMA FrameAfter ==
    ASSUME VirtualIpAssumption, NEW j, j.req.what \in Change, NEW t \in Fips, NEW s,
           Knows(t, j.vipFip, j.addFips), Leads(t, j.req.what, s),
           NEW before, before = Frame(TRUE, j.vipFip, j.addFips),
           NEW after, after = Frame(TRUE, FipsAfter(j).main, FipsAfter(j).more)
    PROVE  /\ j.req.what.does = "associate" => after = before \cup {j.req.what.fip}
           /\ j.req.what.does = "disassociate" =>
                 after = before \ {j.req.what.fip} /\ j.req.what.fip \in before
           /\ j.req.what.port \in before
<1>. PICK c : c = j.req.what
  OBVIOUS
<1>1. c \in Change /\ c.port \in Port /\ c.fip \in Fip /\ c.fip # NoFip /\ c.fip \notin Port
      /\ c.does \in {"associate", "disassociate"}
  BY ChangeTypes DEF VirtualIpAssumption
<1>2. /\ s = [t EXCEPT ![c.port] = IF c.does = "associate" THEN c.fip ELSE NoFip]
      /\ t[c.port] = IF c.does = "associate" THEN NoFip ELSE c.fip
      /\ t["vip"] = t["additional"] => t["vip"] = NoFip
  BY DEF Leads, Apart, Port
<1>3. \A p \in Port : s[p] = IF p = c.port THEN (IF c.does = "associate" THEN c.fip ELSE NoFip) ELSE t[p]
  BY <1>2 DEF Fips
<1>4. before = Port \cup ({t["vip"], t["additional"]} \ {NoFip})
  BY DEF Frame, Knows
<1>5. Knows(s, FipsAfter(j).main, FipsAfter(j).more)
  BY AfterKnows
<1>6. after = Port \cup ({s["vip"], s["additional"]} \ {NoFip})
  BY <1>5 DEF Frame, Knows
<1>. PICK v, w, x, y : v = t["vip"] /\ w = t["additional"] /\ x = s["vip"] /\ y = s["additional"]
  OBVIOUS
<1>10. /\ c.port = "vip" => /\ y = w
                            /\ x = IF c.does = "associate" THEN c.fip ELSE NoFip
                            /\ v = IF c.does = "associate" THEN NoFip ELSE c.fip
       /\ c.port # "vip" => /\ x = v
                            /\ y = IF c.does = "associate" THEN c.fip ELSE NoFip
                            /\ w = IF c.does = "associate" THEN NoFip ELSE c.fip
       /\ v = w => v = NoFip
  <2>1. c.port = "vip" \/ c.port = "additional"
    BY <1>1 DEF Port
  <2>2. "vip" \in Port /\ "additional" \in Port
    BY DEF Port
  <2>. QED  BY <1>2, <1>3, <2>1, <2>2
<1>11. before = Port \cup ({v, w} \ {NoFip}) /\ after = Port \cup ({x, y} \ {NoFip})
  BY <1>4, <1>6
<1>7. c.does = "associate" => after = before \cup {c.fip}
  <2>. SUFFICES ASSUME c.does = "associate", NEW z PROVE z \in after <=> z \in before \/ z = c.fip
    BY Zenon
  <2>. QED  BY <1>1, <1>10, <1>11
<1>8. c.does = "disassociate" => after = before \ {c.fip} /\ c.fip \in before
  <2>. SUFFICES ASSUME c.does = "disassociate"
                PROVE  c.fip \in before /\ \A z : z \in after <=> z \in before /\ z # c.fip
    OBVIOUS
  <2>. QED  BY <1>1, <1>10, <1>11
<1>9. c.port \in before
  BY <1>1, <1>4
<1>. QED  BY <1>7, <1>8, <1>9

\* The request an agent is at is a step from what its row knows.
LEMMA JobLeads ==
    ASSUME FInv, Alive, NEW a \in Agent, job[a] # Idle
    PROVE  /\ a = holder /\ job[a].req.row \in rows
           /\ \E t \in Fips, s \in Fips : /\ Knows(t, job[a].vipFip, job[a].addFips)
                                          /\ Leads(t, job[a].req.what, s)
<1>. PICK j, w, q : j = job[a] /\ w = j.req.row /\ q = queue[a]
  OBVIOUS
<1>1. a = holder
  BY DEF FInv, Alone
<1>2. w \in rows /\ j.vipFip = vipFip[w] /\ j.addFips = addFips[w]
  BY DEF FInv, JobFresh
<1>3. \E u : Seen(q, j, w, vipFip[w], addFips[w], u)
  BY <1>1, <1>2 DEF FInv, Told
<1>4. PICK u : Seen(q, j, w, j.vipFip, j.addFips, u)
  BY <1>2, <1>3
<1>5. q \in Seq(Request) /\ Len(q) \in Nat
  BY LenProperties DEF FInv, TypeOK
<1>6. PICK seen \in [0..Len(q) -> Fips] : Reached(j, w, j.vipFip, j.addFips, seen[0])
  BY <1>4 DEF Seen
<1>7. seen[0] \in Fips
  BY <1>5, <1>6
<1>. QED  BY <1>1, <1>2, <1>6, <1>7 DEF Reached

\* What neither checks, entries nor jobs change.
LEMMA GKept ==
    ASSUME ChecksFramed, UNCHANGED <<checks, vipFip, addFips>>, job'[holder'] = job[holder]
    PROVE  ChecksFramed'
<1>1. \A r \in Row : Repeated(holder, r)' = Repeated(holder, r)
  BY DEF Repeated
<1>. QED  BY <1>1 DEF ChecksFramed

\* What changes the checks of one row, when no agent is at work.
LEMMA GPut ==
    ASSUME ChecksFramed, job[holder] = Idle, UNCHANGED <<vipFip, addFips, holder, job>>,
           NEW r \in Row, NEW new, Following(new, r, vipFip[r], addFips[r]),
           checks \in [Row -> SUBSET (Monitor \X Address)], checks' = [checks EXCEPT ![r] = new]
    PROVE  ChecksFramed'
<1>1. checks'[r] = new /\ \A q \in Row \ {r} : checks'[q] = checks[q]
  OBVIOUS
<1>2. \A q \in Row : Repeated(holder, q)' = checks'[q] /\ Repeated(holder, q) = checks[q]
  BY DEF Repeated
<1>3. ASSUME NEW q \in Row PROVE Following(checks'[q], q, vipFip'[q], addFips'[q])
  <2>1. CASE q = r
    BY <1>1, <2>1
  <2>2. CASE q # r
    BY <1>1, <1>2, <2>2 DEF ChecksFramed
  <2>. QED  BY <2>1, <2>2
<1>. QED  BY <1>2, <1>3 DEF ChecksFramed

LEMMA GMonitor ==
    ASSUME VirtualIpAssumption, Serial, OneMonitor, FInv, ChecksFramed, NEW h \in Monitor,
           HmCreate(h) \/ HmDelete(h)
    PROVE  ChecksFramed'
<1>. PICK r : r = RowOf[h]
  OBVIOUS
<1>. PICK main, more, frame, old : /\ main = vipFip[r] /\ more = addFips[r]
                                   /\ frame = Frame(TRUE, main, more) /\ old = checks[r]
  OBVIOUS
<1>1. /\ UNCHANGED <<lb, ports, fip, rows, listed, vipFip, addFips, vips, agents>>
      /\ job[holder] = Idle /\ r \in Row /\ holder \in Agent
      /\ checks \in [Row -> SUBSET (Monitor \X Address)]
  BY DEF HmCreate, HmDelete, Calm, Serial, VirtualIpAssumption, FInv, TypeOK
<1>2. Following(old, r, main, more)
  <2>1. Repeated(holder, r) = old
    BY <1>1 DEF Repeated
  <2>. QED  BY <1>1, <2>1 DEF ChecksFramed
<1>3. ASSUME old # {} PROVE old = Each(h, frame)
  <2>1. PICK g \in Monitor : RowOf[g] = r /\ old = Each(g, frame)
    BY <1>2, <1>3 DEF Following
  <2>2. g = h
    BY <2>1 DEF OneMonitor
  <2>. QED  BY <2>1, <2>2
<1>4. "vip" \in frame
  BY DEF Frame, Port
<1>5. OwnedBy(old, h) = old
  <2>1. CASE old = {}
    BY <2>1 DEF OwnedBy
  <2>2. CASE old # {}
    BY <1>3, <2>2, EachOwned
  <2>. QED  BY <2>1, <2>2
<1>6. CASE HmCreate(h)
  <2>1. OwnedBy(old, h) = {}
    BY <1>6 DEF HmCreate, Checks, OwnedBy
  <2>2. old = {}
    BY <1>5, <2>1
  <2>. PICK new : new = Each(h, frame)
    OBVIOUS
  <2>4. checks' = [checks EXCEPT ![r] = new]
    <3>1. checks' = [checks EXCEPT ![r] = @ \cup new]
      BY <1>6 DEF HmCreate, Each
    <3>2. checks[r] \cup new = new
      BY <2>2
    <3>. QED  BY <3>1, <3>2
  <2>5. Following(new, r, main, more)
    BY DEF Following
  <2>. QED  BY <1>1, <2>4, <2>5, GPut DEF agents
<1>7. CASE HmDelete(h)
  <2>1. checks' = [checks EXCEPT ![r] = @ \ OwnedBy(old, h)]
    BY <1>7 DEF HmDelete, Checks, OwnedBy
  <2>2. old \ OwnedBy(old, h) = {}
    BY <1>5
  <2>3. checks' = [checks EXCEPT ![r] = {}]
    BY <2>1, <2>2
  <2>4. Following({}, r, main, more)
    BY DEF Following
  <2>. QED  BY <1>1, <2>3, <2>4, GPut DEF agents
<1>. QED  BY <1>6, <1>7

LEMMA GTake ==
    ASSUME FInv, ChecksFramed, NEW a \in Agent, Take(a)
    PROVE  ChecksFramed'
<1>. PICK req, w : req = Head(queue[a]) /\ w = req.row
  OBVIOUS
<1>. PICK j : j = [does |-> "commit", req |-> req, listed |-> w \in listed,
                   vipFip |-> vipFip[w], addFips |-> addFips[w], checks |-> checks[w]]
  OBVIOUS
<1>1. a = holder /\ job[a] = Idle
  BY DEF Take, FInv, Alone
<1>2. /\ UNCHANGED <<rows, vipFip, addFips, holder>>
      /\ \/ w \notin rows /\ UNCHANGED <<checks, job>>
         \/ /\ w \in rows
            /\ checks' = [checks EXCEPT ![w] = @ \cup Copied(w, req.what)]
            /\ job' = [job EXCEPT ![a] = j]
  BY DEF Take
<1>3. CASE UNCHANGED <<checks, job>>
  BY <1>2, <1>3, GKept
<1>4. CASE w \in rows /\ checks' = [checks EXCEPT ![w] = @ \cup Copied(w, req.what)]
                      /\ job' = [job EXCEPT ![a] = j]
  <2>1. job'[a] = j /\ j.req.row = w /\ j.checks = checks[w]
    BY <1>4 DEF FInv, TypeOK
  <2>2. j # Idle
    <3>1. j.does = "commit" /\ Idle.does = "nothing"
      BY DEF Idle
    <3>. QED  BY <3>1
  <2>3. \A q \in Row \ {w} : checks'[q] = checks[q]
    BY <1>4 DEF FInv, TypeOK
  <2>4. \A q \in Row : Repeated(holder, q)' = checks[q] /\ Repeated(holder, q) = checks[q]
    BY <1>1, <1>2, <2>1, <2>2, <2>3 DEF Repeated
  <2>. QED  BY <1>2, <2>4 DEF ChecksFramed
<1>. QED  BY <1>2, <1>3, <1>4

\* A request of a floating IP and the checks of its row.
LEMMA CommitFollows ==
    ASSUME VirtualIpAssumption, NEW j, j.req.what \in Change, NEW t \in Fips, NEW s,
           Knows(t, j.vipFip, j.addFips), Leads(t, j.req.what, s),
           NEW r, Following(j.checks, r, j.vipFip, j.addFips),
           NEW now, now = j.checks \cup
              (IF j.req.what.does = "associate"
               THEN CopiesOf(j.checks, j.req.what.port, j.req.what.fip) ELSE {}),
           NEW gone \in Removed(j)
    PROVE  Following(now \ gone, r, FipsAfter(j).main, FipsAfter(j).more)
<1>. PICK c, old : c = j.req.what /\ old = j.checks
  OBVIOUS
<1>. PICK before, after : /\ before = Frame(TRUE, j.vipFip, j.addFips)
                          /\ after = Frame(TRUE, FipsAfter(j).main, FipsAfter(j).more)
  OBVIOUS
<1>1. /\ c.does = "associate" => after = before \cup {c.fip}
      /\ c.does = "disassociate" => after = before \ {c.fip} /\ c.fip \in before
      /\ c.port \in before
  BY FrameAfter
<1>2. c.does \in {"associate", "disassociate"}
  BY ChangeTypes
<1>3. CASE old = {}
  <2>1. now = {}
    BY <1>3 DEF CopiesOf, At
  <2>. QED  BY <2>1 DEF Following
<1>4. CASE old # {}
  <2>1. PICK h \in Monitor : RowOf[h] = r /\ old = Each(h, before)
    BY <1>4 DEF Following
  <2>. PICK f, p : f = c.fip /\ p = c.port
    OBVIOUS
  <2>2. CASE c.does = "associate"
    <3>1. CopiesOf(Each(h, before), p, f) = {Check(h, f)}
      <4>1. p \in before
        BY <1>1
      <4>. QED  BY ONLY <4>1, CopyOne
    <3>2. now = Each(h, before \cup {f})
      <4>1. now = Each(h, before) \cup {Check(h, f)}
        BY <2>1, <2>2, <3>1
      <4>2. Each(h, before) \cup {Check(h, f)} = Each(h, before \cup {f})
        BY ONLY CheckParts
      <4>. QED  BY <4>1, <4>2
    <3>3. gone = {}
      BY <2>2 DEF Removed
    <3>4. now \ gone = now /\ after = before \cup {f}
      BY <1>1, <2>2, <3>3
    <3>. QED  BY <2>1, <3>2, <3>4 DEF Following
  <2>3. CASE c.does = "disassociate"
    <3>1. At(Each(h, before), f) = {Check(h, f)}
      <4>1. f \in before
        BY <1>1, <2>3
      <4>2. {e \in Each(h, before) : AddressOf(e) = f} = {Check(h, f)}
        BY ONLY <4>1, CheckParts
      <4>. QED  BY ONLY <4>2 DEF AddressOf, At
    <3>2. gone = {Check(h, f)}
      <4>. PICK found : found = At(old, f)
        OBVIOUS
      <4>1. found = {Check(h, f)}
        BY <2>1, <3>1
      <4>2. Removed(j) = IF found # {} THEN {{d} : d \in found} ELSE {{}}
        BY <2>3 DEF Removed, At
      <4>. QED  BY <4>1, <4>2
    <3>3. now \ gone = Each(h, before) \ {Check(h, f)}
      BY <2>1, <2>3, <3>2
    <3>4. Each(h, before) \ {Check(h, f)} = Each(h, before \ {f})
      BY ONLY CheckParts
    <3>5. after = before \ {f}
      BY <1>1, <2>3
    <3>. QED  BY <2>1, <3>3, <3>4, <3>5 DEF Following
  <2>. QED  BY <1>2, <2>2, <2>3
<1>. QED  BY <1>3, <1>4

LEMMA GCommit ==
    ASSUME VirtualIpAssumption, Serial, OneMonitor, FInv, Alive, ChecksFramed,
           NEW a \in Agent, Commit(a)
    PROVE  ChecksFramed'
<1>. PICK j : j = job[a]
  OBVIOUS
<1>. PICK w, main, more, now : /\ w = j.req.row /\ main = FipsAfter(j).main
                               /\ more = FipsAfter(j).more /\ now = checks[w]
  OBVIOUS
<1>1. j # Idle
  BY DEF Commit
<1>2. a = holder /\ w \in rows
  BY <1>1, JobLeads
<1>3. PICK t \in Fips, s \in Fips : Knows(t, j.vipFip, j.addFips) /\ Leads(t, j.req.what, s)
  BY <1>1, JobLeads
<1>4. /\ j \in Job /\ j.req.what \in Change /\ w \in Row
      /\ j.vipFip = vipFip[w] /\ j.addFips = addFips[w]
      /\ now = j.checks \cup
           (IF j.req.what.does = "associate"
            THEN CopiesOf(j.checks, j.req.what.port, j.req.what.fip) ELSE {})
  BY <1>1, JobTypes DEF FInv, TypeOK, JobFresh
<1>5. PICK gone \in Removed(j) :
        /\ job' = [job EXCEPT ![a] = Idle]
        /\ vipFip' = [vipFip EXCEPT ![w] = IF main = j.vipFip THEN @ ELSE main]
        /\ addFips' = [addFips EXCEPT ![w] = IF more = j.addFips THEN @ ELSE more]
        /\ checks' = [checks EXCEPT ![w] = @ \ gone]
        /\ UNCHANGED holder
  BY <1>2 DEF Commit
<1>6. /\ vipFip'[w] = main /\ addFips'[w] = more /\ checks'[w] = now \ gone
      /\ \A r \in Row \ {w} : /\ vipFip'[r] = vipFip[r] /\ addFips'[r] = addFips[r]
                              /\ checks'[r] = checks[r]
      /\ job'[a] = Idle
  BY <1>4, <1>5 DEF FInv, TypeOK
<1>7. Repeated(holder, w) = j.checks /\ \A r \in Row \ {w} : Repeated(holder, r) = checks[r]
  BY <1>1, <1>2 DEF Repeated
<1>8. \A r \in Row : Repeated(holder, r)' = checks'[r]
  BY <1>2, <1>5, <1>6 DEF Repeated
<1>9. Following(j.checks, w, j.vipFip, j.addFips)
  BY <1>4, <1>7 DEF ChecksFramed
<1>10. Following(now \ gone, w, main, more)
  BY <1>3, <1>4, <1>5, <1>9, CommitFollows
<1>11. ASSUME NEW r \in Row \ {w} PROVE Following(checks'[r], r, vipFip'[r], addFips'[r])
  BY <1>6, <1>7 DEF ChecksFramed
<1>12. Following(checks'[w], w, vipFip'[w], addFips'[w])
  BY <1>6, <1>10
<1>. QED  BY <1>8, <1>11, <1>12 DEF ChecksFramed

LEMMA GStep ==
    ASSUME VirtualIpAssumption, Serial, OneMonitor, GInv, [Next]_vars
    PROVE  GInv'
<1>1. FInv /\ FInv'
  BY FStep DEF GInv
<1>. SUFFICES ASSUME Alive' PROVE ChecksFramed'
  BY <1>1 DEF GInv
<1>2. CASE UNCHANGED <<checks, vipFip, addFips, job, holder>> /\ Alive
  BY <1>2, GKept DEF GInv
<1>3. CASE CreatePorts
  BY <1>2, <1>3 DEF CreatePorts, nb, agents, Alive
<1>4. CASE LbDelete
  BY <1>4 DEF LbDelete, Alive
<1>5. CASE LockMoves
  <2>1. /\ \A a \in Agent : job[a] = Idle /\ holder' \in Agent /\ holder \in Agent
        /\ UNCHANGED <<lb, nb, job>>
    BY <1>1, <1>5 DEF LockMoves, Serial, Settled, FInv, TypeOK
  <2>2. job'[holder'] = job[holder]
    BY <1>1, <1>5 DEF LockMoves, Serial, Settled, FInv, TypeOK
  <2>3. Alive
    BY <1>5 DEF LockMoves, Alive
  <2>4. UNCHANGED <<checks, vipFip, addFips>>
    BY <1>5 DEF LockMoves, nb
  <2>. QED  BY <2>2, <2>3, <2>4, GKept DEF GInv
<1>6. ASSUME NEW r \in Row, LbCreate(r) PROVE ChecksFramed'
  BY <1>2, <1>6 DEF LbCreate, agents, Alive
<1>7. ASSUME NEW r \in Row, NewRow(r) PROVE ChecksFramed'
  <2>1. Alive /\ UNCHANGED <<checks, agents>> /\ r \notin rows
    BY <1>7 DEF NewRow, Alive
  <2>2. job[holder] = Idle
    BY <1>1, <1>7 DEF NewRow, Serial, Settled, FInv, TypeOK
  <2>3. \A q \in Row \ {r} : vipFip'[q] = vipFip[q] /\ addFips'[q] = addFips[q]
    BY <1>1, <1>7 DEF NewRow, CopyFips, FInv, TypeOK
  <2>4. checks[r] = {}
    BY <1>1, <2>1 DEF FInv, Blank
  <2>5. \A q \in Row : Repeated(holder, q) = checks[q] /\ Repeated(holder, q)' = checks[q]
    BY <2>1, <2>2 DEF Repeated, agents
  <2>6. Following({}, r, vipFip'[r], addFips'[r])
    BY DEF Following
  <2>7. \A q \in Row \ {r} : Following(checks[q], q, vipFip[q], addFips[q])
    BY <2>1, <2>5 DEF GInv, ChecksFramed
  <2>. QED  BY <2>3, <2>4, <2>5, <2>6, <2>7 DEF ChecksFramed
<1>8. ASSUME NEW r \in Row, MemberChange(r) PROVE ChecksFramed'
  BY <1>2, <1>8 DEF MemberChange, agents, Alive
<1>9. ASSUME NEW h \in Monitor, HmCreate(h) \/ HmDelete(h) PROVE ChecksFramed'
  <2>1. Alive
    BY <1>9 DEF HmCreate, HmDelete, Alive
  <2>. QED  BY <1>1, <1>9, <2>1, GMonitor DEF GInv
<1>10. ASSUME NEW p \in Port, FipDisassociate(p) \/ \E f \in Fip : FipAssociate(p, f)
       PROVE  ChecksFramed'
  BY <1>2, <1>10 DEF FipDisassociate, FipAssociate, nb, Alive
<1>11. ASSUME NEW a \in Agent, AgentStep(a) PROVE ChecksFramed'
  <2>1. Alive
    BY <1>11 DEF AgentStep, Notified, Take, Commit, Alive
  <2>2. Notified(a) => UNCHANGED <<checks, vipFip, addFips, job, holder>>
    BY DEF Notified, nb
  <2>. QED  BY <1>1, <1>2, <1>11, <2>1, <2>2, GTake, GCommit DEF AgentStep, GInv
<1>12. CASE UNCHANGED vars
  BY <1>2, <1>12 DEF vars, nb, agents, Alive
<1>. QED  BY <1>3, <1>4, <1>5, <1>6, <1>7, <1>8, <1>9, <1>10, <1>11, <1>12 DEF Next

\* A monitor has a health check for each address of its row and for no other, when
\* no row has two monitors: a floating IP that goes takes one check with it
\* (handle_vip_fip, _add_lbhc).
THEOREM ChecksFollowFips == Serial /\ OneMonitor /\ Spec => []ChecksFollow
<1>. SUFFICES ASSUME Serial, OneMonitor PROVE Spec => []ChecksFollow
  OBVIOUS
<1>1. Init => GInv
  <2>. SUFFICES ASSUME Init PROVE GInv
    OBVIOUS
  <2>1. \A r \in Row : Repeated(holder, r) = {}
    BY VirtualIpAssumption DEF Init, Repeated
  <2>. QED  BY <2>1, FInit, VirtualIpAssumption DEF GInv, ChecksFramed, Following
<1>2. GInv /\ [Next]_vars => GInv'
  BY GStep, VirtualIpAssumption
<1>3. GInv => ChecksFollow
  <2>. SUFFICES ASSUME GInv, Settled, lb = "active", NEW h \in Monitor,
                       Checks(RowOf[h], h) # {}
                PROVE  Checks(RowOf[h], h) = {h} \X Wanted
    BY DEF ChecksFollow
  <2>. PICK r : r = RowOf[h]
    OBVIOUS
  <2>1. r \in Row /\ checks[r] # {} /\ job[holder] = Idle /\ FInv /\ Alive
    BY VirtualIpAssumption DEF Checks, VirtualIpAssumption, Settled, GInv, FInv, TypeOK, Alive
  <2>. PICK old, main, more : old = checks[r] /\ main = vipFip[r] /\ more = addFips[r]
    OBVIOUS
  <2>2. old = Each(h, Frame(TRUE, main, more))
    <3>1. Repeated(holder, r) = old
      BY <2>1 DEF Repeated
    <3>2. Following(old, r, main, more)
      BY <2>1, <3>1 DEF GInv, ChecksFramed
    <3>3. PICK g \in Monitor : RowOf[g] = r /\ old = Each(g, Frame(TRUE, main, more))
      BY <2>1, <3>2 DEF Following
    <3>4. g = h
      BY <3>3 DEF OneMonitor
    <3>. QED  BY <3>3, <3>4
  <2>3. r \in rows
    BY <2>1 DEF FInv, Blank
  <2>4. Frame(TRUE, vipFip[r], addFips[r]) = Wanted
    BY <2>1, <2>3, SettledServes, VirtualIpAssumption
  <2>5. old = Each(h, Wanted)
    BY <2>2, <2>4
  <2>6. OwnedBy(old, h) = old
    BY <2>5, EachOwned
  <2>7. Checks(r, h) = old
    BY <2>6 DEF Checks, OwnedBy
  <2>. QED  BY <2>5, <2>7 DEF Each
<1>. QED  BY <1>1, <1>2, <1>3, PTL DEF Spec

=============================================================================
