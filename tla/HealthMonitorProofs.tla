------------------------ MODULE HealthMonitorProofs ------------------------
(***************************************************************************)
(* What is proved of HealthMonitor.  In every world: the types, that no    *)
(* entry of the map of statuses is lost and that probed members stay       *)
(* probed; the two latter until both processes have had the map at once.   *)
(* With handlers that do not overlap: that Octavia shows the load balancer *)
(* no better than its members and that statuses follow the probes, which   *)
(* needs, besides, one member per address and port, found in its text by   *)
(* that address only.                                                      *)
(***************************************************************************)
EXTENDS HealthMonitor, TLAPS

-----------------------------------------------------------------------------
(* The worlds                                                              *)

Serial == Overlap = FALSE

\* The text of a member names no address and port but its own.
ExactTexts == \A m \in Member : Texts[m] = {AddrOf[m]}

\* No two members have one address and port.
OneMemberPerAddr == \A m, n \in Member : AddrOf[m] = AddrOf[n] => m = n

-----------------------------------------------------------------------------
(* The invariants                                                          *)

Mon(op) == op \in {"hm_create", "hm_delete"}

\* What may follow the writes of an operation.
Then(op) ==
    IF op = "hm_create" THEN {"lbhc", "map", "report"}
    ELSE IF op = "hm_delete" THEN {"clean"}
    ELSE IF op = "member_update" THEN {"refresh", "report"}
    ELSE {"report"}

\* Where a request can be: it goes on when everything is written.
Course ==
    api # Idle =>
        /\ IF Mon(api.op) THEN api.on \in Pool ELSE api.on \in Member
        /\ api.then \in Then(api.op)
        /\ IF api.todo = {} THEN api.phase \in Then(api.op)
                            ELSE api.phase \in {"read", "write"}
        /\ api.op = "hm_create" /\ api.todo = {} => api.phase = api.then

TInv == TypeOK /\ Course

Homes == \A p \in Pool : \A m \in members[p] : PoolOf[m] = p

\* What a request writes fits what is listed.
Writes ==
    api # Idle =>
        /\ \A e \in api.todo : (e[2] = "none") = (e[1] \notin Listed)
        /\ ~Mon(api.op) => \A e \in api.todo : e[1] = api.on
        /\ Mon(api.op) => \A e \in api.todo : e[1] \in members[api.on]
        /\ api.op = "hm_create" => api.left \subseteq members[api.on]
        /\ api.op = "hm_delete" => \A e \in api.todo : e[2] = "NO_MONITOR"
        /\ api.op = "member_delete" => \A e \in api.todo : e[2] = "none"

\* True in every world.
BInv == TInv /\ Homes /\ Writes

\* As long as the two have not had the map at once: what either has read is what the
\* row says,
Fresh ==
    /\ ~BothInMap
    /\ api # Idle /\ api.phase = "write" => api.seen = status
    /\ agent # Idle /\ agent.op = "write" => agent.seen = status

\* the entry the agent is about to write is of a member of the row, or of one whose
\* deletion has not read the map yet,
Hears ==
    agent # Idle /\ agent.op = "write" =>
        /\ agent.value \in {"ONLINE", "ERROR"}
        /\ \/ agent.on \in Listed
           \/ /\ api # Idle /\ api.op = "member_delete" /\ api.on = agent.on
              /\ api.phase = "read"

\* and an entry is missing, or left over, only until the next write of the request.
Pending(m) ==
    /\ api # Idle /\ api.op \in {"member_create", "member_delete"}
    /\ api.on = m /\ api.todo # {}

Complete == \A m \in Member : Pending(m) \/ (status[m] # "none") = (m \in Listed)

Whole == Fresh /\ Hears /\ Complete

EInv == BInv /\ (~crossed => Whole)

\* One handler at a time: the two never have the map at once.
Alone == api = Idle \/ agent = Idle

SInv == BInv /\ Whole /\ Alone

\* Nothing was written since the load balancer was reported, or NO_MONITOR only.
NotTooGood ==
    \A p \in Pool :
        /\ (\E m \in members[p] : status[m] = "ERROR") => oTop \in {"DEGRADED", "ERROR"}
        /\ members[p] # {} /\ (\A m \in members[p] : status[m] = "ERROR") =>
              oTop = "ERROR"

GInv ==
    ~faulted /\ agent = Idle /\ (api = Idle \/ api.op = "hm_delete") => NotTooGood

\* Members whose address a switch port has.
Found(m) == IpOf[AddrOf[m]] \in Located

\* Octavia's monitor is ACTIVE with its health check only, and ABSENT until
\* hm_create has answered.
Kept ==
    /\ \A p \in Pool : oHm[p] = "ACTIVE" => p \in hms
    /\ api # Idle /\ api.op = "hm_create" =>
         /\ oHm[api.on] = "ABSENT"
         /\ api.then # "lbhc" => api.on \in hms

Deleting(p) == api # Idle /\ api.op = "hm_delete" /\ api.on = p

\* No member of a pool with a health check has the status NO_MONITOR, which
\* _clean_ip_port_mappings takes as leave to remove its mapping: hm_create has
\* written ONLINE before it adds the check, and nobody writes NO_MONITOR back but
\* hm_delete.
Awake ==
    /\ \A p \in hms : ~Deleting(p) => \A m \in members[p] : status[m] # "NO_MONITOR"
    /\ api # Idle /\ api.op = "hm_create" =>
         \A m \in members[api.on] : status[m] # "NO_MONITOR" \/ <<m, "ONLINE">> \in api.todo
    /\ api # Idle /\ api.op # "hm_delete" =>
         \A e \in api.todo : e[2] = "NO_MONITOR" =>
            PoolOf[e[1]] \notin hms /\ api.op # "hm_create"

PInv == Kept /\ (~crossed => Awake)

\* The last event for the address that waits says this; no event waits for it.
LastSays(evs, a, state) ==
    \E k \in 1..Len(evs) :
        /\ evs[k].addr = a /\ evs[k].state = state
        /\ \A j \in 1..Len(evs) : j > k => evs[j].addr # a

NoneFor(evs, a) == \A k \in 1..Len(evs) : evs[k].addr # a

Waits(m) == LastSays(events, AddrOf[m], health[AddrOf[m]])

WriteDue(m) == agent # Idle /\ agent.op = "write" /\ agent.on = m

\* The entry of a member is what the last probe found, or will be.
Heard(m) ==
    \/ Waits(m)
    \/ /\ NoneFor(events, AddrOf[m])
       /\ WriteDue(m) => agent.value = Verdict(health[AddrOf[m]])
       /\ ~WriteDue(m) => status[m] = Verdict(health[AddrOf[m]])

\* Members that stop being probed when the request is done.
Stops(m) ==
    /\ api # Idle
    /\ \/ api.op = "hm_delete" /\ m \in members[api.on]
       \/ /\ api.op = "member_update" /\ m = api.on /\ api.phase # "report"
          /\ api.now = "OFFLINE" /\ api.was # "OFFLINE"

\* Members that were not probed when the request began.
Starts(m) ==
    /\ api # Idle
    /\ \/ api.op = "hm_create" /\ m \in members[api.on]
       \/ api.op = "member_create" /\ m = api.on

\* Without a health check there is no key: hm_create is between the two.
Keyed ==
    \A p \in hms : oHm[p] = "ABSENT" => api # Idle /\ api.op = "hm_create" /\ api.on = p

\* ovn-northd had caught up when the request began, and still has.
CaughtUp ==
    api # Idle /\ (Mon(api.op) \/ (api.op = "member_update" /\ api.then = "refresh")) =>
        NorthdCaughtUp

\* What a member update is about to write, or has written.
Updating ==
    api # Idle /\ api.op = "member_update" /\ api.phase # "report" =>
        /\ hms = {} \/ api.now \in {api.was, "OFFLINE"}
        /\ api.todo # {} => api.todo = {<<api.on, api.now>>} /\ status[api.on] = api.was
        /\ api.todo = {} => status[api.on] = api.now
        /\ api.then = "refresh"

Followed ==
    \A m \in Listed : health[AddrOf[m]] # "none" =>
        /\ Starts(m) => Waits(m)
        /\ Monitored(AddrOf[m]) /\ ~Stops(m) => Heard(m)

HInv == Keyed /\ CaughtUp /\ Updating /\ Followed

-----------------------------------------------------------------------------
(* Types                                                                   *)

Work == [op : Op, on : Pool \cup Member, phase : Phase, then : Phase,
         todo : SUBSET (Member \X Entry), left : SUBSET Member, seen : Statuses,
         was : Entry, now : Entry]

LEMMA WorkIs ==
    ASSUME api \in ApiState, api # Idle
    PROVE  api \in Work
BY DEF ApiState, Work

\* What the two kinds of steps of a request make of its record.
LEMMA StartIs ==
    ASSUME NEW op \in Op, NEW on, IF Mon(op) THEN on \in Pool ELSE on \in Member,
           NEW todo \in SUBSET (Member \X Entry), NEW then \in Then(op),
           NEW left \in SUBSET Member, Start(op, on, todo, then, left)
    PROVE  /\ api' \in ApiState /\ Course' /\ locked' = TRUE
           /\ api' # Idle /\ api'.op = op /\ api'.on = on /\ api'.todo = todo
           /\ api'.then = then /\ api'.left = left /\ api'.phase # "write"
<1>1. then \in Phase
  BY DEF Then, Phase
<1>2. NoStatus \in Statuses
  BY DEF NoStatus, Statuses, Entry
<1>3. api' \in Work
  BY <1>1, <1>2 DEF Start, Work, Phase, Entry, Mon
<1>4. api' # Idle
  BY DEF Start, Idle, Op
<1> QED
  BY <1>3, <1>4 DEF Start, Course, Then, ApiState, Work

LEMMA GoOnIs ==
    ASSUME api \in ApiState, api # Idle, Course,
           NEW todo \in SUBSET (Member \X Entry), NEW then \in Then(api.op),
           NEW left \in SUBSET Member, GoOn(todo, then, left)
    PROVE  /\ api' \in ApiState /\ Course'
           /\ api' # Idle /\ api'.op = api.op /\ api'.on = api.on /\ api'.todo = todo
           /\ api'.then = then /\ api'.left = left /\ api'.phase # "write"
           /\ api'.was = api.was /\ api'.now = api.now
<1>1. then \in Phase
  BY DEF Then, Phase
<1>2. api \in Work
  BY WorkIs
<1>3. api' \in Work
  BY <1>1, <1>2 DEF GoOn, Work, Phase
<1>4. api' # Idle
  BY <1>2 DEF GoOn, Idle, Op, Work
<1> QED
  BY <1>2, <1>3, <1>4 DEF GoOn, Course, Then, ApiState, Work

LEMMA AnswerIs ==
    ASSUME oMember \in [Member -> Told], NEW told,
           \A m \in DOMAIN told : told[m] \in Told, Answer(told)
    PROVE  locked' \in BOOLEAN /\ api' \in ApiState /\ Course' /\ api' = Idle
           /\ oMember' \in [Member -> Told]
BY DEF Answer, Knowing, ApiState, Course

LEMMA ReadIs ==
    ASSUME TypeOK, Course, EntryRead
    PROVE  /\ api' \in ApiState /\ Course' /\ api' # Idle
           /\ api' = [api EXCEPT !.phase = "write", !.seen = status]
           /\ api'.op = api.op /\ api'.on = api.on /\ api'.todo = api.todo
           /\ api'.then = api.then /\ api'.left = api.left
           /\ api'.was = api.was /\ api'.now = api.now
           /\ api'.phase = "write" /\ api'.seen = status
<1>1. api \in Work
  BY WorkIs DEF EntryRead, TypeOK
<1>2. api' \in Work
  BY <1>1 DEF EntryRead, Work, Phase, TypeOK
<1>3. api' # Idle
  BY <1>1 DEF EntryRead, Idle, Op, Work
<1>4. api.todo # {}
  BY DEF EntryRead, Course, Then
<1> QED
  BY <1>1, <1>2, <1>3, <1>4 DEF EntryRead, Course, Then, ApiState, Work

LEMMA WriteIs ==
    ASSUME TypeOK, Course, EntryWrite
    PROVE  /\ api' \in ApiState /\ Course' /\ api' # Idle /\ status' \in Statuses
           /\ api'.op = api.op /\ api'.on = api.on
           /\ api'.then = api.then /\ api'.left = api.left
           /\ api'.was = api.was /\ api'.now = api.now
           /\ api'.phase # "write"
           /\ \E e \in api.todo : /\ e \in Member \X Entry /\ api'.todo = api.todo \ {e}
                                  /\ status' = [api.seen EXCEPT ![e[1]] = e[2]]
                                  /\ api'.todo = {} => api'.phase = api.then
<1>1. api \in Work
  BY WorkIs DEF EntryWrite, TypeOK
<1>2. PICK e \in api.todo :
         /\ status' = [api.seen EXCEPT ![e[1]] = e[2]]
         /\ api' = [api EXCEPT !.todo = @ \ {e}, !.seen = NoStatus,
                       !.phase = IF api.todo = {e} THEN api.then ELSE "read"]
  BY DEF EntryWrite, WithEntry
<1>3. e \in Member \X Entry
  BY <1>1 DEF Work
<1>4. NoStatus \in Statuses
  BY DEF NoStatus, Statuses, Entry
<1>5. api' \in Work
  BY <1>1, <1>2, <1>4 DEF Work, Phase
<1>6. api' # Idle
  BY <1>1, <1>2 DEF Idle, Op, Work
<1>7. status' \in Statuses
  BY <1>1, <1>2, <1>3 DEF Work, Statuses
<1>8. api # Idle
  BY DEF EntryWrite
<1>9. api.then # "write"
  BY <1>8 DEF Course, Then
<1>10. /\ api'.op = api.op /\ api'.on = api.on /\ api'.then = api.then /\ api'.left = api.left
       /\ api'.was = api.was /\ api'.now = api.now /\ api'.todo = api.todo \ {e}
       /\ api'.phase = IF api.todo = {e} THEN api.then ELSE "read"
  BY <1>1, <1>2 DEF Work
<1>11. api'.todo = {} <=> api.todo = {e}
  BY <1>10
<1>12. Course'
  BY <1>6, <1>8, <1>10, <1>11 DEF Course
<1> QED
  BY <1>2, <1>3, <1>5, <1>6, <1>7, <1>9, <1>10, <1>11, <1>12 DEF ApiState, Work

LEMMA TopIs == ASSUME NEW stat PROVE Top(stat) \in Operating
BY DEF Top, WorstOf, Operating

LEMMA EntriesAre ==
    ASSUME status \in Statuses
    PROVE  /\ DOMAIN Entries \subseteq Member
           /\ \A m \in DOMAIN Entries : Entries[m] \in Told
BY DEF Entries, Statuses, Told

LEMMA HmMemberIs ==
    ASSUME TypeOK, NEW m \in Member, NEW delete \in BOOLEAN, NEW h \in HmMember(m, delete)
    PROVE  h.ports \subseteq Subnet /\ h.map \subseteq Ip
           /\ h.result \in {"ERROR", "ONLINE", "none"}
BY HealthAssumption DEF HmMember, TypeOK

LEMMA TInvInit == Init => TInv
<1> SUFFICES ASSUME Init PROVE TInv
  OBVIOUS
<1>1. status \in Statuses
  BY DEF Init, Statuses, NoStatus, Entry
<1>2. api \in ApiState /\ agent \in AgentState /\ Course
  BY DEF Init, ApiState, AgentState, Course
<1>3. oMember \in [Member -> Told] /\ oTop \in Operating
  BY DEF Init, Told, Operating
<1>4. members \in [Pool -> SUBSET Member] /\ oHm \in [Pool -> {"ABSENT", "ACTIVE", "ERROR"}]
      /\ health \in [Addr -> {"none", "online", "offline"}]
  BY DEF Init
<1>5. events \in Seq([addr : Addr, state : {"online", "offline"}])
  BY DEF Init
<1> QED
  BY <1>1, <1>2, <1>3, <1>4, <1>5 DEF Init, TInv, TypeOK

\* The agent has nothing to do with what a request keeps.
LEMMA TInvApi ==
    ASSUME TInv, ApiStep
    PROVE  TInv'
<1> USE DEF TInv
<1>1. CASE EntryRead
  <2>1. api' \in ApiState /\ Course'
    BY <1>1, ReadIs
  <2> QED
    BY <1>1, <2>1 DEF EntryRead, TypeOK, row, neutron, octavia
<1>2. CASE EntryWrite
  <2>1. api' \in ApiState /\ Course' /\ status' \in Statuses
    BY <1>2, WriteIs
  <2> QED
    BY <1>2, <2>1 DEF EntryWrite, TypeOK, neutron, octavia
<1>3. CASE HmAddLbhc
  <2>1. api \in ApiState /\ api # Idle /\ api \in Work
    BY <1>3, WorkIs DEF HmAddLbhc, TypeOK
  <2>2. api.op = "hm_create" /\ api.on \in Pool
    BY <1>3, <2>1 DEF HmAddLbhc, Course, Then, Mon, Work, Op
  <2>3. CASE /\ hms' = hms \cup {api.on}
             /\ GoOn({}, IF api.left = {} THEN "report" ELSE "map", api.left)
             /\ UNCHANGED <<locked, oMember, oHm, faulted>>
    <3>1. (IF api.left = {} THEN "report" ELSE "map") \in Then(api.op)
      BY <2>2 DEF Then
    <3>2. api.left \in SUBSET Member
      BY <2>1 DEF Work
    <3>3. api' \in ApiState /\ Course'
      BY <2>1, <2>3, <3>1, <3>2, GoOnIs
    <3> QED
      BY <1>3, <2>2, <2>3, <3>3 DEF HmAddLbhc, TypeOK
  <2>4. CASE /\ faulted' = TRUE
             /\ oHm' = [oHm EXCEPT ![api.on] = "ERROR"]
             /\ Answer([m \in members[api.on] |-> "ONLINE"])
             /\ UNCHANGED hms
    <3>1. locked' \in BOOLEAN /\ api' \in ApiState /\ Course' /\ oMember' \in [Member -> Told]
      BY <2>4, AnswerIs DEF TypeOK, Told, Entry
    <3> QED
      BY <1>3, <2>4, <3>1 DEF HmAddLbhc, TypeOK
  <2> QED
    BY <1>3, <2>3, <2>4 DEF HmAddLbhc
<1>4. CASE HmMapMember
  <2>1. api \in ApiState /\ api # Idle /\ api \in Work
    BY <1>4, WorkIs DEF HmMapMember, TypeOK
  <2>2. api.op = "hm_create" /\ api.on \in Pool
    BY <1>4, <2>1 DEF HmMapMember, Course, Then, Mon, Work, Op
  <2>8. PICK m \in api.left : \E h \in HmMember(m, FALSE) :
          LET left == api.left \ {m}
          IN  /\ hmPort' = h.ports
              /\ faulted' = (faulted \/ h.result = "none")
              /\ \/ /\ h.result # "none"
                    /\ mapping' = h.map
                    /\ GoOn({<<m, h.result>>}, IF left = {} THEN "report" ELSE "map", left)
                    /\ UNCHANGED <<locked, oMember, oHm>>
                 \/ /\ h.result = "none"
                    /\ mapping' = CleanMapping(api.on)
                    /\ oHm' = [oHm EXCEPT ![api.on] = "ERROR"]
                    /\ Answer([x \in members[api.on] |-> "ONLINE"])
    BY <1>4 DEF HmMapMember
  <2>3. PICK h \in HmMember(m, FALSE) :
           /\ hmPort' = h.ports
           /\ faulted' = (faulted \/ h.result = "none")
           /\ \/ /\ h.result # "none"
                 /\ mapping' = h.map
                 /\ GoOn({<<m, h.result>>},
                         IF api.left \ {m} = {} THEN "report" ELSE "map", api.left \ {m})
                 /\ UNCHANGED <<locked, oMember, oHm>>
              \/ /\ h.result = "none"
                 /\ mapping' = CleanMapping(api.on)
                 /\ oHm' = [oHm EXCEPT ![api.on] = "ERROR"]
                 /\ Answer([x \in members[api.on] |-> "ONLINE"])
    BY <2>8
  <2>4. m \in Member
    BY <2>1 DEF Work
  <2>5. h.ports \subseteq Subnet /\ h.map \subseteq Ip /\ h.result \in {"ERROR", "ONLINE", "none"}
    BY <2>4, HmMemberIs
  <2>6. CASE h.result # "none"
    <3>1. (IF api.left \ {m} = {} THEN "report" ELSE "map") \in Then(api.op)
      BY <2>2 DEF Then
    <3>2. api.left \ {m} \in SUBSET Member
      BY <2>1 DEF Work
    <3>3. {<<m, h.result>>} \in SUBSET (Member \X Entry)
      BY <2>4, <2>5 DEF Entry
    <3>4. api' \in ApiState /\ Course'
      BY <2>1, <2>3, <2>6, <3>1, <3>2, <3>3, GoOnIs
    <3> QED
      BY <1>4, <2>3, <2>5, <2>6, <3>4 DEF HmMapMember, TypeOK
  <2>7. CASE h.result = "none"
    <3>1. locked' \in BOOLEAN /\ api' \in ApiState /\ Course' /\ oMember' \in [Member -> Told]
      BY <2>3, <2>7, AnswerIs DEF TypeOK, Told, Entry
    <3> QED
      BY <1>4, <2>3, <2>5, <2>7, <3>1 DEF HmMapMember, TypeOK, CleanMapping
  <2> QED
    BY <2>6, <2>7
<1>5. CASE HmClean
  <2>1. locked' \in BOOLEAN /\ api' \in ApiState /\ Course' /\ oMember' \in [Member -> Told]
    BY <1>5, AnswerIs DEF HmClean, TypeOK, Told, Entry
  <2> QED
    BY <1>5, <2>1 DEF HmClean, TypeOK, CleanMapping, CleanUpPort
<1>6. CASE MemberRefresh
  <2>1. api \in ApiState /\ api # Idle /\ api \in Work
    BY <1>6, WorkIs DEF MemberRefresh, TypeOK
  <2>2. "report" \in Then(api.op)
    BY <1>6, <2>1 DEF MemberRefresh, Course, Then
  <2>3. api' \in ApiState /\ Course'
    BY <1>6, <2>1, <2>2, GoOnIs DEF MemberRefresh
  <2> QED
    BY <1>6, <2>3 DEF MemberRefresh, TypeOK, FrameVips, neutron, octavia
<1>7. CASE Report
  <2>1. api \in Work
    BY <1>7, WorkIs DEF Report, TypeOK
  <2> DEFINE told == CASE api.op = "member_delete" -> [m \in {api.on} |-> "absent"]
                       [] api.op = "member_update" -> [m \in {api.on} |-> api.now]
                       [] OTHER                    -> Entries
  <2>2. \A m \in DOMAIN told : told[m] \in Told
    <3>1. CASE api.op = "member_delete"
      <4>1. told = [m \in {api.on} |-> "absent"]
        BY <3>1
      <4> HIDE DEF told
      <4> QED
        BY <4>1 DEF Told
    <3>2. CASE api.op = "member_update"
      <4>1. told = [m \in {api.on} |-> api.now]
        BY <3>2
      <4> HIDE DEF told
      <4> QED
        BY <2>1, <4>1 DEF Told, Work
    <3>3. CASE api.op \notin {"member_delete", "member_update"}
      <4>1. told = Entries
        BY <3>3
      <4> HIDE DEF told
      <4> QED
        BY <4>1, EntriesAre DEF TypeOK
    <3> QED
      BY <3>1, <3>2, <3>3
  <2>3. Answer(told)
    BY <1>7 DEF Report
  <2> HIDE DEF told
  <2>4. locked' \in BOOLEAN /\ api' \in ApiState /\ Course' /\ oMember' \in [Member -> Told]
    BY <2>2, <2>3, AnswerIs DEF TypeOK
  <2> QED
    BY <1>7, <2>4, TopIs DEF Report, TypeOK, row, neutron
<1> QED
  BY <1>1, <1>2, <1>3, <1>4, <1>5, <1>6, <1>7 DEF ApiStep

LEMMA TInvBegin ==
    ASSUME TInv,
           \/ \E p \in Pool : HmCreate(p) \/ HmUpdate(p) \/ HmDelete(p)
           \/ \E m \in Member :
                 \/ \E up \in BOOLEAN : MemberCreate(m, up)
                 \/ \E how \in Updates : MemberUpdate(m, how)
                 \/ MemberDelete(m)
    PROVE  TInv'
<1> USE DEF TInv
<1>1. CASE \E p \in Pool : HmCreate(p)
  <2>1. PICK p \in Pool : HmCreate(p)
    BY <1>1
  <2>2. members[p] \X {"ONLINE"} \in SUBSET (Member \X Entry) /\ members[p] \in SUBSET Member
    BY DEF TypeOK, Entry
  <2>3. "hm_create" \in Op /\ "lbhc" \in Then("hm_create") /\ Mon("hm_create")
    BY DEF Op, Then, Mon
  <2>4. api' \in ApiState /\ Course' /\ locked' = TRUE
    BY <2>1, <2>2, <2>3, StartIs DEF HmCreate
  <2> QED
    BY <2>1, <2>4 DEF HmCreate, TypeOK, row, neutron
<1>2. CASE \E p \in Pool : HmUpdate(p)
  <2>1. PICK p \in Pool : HmUpdate(p)
    BY <1>2
  <2> QED
    BY <2>1 DEF HmUpdate, TypeOK, row, neutron, Course
<1>3. CASE \E p \in Pool : HmDelete(p)
  <2>1. PICK p \in Pool : HmDelete(p)
    BY <1>3
  <2>2. members[p] \X {"NO_MONITOR"} \in SUBSET (Member \X Entry) /\ {} \in SUBSET Member
    BY DEF TypeOK, Entry
  <2>3. "hm_delete" \in Op /\ "clean" \in Then("hm_delete") /\ Mon("hm_delete")
    BY DEF Op, Then, Mon
  <2>4. api' \in ApiState /\ Course' /\ locked' = TRUE
    <3>1. CASE p \in hms
      BY <2>1, <2>2, <2>3, <3>1, StartIs DEF HmDelete
    <3>2. CASE p \notin hms
      BY <2>1, <3>2 DEF HmDelete, TypeOK, Course
    <3> QED
      BY <3>1, <3>2
  <2> QED
    BY <2>1, <2>4 DEF HmDelete, TypeOK, row, neutron
<1>4. CASE \E m \in Member : \E up \in BOOLEAN : MemberCreate(m, up)
  <2>1. PICK m \in Member, up \in BOOLEAN : MemberCreate(m, up)
    BY <1>4
  <2> DEFINE joined == [members EXCEPT ![PoolOf[m]] = @ \cup {m}]
  <2>2. joined \in [Pool -> SUBSET Member]
    BY HealthAssumption DEF TypeOK
  <2>3. "member_create" \in Op /\ "report" \in Then("member_create") /\ ~Mon("member_create")
    BY DEF Op, Then, Mon
  <2>4. FrameVips(joined, status) \subseteq Member
    BY <2>2 DEF FrameVips
  <2>5. members' = joined /\ vips' \subseteq Member
    BY <2>1, <2>4 DEF MemberCreate, TypeOK
  <2>6. /\ hmPort' \subseteq Subnet /\ mapping' \subseteq Ip /\ faulted' \in BOOLEAN
        /\ \E result \in Entry : Start("member_create", m, {<<m, result>>}, "report", {})
    <3>1. CASE up /\ hms # {}
      <4>1. PICK h \in HmMember(m, FALSE) :
               /\ hmPort' = h.ports
               /\ mapping' = h.map
               /\ faulted' = (faulted \/ h.result = "none")
               /\ Start("member_create", m,
                        {<<m, IF h.result = "ONLINE" THEN "ONLINE" ELSE "ERROR">>}, "report", {})
        BY <2>1, <3>1 DEF MemberCreate
      <4>2. h.ports \subseteq Subnet /\ h.map \subseteq Ip
        BY HmMemberIs
      <4> QED
        BY <4>1, <4>2 DEF Entry, TypeOK
    <3>2. CASE ~(up /\ hms # {})
      <4>1. Start("member_create", m, {<<m, IF up THEN "NO_MONITOR" ELSE "OFFLINE">>}, "report", {})
            /\ UNCHANGED <<neutron, mapping>>
        BY <2>1, <3>2 DEF MemberCreate
      <4> QED
        BY <4>1 DEF Entry, TypeOK, neutron
    <3> QED
      BY <3>1, <3>2
  <2>7. PICK result \in Entry : Start("member_create", m, {<<m, result>>}, "report", {})
    BY <2>6
  <2>8. {<<m, result>>} \in SUBSET (Member \X Entry) /\ {} \in SUBSET Member
    OBVIOUS
  <2>9. api' \in ApiState /\ Course' /\ locked' = TRUE
    BY <2>3, <2>7, <2>8, StartIs
  <2>10. oMember' \in [Member -> Told]
    BY <2>1 DEF MemberCreate, TypeOK, Told, Entry
  <2> QED
    BY <2>1, <2>2, <2>5, <2>6, <2>9, <2>10 DEF MemberCreate, TypeOK
<1>5. CASE \E m \in Member : \E how \in Updates : MemberUpdate(m, how)
  <2>1. PICK m \in Member, how \in Updates : MemberUpdate(m, how)
    BY <1>5
  <2> DEFINE entry == IF how = "disable" THEN "OFFLINE"
                      ELSE IF hms = {} \/ status[m] = "none" THEN "NO_MONITOR" ELSE status[m]
             now == IF how = "touch" THEN "NO_MONITOR" ELSE entry
  <2>2. entry \in Entry /\ now \in Entry /\ status[m] \in Entry
    BY DEF TypeOK, Statuses, Entry
  <2> HIDE DEF now
  <2>3. api' = [op |-> "member_update", on |-> m, left |-> {}, seen |-> NoStatus,
                todo |-> IF how = "touch" THEN {} ELSE {<<m, entry>>},
                phase |-> IF how = "touch" THEN "report" ELSE "read",
                then |-> "refresh", was |-> status[m], now |-> now]
    BY <2>1 DEF MemberUpdate, now
  <2> HIDE DEF entry
  <2>4. NoStatus \in Statuses
    BY DEF NoStatus, Statuses, Entry
  <2>5. api' \in Work
    BY <2>2, <2>3, <2>4 DEF Work, Phase, Op
  <2>6. api' \in ApiState /\ Course'
    BY <2>3, <2>5 DEF Course, Then, Mon, ApiState, Work
  <2> QED
    BY <2>1, <2>6 DEF MemberUpdate, TypeOK, row, neutron
<1>6. CASE \E m \in Member : MemberDelete(m)
  <2>1. PICK m \in Member : MemberDelete(m)
    BY <1>6
  <2> DEFINE gone == [members EXCEPT ![PoolOf[m]] = @ \ {m}]
  <2>2. gone \in [Pool -> SUBSET Member]
    BY HealthAssumption DEF TypeOK
  <2>3. FrameVips(gone, status) \subseteq Member
    BY <2>2 DEF FrameVips
  <2>4. "member_delete" \in Op /\ "report" \in Then("member_delete") /\ ~Mon("member_delete")
    BY DEF Op, Then, Mon
  <2>5. {<<m, "none">>} \in SUBSET (Member \X Entry) /\ {} \in SUBSET Member
    BY DEF Entry
  <2>6. api' \in ApiState /\ Course' /\ locked' = TRUE
    BY <2>1, <2>4, <2>5, StartIs DEF MemberDelete
  <2>7. hmPort' \subseteq Subnet /\ mapping' \subseteq Ip /\ faulted' \in BOOLEAN
    <3>1. CASE hms # {}
      <4>1. PICK h \in HmMember(m, TRUE) :
               /\ mapping' = h.map
               /\ faulted' = (faulted \/ h.result = "none")
               /\ \/ hmPort' = CleanUpPort({SubnetOf[IpOf[AddrOf[m]]]}, h.ports, h.map, hms)
                  \/ hmPort' = h.ports
        BY <2>1, <3>1 DEF MemberDelete
      <4>2. h.ports \subseteq Subnet /\ h.map \subseteq Ip
        BY HmMemberIs
      <4> QED
        BY <4>1, <4>2 DEF TypeOK, CleanUpPort
    <3>2. CASE hms = {}
      BY <2>1, <3>2 DEF MemberDelete, TypeOK, neutron
    <3> QED
      BY <3>1, <3>2
  <2> QED
    BY <2>1, <2>2, <2>3, <2>6, <2>7 DEF MemberDelete, TypeOK
<1> QED
  BY <1>1, <1>2, <1>3, <1>4, <1>5, <1>6

LEMMA TInvRest ==
    ASSUME TInv,
           \/ EventTake \/ EventWrite \/ EventReport
           \/ \E a \in Addr : ProbeResult(a) \/ MonitorGone(a)
    PROVE  TInv'
<1> USE DEF TInv
<1> DEFINE Event == [addr : Addr, state : {"online", "offline"}]
<1>1. CASE EventTake
  <2>1. events' \in Seq(Event)
    <3>1. events \in Seq(Event) /\ events # <<>> /\ events' = Tail(events)
      BY <1>1 DEF EventTake, TypeOK
    <3> HIDE DEF Event
    <3> QED
      BY <3>1
  <2>2. Head(events) \in Event
    <3>1. events \in Seq(Event) /\ events # <<>>
      BY <1>1 DEF EventTake, TypeOK
    <3> HIDE DEF Event
    <3> QED
      BY <3>1
  <2>3. agent' \in AgentState
    <3>1. CASE UNCHANGED agent
      BY <3>1 DEF TypeOK
    <3>2. CASE \E p \in Pool : \E m \in members[p] :
                  agent' = [op |-> "write", on |-> m, seen |-> status,
                            value |-> Verdict(Head(events).state)]
      <4>1. PICK p \in Pool, m \in Member :
                  agent' = [op |-> "write", on |-> m, seen |-> status,
                            value |-> Verdict(Head(events).state)]
        BY <3>2 DEF TypeOK
      <4>2. Verdict(Head(events).state) \in Entry
        BY DEF Verdict, Entry
      <4> QED
        BY <4>1, <4>2 DEF AgentState, TypeOK
    <3> QED
      BY <1>1, <3>1, <3>2 DEF EventTake
  <2> QED
    BY <1>1, <2>1, <2>3 DEF EventTake, TypeOK, Course, row, neutron, octavia
<1>2. CASE EventWrite
  <2>1. agent \in [op : {"write", "report"}, on : Member, value : Entry, seen : Statuses]
    BY <1>2 DEF EventWrite, AgentState, TypeOK
  <2>2. NoStatus \in Statuses
    BY DEF NoStatus, Statuses, Entry
  <2>3. agent' \in AgentState
    BY <1>2, <2>1, <2>2 DEF EventWrite, AgentState
  <2>4. status' \in Statuses
    BY <1>2, <2>1 DEF EventWrite, WithEntry, Statuses
  <2> QED
    BY <1>2, <2>3, <2>4 DEF EventWrite, TypeOK, Course, neutron, octavia
<1>3. CASE EventReport
  <2>1. oMember' \in [Member -> Told]
    <3>1. /\ DOMAIN Entries \subseteq Member
          /\ \A m \in DOMAIN Entries : Entries[m] \in Told
      BY EntriesAre DEF TypeOK
    <3>2. oMember' = Knowing(Entries)
      BY <1>3 DEF EventReport
    <3> HIDE DEF Event
    <3> QED
      BY <3>1, <3>2 DEF Knowing, TypeOK
  <2>2. agent' \in AgentState
    BY <1>3 DEF EventReport, AgentState
  <2> QED
    BY <1>3, <2>1, <2>2, TopIs DEF EventReport, TypeOK, Course, row, neutron
<1>4. CASE \E a \in Addr : ProbeResult(a) \/ MonitorGone(a)
  <2>1. PICK a \in Addr : ProbeResult(a) \/ MonitorGone(a)
    BY <1>4
  <2>2. PICK state \in {"online", "offline"}, now \in {"none", "online", "offline"} :
           health' = [health EXCEPT ![a] = now] /\ Notify(a, state)
    BY <2>1 DEF ProbeResult, MonitorGone
  <2>3. events' \in Seq(Event)
    <3>1. [addr |-> a, state |-> state] \in Event
      OBVIOUS
    <3>2. events \in Seq(Event)
      BY DEF TypeOK
    <3> HIDE DEF Event
    <3> QED
      BY <2>2, <3>1, <3>2 DEF Notify
  <2>4. UNCHANGED <<row, neutron, octavia, api, agent>>
    BY <2>1 DEF ProbeResult, MonitorGone
  <2> QED
    BY <2>2, <2>3, <2>4 DEF TypeOK, Course, row, neutron, octavia
<1> QED
  BY <1>1, <1>2, <1>3, <1>4

LEMMA TInvStep == TInv /\ [Next]_vars => TInv'
<1> SUFFICES ASSUME TInv, [Next]_vars PROVE TInv'
  OBVIOUS
<1>1. CASE UNCHANGED vars
  BY <1>1 DEF vars, TInv, TypeOK, Course, row, neutron, octavia
<1>2. CASE Next
  BY <1>2, TInvApi, TInvBegin, TInvRest DEF Next
<1> QED
  BY <1>1, <1>2

\* A step of the specification is one of the handlers.
LEMMA StepIs == [Next /\ Noted]_<<vars, crossed>> => [Next]_vars
OBVIOUS

\* Every variable keeps its type, whatever interleaves with what and fails.
THEOREM HealthTypes == Spec => []TypeOK
<1>1. TInv => TypeOK
  BY DEF TInv
<1> QED
  BY <1>1, TInvInit, TInvStep, StepIs, PTL DEF Spec

-----------------------------------------------------------------------------
(* Every member has an entry                                               *)

LEMMA WhenIdle ==
    ASSUME Complete, api = Idle
    PROVE  \A m \in Member : (status[m] # "none") = (m \in Listed)
BY DEF Complete, Pending

LEMMA HmStarts ==
    ASSUME BInv, NEW p \in Pool, HmCreate(p) \/ (HmDelete(p) /\ p \in hms)
    PROVE  /\ api = Idle /\ (Serial => agent = Idle /\ NorthdCaughtUp)
           /\ UNCHANGED <<oUp, row, neutron, oMember, oHm, oTop, health, events, agent>>
           /\ api' # Idle /\ api'.on = p /\ api'.phase # "write"
           /\ HmCreate(p) => /\ api'.op = "hm_create" /\ api'.left = members[p]
                             /\ api'.todo = members[p] \X {"ONLINE"} /\ api'.then = "lbhc"
           /\ ~HmCreate(p) => /\ api'.op = "hm_delete"
                              /\ api'.todo = members[p] \X {"NO_MONITOR"}
<1>1. "hm_create" \in Op /\ "lbhc" \in Then("hm_create") /\ Mon("hm_create")
      /\ "hm_delete" \in Op /\ "clean" \in Then("hm_delete") /\ Mon("hm_delete")
  BY DEF Op, Then, Mon
<1>2. /\ members[p] \X {"ONLINE"} \in SUBSET (Member \X Entry) /\ members[p] \in SUBSET Member
      /\ members[p] \X {"NO_MONITOR"} \in SUBSET (Member \X Entry) /\ {} \in SUBSET Member
  BY DEF BInv, TInv, TypeOK, Entry
<1>3. CASE HmCreate(p)
  <2>1. Start("hm_create", p, members[p] \X {"ONLINE"}, "lbhc", members[p])
    BY <1>3 DEF HmCreate
  <2>2. /\ api' # Idle /\ api'.on = p /\ api'.phase # "write"
        /\ api'.op = "hm_create" /\ api'.left = members[p]
        /\ api'.todo = members[p] \X {"ONLINE"} /\ api'.then = "lbhc"
    <3>1. IF Mon("hm_create") THEN p \in Pool ELSE p \in Member
      BY <1>1
    <3>2. members[p] \X {"ONLINE"} \in SUBSET (Member \X Entry)
      BY <1>2
    <3>3. members[p] \in SUBSET Member
      BY <1>2
    <3>4. PICK left, todo : left = members[p] /\ todo = members[p] \X {"ONLINE"}
      OBVIOUS
    <3>5. left \in SUBSET Member /\ todo \in SUBSET (Member \X Entry)
      BY <3>2, <3>3, <3>4
    <3>6. Start("hm_create", p, todo, "lbhc", left)
      BY <2>1, <3>4
    <3>7. /\ api' # Idle /\ api'.op = "hm_create" /\ api'.on = p /\ api'.todo = todo
          /\ api'.then = "lbhc" /\ api'.left = left /\ api'.phase # "write"
      BY <1>1, <3>1, <3>5, <3>6, StartIs
    <3> QED
      BY <3>4, <3>7
  <2>3. /\ api = Idle /\ (Serial => agent = Idle /\ NorthdCaughtUp)
        /\ UNCHANGED <<oUp, row, neutron, oMember, oHm, oTop, health, events, agent>>
    BY <1>3 DEF HmCreate, Begin, Serial
  <2> QED
    BY <1>3, <2>2, <2>3
<1>4. CASE ~HmCreate(p) /\ HmDelete(p) /\ p \in hms
  BY <1>1, <1>2, <1>4, StartIs DEF HmDelete, Begin, Serial
<1> QED
  BY <1>3, <1>4

LEMMA CreateStarts ==
    ASSUME BInv, NEW m \in Member, NEW up \in BOOLEAN, MemberCreate(m, up)
    PROVE  /\ api = Idle /\ (Serial => agent = Idle /\ NorthdCaughtUp)
           /\ UNCHANGED <<status, hms, oHm, oTop, health, events, agent>>
           /\ m \notin Listed /\ Listed' = Listed \cup {m}
           /\ members' = [members EXCEPT ![PoolOf[m]] = @ \cup {m}]
           /\ api' # Idle /\ api'.op = "member_create" /\ api'.on = m /\ api'.phase # "write"
           /\ \E result \in {"ONLINE", "ERROR", "NO_MONITOR", "OFFLINE"} :
                /\ api'.todo = {<<m, result>>}
                /\ result = "ONLINE" => Found(m)
                /\ result = "NO_MONITOR" => hms = {}
<1> DEFINE joined == [members EXCEPT ![PoolOf[m]] = @ \cup {m}]
<1>1. Listed' = Listed \cup {m}
  <2>1. members \in [Pool -> SUBSET Member] /\ PoolOf[m] \in Pool /\ members' = joined
    BY HealthAssumption DEF MemberCreate, BInv, TInv, TypeOK
  <2> QED
    BY <2>1 DEF Listed
<1>2. PICK result \in {"ONLINE", "ERROR", "NO_MONITOR", "OFFLINE"} :
         /\ Start("member_create", m, {<<m, result>>}, "report", {})
         /\ result = "ONLINE" => Found(m)
         /\ result = "NO_MONITOR" => hms = {}
  <2>1. CASE up /\ hms # {}
    <3>1. PICK h \in HmMember(m, FALSE) :
             Start("member_create", m,
                   {<<m, IF h.result = "ONLINE" THEN "ONLINE" ELSE "ERROR">>}, "report", {})
      BY <2>1 DEF MemberCreate
    <3>2. h.result = "ONLINE" => Found(m)
      BY DEF HmMember, Found
    <3> QED
      BY <3>1, <3>2
  <2>2. CASE ~(up /\ hms # {})
    BY <2>2 DEF MemberCreate
  <2> QED
    BY <2>1, <2>2
<1>3. {<<m, result>>} \in SUBSET (Member \X Entry) /\ {} \in SUBSET Member
  BY DEF Entry
<1>4. "member_create" \in Op /\ "report" \in Then("member_create") /\ ~Mon("member_create")
  BY DEF Op, Then, Mon
<1>5. /\ api' # Idle /\ api'.op = "member_create" /\ api'.on = m /\ api'.phase # "write"
      /\ api'.todo = {<<m, result>>}
  BY <1>2, <1>3, <1>4, StartIs
<1> QED
  BY <1>1, <1>2, <1>5 DEF MemberCreate, Begin, Serial

LEMMA DeleteStarts ==
    ASSUME BInv, NEW m \in Member, MemberDelete(m)
    PROVE  /\ api = Idle /\ (Serial => agent = Idle /\ NorthdCaughtUp)
           /\ UNCHANGED <<status, hms, oHm, oTop, health, events, agent>>
           /\ m \in Listed /\ Listed' = Listed \ {m}
           /\ members' = [members EXCEPT ![PoolOf[m]] = @ \ {m}]
           /\ api' # Idle /\ api'.op = "member_delete" /\ api'.on = m /\ api'.phase # "write"
           /\ api'.todo = {<<m, "none">>}
<1> DEFINE gone == [members EXCEPT ![PoolOf[m]] = @ \ {m}]
<1>1. m \in Listed /\ Listed' = Listed \ {m}
  <2>1. members \in [Pool -> SUBSET Member] /\ PoolOf[m] \in Pool /\ members' = gone
        /\ m \in members[PoolOf[m]] /\ \A p \in Pool : m \in members[p] => p = PoolOf[m]
    BY HealthAssumption DEF MemberDelete, BInv, TInv, TypeOK, Homes
  <2> QED
    BY <2>1 DEF Listed
<1>2. {<<m, "none">>} \in SUBSET (Member \X Entry) /\ {} \in SUBSET Member
  BY DEF Entry
<1>3. "member_delete" \in Op /\ "report" \in Then("member_delete") /\ ~Mon("member_delete")
  BY DEF Op, Then, Mon
<1>4. /\ api' # Idle /\ api'.op = "member_delete" /\ api'.on = m /\ api'.phase # "write"
      /\ api'.todo = {<<m, "none">>}
  BY <1>2, <1>3, StartIs DEF MemberDelete
<1> QED
  BY <1>1, <1>4 DEF MemberDelete, Begin, Serial

LEMMA UpdateStarts ==
    ASSUME BInv, NEW m \in Member, NEW how \in Updates, MemberUpdate(m, how)
    PROVE  /\ api = Idle /\ (Serial => agent = Idle /\ NorthdCaughtUp)
           /\ UNCHANGED <<row, neutron, oMember, oHm, oTop, health, events, agent>>
           /\ m \in Listed /\ m \in members[PoolOf[m]]
           /\ api' # Idle /\ api'.op = "member_update" /\ api'.on = m
           /\ api'.then = "refresh" /\ api'.was = status[m]
           /\ \/ api'.todo = {} /\ api'.phase = "report"
              \/ /\ api'.phase = "read" /\ api'.todo = {<<m, api'.now>>}
                 /\ \/ api'.now = "OFFLINE"
                    \/ api'.now = "NO_MONITOR" /\ (hms = {} \/ status[m] = "none")
                    \/ api'.now = status[m] /\ status[m] # "none"
<1> DEFINE entry == IF how = "disable" THEN "OFFLINE"
                    ELSE IF hms = {} \/ status[m] = "none" THEN "NO_MONITOR" ELSE status[m]
           now == IF how = "touch" THEN "NO_MONITOR" ELSE entry
<1>1. api' = [op |-> "member_update", on |-> m, left |-> {}, seen |-> NoStatus,
                todo |-> IF how = "touch" THEN {} ELSE {<<m, entry>>},
                phase |-> IF how = "touch" THEN "report" ELSE "read",
                then |-> "refresh", was |-> status[m], now |-> now]
  BY DEF MemberUpdate
<1>2. api = Idle /\ (Serial => agent = Idle /\ NorthdCaughtUp)
  BY DEF MemberUpdate, Begin, Serial
<1>3. m \in Listed /\ m \in members[PoolOf[m]]
  BY HealthAssumption DEF MemberUpdate, Listed
<1>4. api' # Idle
  BY <1>1 DEF Idle
<1>6. CASE how = "touch"
  BY <1>1, <1>2, <1>3, <1>4, <1>6 DEF MemberUpdate
<1>7. CASE how # "touch"
  <2>1. api'.phase = "read" /\ api'.todo = {<<m, entry>>} /\ api'.now = entry
    BY <1>1, <1>7
  <2>2. \/ entry = "OFFLINE"
        \/ entry = "NO_MONITOR" /\ (hms = {} \/ status[m] = "none")
        \/ entry = status[m] /\ status[m] # "none"
    OBVIOUS
  <2>3. api'.op = "member_update" /\ api'.on = m /\ api'.then = "refresh" /\ api'.was = status[m]
    BY <1>1
  <2> QED
    BY <2>1, <2>2, <2>3, <1>2, <1>3, <1>4 DEF MemberUpdate
<1> QED
  BY <1>6, <1>7

\* An entry is written into the map as it is.
LEMMA WritesOne ==
    ASSUME BInv, Fresh, EntryWrite
    PROVE  \E e \in api.todo :
              /\ e \in Member \X Entry /\ api'.todo = api.todo \ {e}
              /\ status' = [status EXCEPT ![e[1]] = e[2]]
              /\ status'[e[1]] = e[2]
              /\ \A m \in Member : m # e[1] => status'[m] = status[m]
<1>1. PICK e \in api.todo : /\ e \in Member \X Entry /\ api'.todo = api.todo \ {e}
                            /\ status' = [api.seen EXCEPT ![e[1]] = e[2]]
  BY WriteIs DEF BInv, TInv
<1>2. api.seen = status
  BY DEF Fresh, EntryWrite
<1> QED
  BY <1>1, <1>2 DEF BInv, TInv, TypeOK, Statuses

LEMMA AddStep ==
    ASSUME BInv, HmAddLbhc
    PROVE  /\ api # Idle /\ api.op = "hm_create" /\ api.on \in Pool /\ api.todo = {}
           /\ UNCHANGED <<oUp, members, status, vips, mapping, hmPort, oTop, health, events, agent>>
           /\ \/ /\ hms' = hms \cup {api.on} /\ UNCHANGED <<oHm, faulted>>
                 /\ api' # Idle /\ api'.op = "hm_create" /\ api'.on = api.on
                 /\ api'.todo = {} /\ api'.left = api.left /\ api'.phase # "write"
                 /\ api'.then = IF api.left = {} THEN "report" ELSE "map"
              \/ /\ api' = Idle /\ hms' = hms /\ faulted' = TRUE
                 /\ oHm' = [oHm EXCEPT ![api.on] = "ERROR"]
<1>1. api \in ApiState /\ api # Idle /\ api \in Work
  BY WorkIs DEF HmAddLbhc, BInv, TInv, TypeOK
<1>2. api.op = "hm_create" /\ api.on \in Pool /\ api.todo = {}
  BY <1>1 DEF HmAddLbhc, BInv, TInv, Course, Then, Mon, Work, Op
<1>3. (IF api.left = {} THEN "report" ELSE "map") \in Then(api.op)
  BY <1>2 DEF Then
<1>4. api.left \in SUBSET Member /\ {} \in SUBSET (Member \X Entry)
  BY <1>1 DEF Work
<1>5. CASE /\ hms' = hms \cup {api.on}
           /\ GoOn({}, IF api.left = {} THEN "report" ELSE "map", api.left)
           /\ UNCHANGED <<locked, oMember, oHm, faulted>>
  <2>1. /\ api' # Idle /\ api'.op = "hm_create" /\ api'.on = api.on
        /\ api'.todo = {} /\ api'.left = api.left /\ api'.phase # "write"
        /\ api'.then = IF api.left = {} THEN "report" ELSE "map"
    BY <1>1, <1>2, <1>3, <1>4, <1>5, GoOnIs DEF BInv, TInv
  <2> QED
    BY <1>1, <1>2, <1>5, <2>1 DEF HmAddLbhc
<1>6. CASE /\ faulted' = TRUE
           /\ oHm' = [oHm EXCEPT ![api.on] = "ERROR"]
           /\ Answer([m \in members[api.on] |-> "ONLINE"])
           /\ UNCHANGED hms
  BY <1>1, <1>2, <1>6 DEF HmAddLbhc, Answer
<1> QED
  BY <1>5, <1>6 DEF HmAddLbhc

LEMMA MapStep ==
    ASSUME BInv, HmMapMember
    PROVE  /\ api # Idle /\ api.op = "hm_create" /\ api.on \in Pool /\ api.todo = {}
           /\ UNCHANGED <<oUp, members, status, vips, hms, oTop, health, events, agent>>
           /\ \E m \in api.left :
                /\ m \in members[api.on]
                /\ \/ /\ faulted' = faulted /\ oHm' = oHm
                      /\ IF Found(m)
                         THEN /\ mapping' = mapping \cup {IpOf[AddrOf[m]]}
                              /\ hmPort' = hmPort \cup {SubnetOf[IpOf[AddrOf[m]]]}
                         ELSE mapping' = mapping /\ hmPort' = hmPort
                      /\ api' # Idle /\ api'.op = "hm_create" /\ api'.on = api.on
                      /\ api'.todo = {<<m, IF Found(m) THEN "ONLINE" ELSE "ERROR">>}
                      /\ api'.left = api.left \ {m} /\ api'.phase # "write"
                      /\ api'.then = IF api.left \ {m} = {} THEN "report" ELSE "map"
                   \/ /\ api' = Idle /\ faulted' = TRUE /\ mapping' = CleanMapping(api.on)
                      /\ oHm' = [oHm EXCEPT ![api.on] = "ERROR"]
<1>1. api \in ApiState /\ api # Idle /\ api \in Work
  BY WorkIs DEF HmMapMember, BInv, TInv, TypeOK
<1>2. api.op = "hm_create" /\ api.on \in Pool /\ api.todo = {}
  BY <1>1 DEF HmMapMember, BInv, TInv, Course, Then, Mon, Work, Op
<1>3. PICK m \in api.left : \E h \in HmMember(m, FALSE) :
        LET left == api.left \ {m}
        IN  /\ hmPort' = h.ports
            /\ faulted' = (faulted \/ h.result = "none")
            /\ \/ /\ h.result # "none"
                  /\ mapping' = h.map
                  /\ GoOn({<<m, h.result>>}, IF left = {} THEN "report" ELSE "map", left)
                  /\ UNCHANGED <<locked, oMember, oHm>>
               \/ /\ h.result = "none"
                  /\ mapping' = CleanMapping(api.on)
                  /\ oHm' = [oHm EXCEPT ![api.on] = "ERROR"]
                  /\ Answer([x \in members[api.on] |-> "ONLINE"])
  BY DEF HmMapMember
<1>4. PICK h \in HmMember(m, FALSE) :
         /\ hmPort' = h.ports
         /\ faulted' = (faulted \/ h.result = "none")
         /\ \/ /\ h.result # "none"
               /\ mapping' = h.map
               /\ GoOn({<<m, h.result>>},
                       IF api.left \ {m} = {} THEN "report" ELSE "map", api.left \ {m})
               /\ UNCHANGED <<locked, oMember, oHm>>
            \/ /\ h.result = "none"
               /\ mapping' = CleanMapping(api.on)
               /\ oHm' = [oHm EXCEPT ![api.on] = "ERROR"]
               /\ Answer([x \in members[api.on] |-> "ONLINE"])
  BY <1>3
<1>5. m \in members[api.on] /\ m \in Member
  BY <1>1, <1>2 DEF BInv, Writes, Work
<1>6. CASE h.result # "none"
  <2>1. (IF api.left \ {m} = {} THEN "report" ELSE "map") \in Then(api.op)
    BY <1>2 DEF Then
  <2>2. api.left \ {m} \in SUBSET Member
    BY <1>1 DEF Work
  <2>3. /\ h.result = IF Found(m) THEN "ONLINE" ELSE "ERROR"
        /\ IF Found(m)
           THEN /\ h.map = mapping \cup {IpOf[AddrOf[m]]}
                /\ h.ports = hmPort \cup {SubnetOf[IpOf[AddrOf[m]]]}
           ELSE h.map = mapping /\ h.ports = hmPort
    BY <1>4, <1>6 DEF HmMember, Found
  <2>4. {<<m, h.result>>} \in SUBSET (Member \X Entry)
    BY <1>5, <2>3 DEF Entry
  <2>5. GoOn({<<m, h.result>>}, IF api.left \ {m} = {} THEN "report" ELSE "map", api.left \ {m})
    BY <1>4, <1>6
  <2>6. /\ api' # Idle /\ api'.op = "hm_create" /\ api'.on = api.on
        /\ api'.todo = {<<m, h.result>>}
        /\ api'.left = api.left \ {m} /\ api'.phase # "write"
        /\ api'.then = IF api.left \ {m} = {} THEN "report" ELSE "map"
    BY <1>1, <1>2, <2>1, <2>2, <2>4, <2>5, GoOnIs DEF BInv, TInv
  <2>7. faulted' = faulted /\ oHm' = oHm /\ mapping' = h.map /\ hmPort' = h.ports
    BY <1>4, <1>6 DEF BInv, TInv, TypeOK
  <2>8. \/ /\ Found(m) /\ h.result = "ONLINE" /\ h.map = mapping \cup {IpOf[AddrOf[m]]}
           /\ h.ports = hmPort \cup {SubnetOf[IpOf[AddrOf[m]]]}
        \/ ~Found(m) /\ h.result = "ERROR" /\ h.map = mapping /\ h.ports = hmPort
    BY <2>3
  <2> QED
    BY <1>1, <1>2, <1>5, <2>6, <2>7, <2>8 DEF HmMapMember
<1>7. CASE h.result = "none"
  <2>1. api' = Idle /\ faulted' = TRUE /\ mapping' = CleanMapping(api.on)
        /\ oHm' = [oHm EXCEPT ![api.on] = "ERROR"]
    BY <1>4, <1>7 DEF Answer
  <2> QED
    BY <1>1, <1>2, <1>5, <2>1 DEF HmMapMember
<1> QED
  BY <1>6, <1>7

LEMMA CleanStep ==
    ASSUME BInv, HmClean
    PROVE  /\ api # Idle /\ api.op = "hm_delete" /\ api.on \in Pool /\ api.todo = {}
           /\ api' = Idle
<1>1. api \in ApiState /\ api # Idle /\ api \in Work
  BY WorkIs DEF HmClean, BInv, TInv, TypeOK
<1>2. api.op = "hm_delete" /\ api.on \in Pool /\ api.todo = {}
  BY <1>1 DEF HmClean, BInv, TInv, Course, Then, Mon, Work, Op
<1> QED
  BY <1>1, <1>2 DEF HmClean, Answer

LEMMA RefreshStep ==
    ASSUME BInv, MemberRefresh
    PROVE  /\ api # Idle /\ api.op = "member_update" /\ api.todo = {}
           /\ api' # Idle /\ api'.op = "member_update" /\ api'.on = api.on /\ api'.todo = {}
           /\ api'.phase = "report" /\ api'.then = "report"
<1>1. api \in ApiState /\ api # Idle /\ api \in Work
  BY WorkIs DEF MemberRefresh, BInv, TInv, TypeOK
<1>2. api.op = "member_update" /\ api.todo = {}
  BY <1>1 DEF MemberRefresh, BInv, TInv, Course, Then, Mon, Work, Op
<1>3. "report" \in Then(api.op) /\ {} \in SUBSET Member /\ {} \in SUBSET (Member \X Entry)
  BY <1>2 DEF Then
<1>4. GoOn({}, "report", {})
  BY DEF MemberRefresh
<1>5. /\ api' # Idle /\ api'.op = api.op /\ api'.on = api.on /\ api'.todo = {}
  BY <1>1, <1>3, <1>4, GoOnIs DEF BInv, TInv
<1>6. api'.phase = "report" /\ api'.then = "report"
  BY <1>1, <1>4 DEF GoOn, Work
<1> QED
  BY <1>1, <1>2, <1>5, <1>6

LEMMA ReportStep ==
    ASSUME BInv, Report
    PROVE  api # Idle /\ api.todo = {} /\ api.then \in Then(api.op) /\ api' = Idle
BY DEF BInv, TInv, Report, Answer, Course, Then

LEMMA TakeStep ==
    ASSUME EventTake
    PROVE  /\ (Serial => api = Idle) /\ agent = Idle /\ events # <<>> /\ events' = Tail(events)
           /\ UNCHANGED <<row, neutron, octavia, health, api>>
           /\ \/ /\ agent' = Idle
                 /\ \A p \in Pool : \A m \in members[p] : AddrOf[m] # Head(events).addr
              \/ \E p \in Pool : \E m \in members[p] :
                    /\ Head(events).addr \in Texts[m]
                    /\ agent' = [op |-> "write", on |-> m, seen |-> status,
                                value |-> Verdict(Head(events).state)]
BY DEF EventTake, Serial

LEMMA AgentWriteStep ==
    ASSUME BInv, Fresh, EventWrite
    PROVE  /\ (Alone => api = Idle)
           /\ UNCHANGED <<members, vips, hms, mapping, neutron, octavia, health, events, api>>
           /\ agent # Idle /\ agent.op = "write" /\ agent.on \in Member
           /\ agent' # Idle /\ agent'.op = "report"
           /\ agent'.on = agent.on /\ agent'.value = agent.value
           /\ status'[agent.on] = agent.value
           /\ \A m \in Member : m # agent.on => status'[m] = status[m]
<1>1. agent \in [op : {"write", "report"}, on : Member, value : Entry, seen : Statuses]
  BY DEF EventWrite, AgentState, BInv, TInv, TypeOK
<1>2. agent.seen = status /\ (Alone => api = Idle) /\ agent # Idle /\ agent.op = "write"
  BY DEF EventWrite, Alone, Fresh
<1>3. agent' = [agent EXCEPT !.op = "report", !.seen = NoStatus]
  BY DEF EventWrite
<1>4. agent'.op = "report" /\ agent'.on = agent.on /\ agent'.value = agent.value
  BY <1>1, <1>3
<1>5. agent' # Idle
  BY <1>4 DEF Idle
<1>6. status' = [status EXCEPT ![agent.on] = agent.value]
  BY <1>2 DEF EventWrite, WithEntry
<1>7. status'[agent.on] = agent.value /\ \A m \in Member : m # agent.on => status'[m] = status[m]
  BY <1>1, <1>6 DEF BInv, TInv, TypeOK, Statuses
<1> QED
  BY <1>1, <1>2, <1>4, <1>5, <1>7 DEF EventWrite

\* What every step preserves: the map of statuses stays whole unless the two have it
\* at once.
Holds == BInv' /\ (Whole /\ ~BothInMap' => Whole')

LEMMA Unwritten ==
    ASSUME UNCHANGED <<status, agent>>, api' = Idle \/ api'.phase # "write",
           Whole => Hears' /\ Complete'
    PROVE  Whole /\ ~BothInMap' => Whole'
BY DEF Whole, Fresh

LEMMA HoldsBegin ==
    ASSUME BInv, TInv',
           \/ \E p \in Pool : HmCreate(p) \/ HmUpdate(p) \/ HmDelete(p)
           \/ \E m \in Member :
                 \/ \E up \in BOOLEAN : MemberCreate(m, up)
                 \/ \E how \in Updates : MemberUpdate(m, how)
                 \/ MemberDelete(m)
    PROVE  Holds
<1> USE DEF BInv, Holds
<1>0. api = Idle /\ UNCHANGED <<status, agent>>
  BY DEF HmCreate, HmUpdate, HmDelete, MemberCreate, MemberUpdate, MemberDelete, Begin, row
<1>1. CASE \E p \in Pool : HmCreate(p) \/ (HmDelete(p) /\ p \in hms)
  <2>1. PICK p \in Pool : HmCreate(p) \/ (HmDelete(p) /\ p \in hms)
    BY <1>1
  <2>2. /\ members' = members
        /\ api' # Idle /\ api'.on = p /\ api'.phase # "write"
        /\ \/ /\ api'.op = "hm_create" /\ api'.left = members[p]
              /\ api'.todo = members[p] \X {"ONLINE"}
           \/ /\ api'.op = "hm_delete" /\ api'.todo = members[p] \X {"NO_MONITOR"}
    BY <2>1, HmStarts DEF row
  <2>3. Listed' = Listed /\ members[p] \subseteq Listed
    BY <2>2 DEF Listed
  <2>4. Homes'
    BY <2>2 DEF Homes
  <2>5. Writes'
    BY <2>2, <2>3 DEF Writes, Mon
  <2>6. Whole => Hears' /\ Complete'
    BY <1>0, <2>2, <2>3, WhenIdle DEF Whole, Hears, Complete
  <2> QED
    BY <1>0, <2>2, <2>4, <2>5, <2>6, Unwritten
<1>2. CASE \E p \in Pool : HmUpdate(p) \/ (HmDelete(p) /\ p \notin hms)
  <2>1. UNCHANGED <<row, api, agent>>
    BY <1>2 DEF HmUpdate, HmDelete, Begin
  <2> QED
    BY <2>1 DEF row, Whole, Fresh, Homes, Writes, Hears, Complete, Listed, Pending
<1>3. CASE \E m \in Member : \E up \in BOOLEAN : MemberCreate(m, up)
  <2>1. PICK m \in Member, up \in BOOLEAN : MemberCreate(m, up)
    BY <1>3
  <2>2. PICK result \in {"ONLINE", "ERROR", "NO_MONITOR", "OFFLINE"} :
          /\ Listed' = Listed \cup {m}
          /\ members' = [members EXCEPT ![PoolOf[m]] = @ \cup {m}]
          /\ api' # Idle /\ api'.op = "member_create" /\ api'.on = m /\ api'.phase # "write"
          /\ api'.todo = {<<m, result>>}
    BY <2>1, CreateStarts
  <2>3. Homes'
    BY <2>2, HealthAssumption DEF Homes, TInv, TypeOK
  <2>4. Writes'
    BY <2>2 DEF Writes, Mon
  <2>5. Whole => Hears' /\ Complete'
    BY <1>0, <2>2, WhenIdle DEF Whole, Hears, Complete, Pending
  <2> QED
    BY <1>0, <2>2, <2>3, <2>4, <2>5, Unwritten
<1>4. CASE \E m \in Member : \E how \in Updates : MemberUpdate(m, how)
  <2>1. PICK m \in Member, how \in Updates : MemberUpdate(m, how)
    BY <1>4
  <2>2. /\ members' = members
        /\ m \in Listed /\ api' # Idle /\ api'.op = "member_update" /\ api'.on = m
        /\ api'.phase # "write"
        /\ \/ api'.todo = {}
           \/ \E entry : api'.todo = {<<m, entry>>} /\ entry # "none"
    <3>1. UNCHANGED row
      BY <2>1, UpdateStarts
    <3> QED
      BY <2>1, <3>1, UpdateStarts DEF row
  <2>3. Listed' = Listed
    BY <2>2 DEF Listed
  <2>4. Homes'
    BY <2>2 DEF Homes
  <2>5. Writes'
    BY <2>2, <2>3 DEF Writes, Mon
  <2>6. Whole => Hears' /\ Complete'
    BY <1>0, <2>2, <2>3, WhenIdle DEF Whole, Hears, Complete
  <2> QED
    BY <1>0, <2>2, <2>4, <2>5, <2>6, Unwritten
<1>5. CASE \E m \in Member : MemberDelete(m)
  <2>1. PICK m \in Member : MemberDelete(m)
    BY <1>5
  <2>2. /\ Listed' = Listed \ {m}
        /\ members' = [members EXCEPT ![PoolOf[m]] = @ \ {m}]
        /\ api' # Idle /\ api'.op = "member_delete" /\ api'.on = m /\ api'.phase # "write"
        /\ api'.todo = {<<m, "none">>}
    BY <2>1, DeleteStarts
  <2>3. Homes'
    BY <2>2, HealthAssumption DEF Homes, TInv, TypeOK
  <2>4. Writes'
    BY <2>2 DEF Writes, Mon
  <2>5. api'.phase = "read"
    BY <2>2 DEF TInv, Course
  <2>6. Whole => Hears' /\ Complete'
    BY <1>0, <2>2, <2>5, WhenIdle DEF Whole, Hears, Complete, Pending
  <2> QED
    BY <1>0, <2>2, <2>3, <2>4, <2>6, Unwritten
<1> QED
  BY <1>1, <1>2, <1>3, <1>4, <1>5

LEMMA HoldsApi ==
    ASSUME BInv, TInv', ApiStep
    PROVE  Holds
<1> USE DEF BInv, Holds
<1>0. api # Idle /\ UNCHANGED <<members, agent>>
  BY DEF ApiStep, EntryRead, EntryWrite, HmAddLbhc, HmMapMember, HmClean, MemberRefresh,
         Report, row
<1>1. Homes' /\ Listed' = Listed
  BY <1>0 DEF Homes, Listed
<1>2. CASE EntryRead
  <2>1. /\ api' # Idle /\ api'.op = api.op /\ api'.on = api.on /\ api'.todo = api.todo
        /\ api'.left = api.left /\ api'.phase = "write" /\ api'.seen = status
    BY <1>2, ReadIs DEF TInv
  <2>2. status' = status
    BY <1>2 DEF EntryRead, row
  <2>3. Writes'
    BY <1>0, <1>1, <2>1 DEF Writes
  <2>4. Whole /\ ~BothInMap' => Whole'
    BY <1>0, <1>1, <2>1, <2>2 DEF Whole, BothInMap, Fresh, Hears, Complete, Pending
  <2> QED
    BY <1>1, <2>3, <2>4
<1>3. CASE EntryWrite
  <2>1. PICK e \in api.todo : /\ e \in Member \X Entry /\ api'.todo = api.todo \ {e}
    BY <1>3, WriteIs DEF TInv
  <2>2. /\ api' # Idle /\ api'.op = api.op /\ api'.on = api.on
        /\ api'.left = api.left /\ api'.phase # "write"
    BY <1>3, WriteIs DEF TInv
  <2>3. Writes'
    BY <1>0, <1>1, <2>1, <2>2 DEF Writes
  <2>4. ASSUME Whole
        PROVE  \A m \in Member : (status'[m] # "none") = (m \in Listed)
    <3>1. PICK f \in api.todo :
              /\ f \in Member \X Entry
              /\ status'[f[1]] = f[2]
              /\ \A m \in Member : m # f[1] => status'[m] = status[m]
      BY <1>3, <2>4, WritesOne DEF Whole
    <3>2. (status'[f[1]] # "none") = (f[1] \in Listed)
      BY <1>0, <3>1 DEF Writes
    <3>3. ASSUME NEW m \in Member, m # f[1]
          PROVE  (status'[m] # "none") = (m \in Listed)
      <4>1. ~Pending(m)
        BY <1>0, <3>1, <3>3 DEF Pending, Writes, Mon
      <4> QED
        BY <2>4, <3>1, <3>3, <4>1 DEF Whole, Complete
    <3> QED
      BY <3>2, <3>3
  <2>5. Whole => Fresh' /\ Hears' /\ Complete'
    <3>1. api.phase = "write"
      BY <1>3 DEF EntryWrite
    <3>2. Whole => ~(agent # Idle /\ agent.op = "write")
      BY <1>0, <3>1 DEF Whole, Fresh, BothInMap
    <3> QED
      BY <1>0, <1>1, <2>2, <2>4, <3>2 DEF Fresh, BothInMap, Hears, Complete
  <2> QED
    BY <1>1, <2>3, <2>5 DEF Whole
<1>4. ASSUME status' = status, api.todo = {}, api.phase # "read",
             api' = Idle \/ api'.phase # "write"
      PROVE  Whole /\ ~BothInMap' => Whole'
  <2>1. ~\E m \in Member : Pending(m)
    BY <1>4 DEF Pending
  <2>2. Whole => Hears' /\ Complete'
    BY <1>0, <1>1, <1>4, <2>1 DEF Whole, Hears, Complete
  <2> QED
    BY <1>0, <1>4, <2>2, Unwritten
<1>5. CASE HmAddLbhc
  <2>1. status' = status /\ api.todo = {} /\ api.phase # "read"
    BY <1>5, AddStep DEF HmAddLbhc
  <2>2. api' = Idle \/ (/\ api'.op = "hm_create" /\ api.op = "hm_create" /\ api'.on = api.on /\ api'.todo = {}
                       /\ api'.left = api.left /\ api'.phase # "write")
    BY <1>5, AddStep
  <2>3. Writes'
    BY <1>0, <1>1, <2>2 DEF Writes, Mon
  <2> QED
    BY <1>1, <1>4, <2>1, <2>2, <2>3
<1>6. CASE HmMapMember
  <2>1. status' = status /\ api.todo = {} /\ api.phase # "read"
    BY <1>6, MapStep DEF HmMapMember
  <2>2. api' = Idle \/ \E m \in members[api.on], entry \in {"ONLINE", "ERROR"} :
           /\ api.on \in Pool
           /\ api'.op = "hm_create" /\ api.op = "hm_create" /\ api'.on = api.on
           /\ api'.todo = {<<m, entry>>}
           /\ api'.left = api.left \ {m} /\ api'.phase # "write"
    BY <1>6, MapStep
  <2>3. Writes'
    <3>1. CASE api' = Idle
      BY <3>1 DEF Writes
    <3>2. CASE api' # Idle
      <4>1. PICK m \in members[api.on], entry \in {"ONLINE", "ERROR"} :
              /\ api.on \in Pool
              /\ api'.op = "hm_create" /\ api.op = "hm_create" /\ api'.on = api.on
              /\ api'.todo = {<<m, entry>>}
              /\ api'.left = api.left \ {m} /\ api'.phase # "write"
        BY <2>2, <3>2
      <4>2. m \in Listed
        BY <4>1 DEF Listed
      <4> QED
        BY <1>0, <1>1, <4>1, <4>2 DEF Writes, Mon
    <3> QED
      BY <3>1, <3>2
  <2> QED
    BY <1>1, <1>4, <2>1, <2>2, <2>3
<1>7. CASE HmClean \/ Report
  <2>1. status' = status /\ api' = Idle /\ api.todo = {} /\ api.phase # "read"
    BY <1>7, CleanStep, ReportStep DEF HmClean, Report, row
  <2>2. Writes'
    BY <2>1 DEF Writes
  <2> QED
    BY <1>1, <1>4, <2>1, <2>2
<1>8. CASE MemberRefresh
  <2>1. /\ status' = status /\ api' # Idle /\ api'.op = "member_update" /\ api'.todo = {}
        /\ api'.phase = "report" /\ api.todo = {} /\ api.phase # "read"
    BY <1>8, RefreshStep DEF MemberRefresh
  <2>2. Writes'
    BY <2>1 DEF Writes, Mon
  <2> QED
    BY <1>1, <1>4, <2>1, <2>2
<1> QED
  BY <1>2, <1>3, <1>5, <1>6, <1>7, <1>8 DEF ApiStep

LEMMA HoldsRest ==
    ASSUME BInv, TInv',
           \/ EventTake \/ EventWrite \/ EventReport
           \/ \E a \in Addr : ProbeResult(a) \/ MonitorGone(a)
    PROVE  Holds
<1> USE DEF BInv, Holds
<1>0. UNCHANGED <<members, api>>
  BY DEF EventTake, EventWrite, EventReport, ProbeResult, MonitorGone, row
<1>1. Listed' = Listed /\ Homes' /\ Writes'
  BY <1>0 DEF Listed, Homes, Writes
<1>2. CASE EventTake
  <2>1. /\ status' = status
        /\ agent' = Idle
           \/ \E m \in Listed : agent' = [op |-> "write", on |-> m, seen |-> status,
                                        value |-> Verdict(Head(events).state)]
    BY <1>2, TakeStep DEF Listed, row
  <2>2. Hears'
    BY <1>1, <2>1 DEF Hears, Verdict
  <2>3. Whole => Complete'
    BY <1>0, <1>1, <2>1 DEF Whole, Complete, Pending
  <2>4. Whole /\ ~BothInMap' => Fresh'
    BY <1>0, <2>1 DEF Whole, Fresh
  <2> QED
    BY <1>1, <2>2, <2>3, <2>4 DEF Whole
<1>3. CASE EventWrite
  <2>1. ASSUME Whole PROVE Whole'
    <3>1. /\ agent # Idle /\ agent.op = "write" /\ agent.on \in Member
          /\ agent' # Idle /\ agent'.op = "report"
          /\ status'[agent.on] = agent.value
          /\ \A m \in Member : m # agent.on => status'[m] = status[m]
      BY <1>3, <2>1, AgentWriteStep DEF Whole
    <3>2. ~(api # Idle /\ api.phase = "write")
      BY <2>1, <3>1 DEF Whole, Fresh, BothInMap
    <3>3. Fresh' /\ Hears'
      BY <1>0, <3>1, <3>2 DEF Fresh, BothInMap, Hears
    <3>4. Complete'
      <4>1. ASSUME NEW m \in Member, m # agent.on
            PROVE  Pending(m)' \/ (status'[m] # "none") = (m \in Listed)
        BY <1>0, <2>1, <3>1, <4>1 DEF Whole, Complete, Pending
      <4>2. CASE agent.on \in Listed
        BY <2>1, <3>1, <4>1, <4>2, <1>1 DEF Whole, Hears, Complete
      <4>3. CASE agent.on \notin Listed
        <5>1. /\ api # Idle /\ api.op = "member_delete" /\ api.on = agent.on
              /\ api.phase = "read"
          BY <2>1, <3>1, <4>3 DEF Whole, Hears
        <5>2. api.todo # {}
          BY <5>1 DEF TInv, Course, Then
        <5> QED
          BY <1>0, <1>1, <4>1, <5>1, <5>2 DEF Complete, Pending
      <4> QED
        BY <4>2, <4>3
    <3> QED
      BY <3>3, <3>4 DEF Whole
  <2> QED
    BY <1>1, <2>1
<1>4. CASE EventReport
  <2>1. agent' = Idle /\ status' = status
    BY <1>4 DEF EventReport, row
  <2>2. Whole => Whole'
    BY <1>0, <1>1, <2>1 DEF Whole, Fresh, BothInMap, Hears, Complete, Pending
  <2> QED
    BY <1>1, <2>2
<1>5. CASE \E a \in Addr : ProbeResult(a) \/ MonitorGone(a)
  <2>1. UNCHANGED <<status, agent>>
    BY <1>5 DEF ProbeResult, MonitorGone, row
  <2>2. Whole => Whole'
    BY <1>0, <1>1, <2>1 DEF Whole, Fresh, BothInMap, Hears, Complete, Pending
  <2> QED
    BY <1>1, <2>2
<1> QED
  BY <1>2, <1>3, <1>4, <1>5

LEMMA HoldsStep == BInv /\ [Next]_vars => Holds
<1> SUFFICES ASSUME BInv, [Next]_vars PROVE Holds
  OBVIOUS
<1>1. TInv'
  BY TInvStep DEF BInv
<1>2. CASE UNCHANGED vars
  BY <1>1, <1>2 DEF vars, row, Holds, BInv, Homes, Writes, Whole, Fresh, BothInMap, Hears,
                    Complete, Listed, Pending
<1>3. CASE Next
  BY <1>1, <1>3, HoldsApi, HoldsBegin, HoldsRest DEF Next
<1> QED
  BY <1>2, <1>3

LEMMA WholeInit == Init => BInv /\ Whole
<1> SUFFICES ASSUME Init PROVE BInv /\ Whole
  OBVIOUS
<1>1. Listed = {}
  BY DEF Init, Listed
<1>2. api = Idle /\ agent = Idle /\ status = NoStatus /\ members = [p \in Pool |-> {}]
  BY DEF Init
<1> QED
  BY <1>1, <1>2, TInvInit
  DEF BInv, Homes, Writes, Whole, Fresh, BothInMap, Hears, Complete, NoStatus

LEMMA EInvStep == EInv /\ [Next /\ Noted]_<<vars, crossed>> => EInv'
<1> SUFFICES ASSUME EInv, [Next /\ Noted]_<<vars, crossed>> PROVE EInv'
  OBVIOUS
<1>1. CASE Next /\ Noted
  <2>1. Holds
    BY <1>1, HoldsStep DEF EInv
  <2>2. ~crossed' => ~crossed /\ ~BothInMap'
    BY <1>1 DEF Noted
  <2> QED
    BY <2>1, <2>2 DEF EInv, Holds
<1>2. CASE UNCHANGED <<vars, crossed>>
  <2>1. Holds
    BY <1>2, HoldsStep DEF EInv
  <2>2. BothInMap' = BothInMap /\ crossed' = crossed
    BY <1>2 DEF vars, BothInMap
  <2> QED
    BY <2>1, <2>2 DEF EInv, Holds, Whole, Fresh
<1> QED
  BY <1>1, <1>2

\* Every member of the row has an entry, and no other, whenever both processes are
\* at rest: handlers may interleave at every other point, a deletion between an event and
\* its write included, and no entry is lost or comes back, unless the two had read the
\* map at once before either wrote it (_update_external_ids_member_status).
THEOREM EveryMemberHasAnEntry == Spec => []StatusComplete
<1>1. EInv => StatusComplete
  BY WhenIdle DEF EInv, Whole, StatusComplete, ApiIdle
<1>2. Init => EInv
  BY WholeInit DEF EInv
<1> QED
  BY <1>1, <1>2, EInvStep, PTL DEF Spec

LEMMA SInvInit == Init => SInv
BY WholeInit DEF SInv, Alone, Init

LEMMA SInvStep ==
    ASSUME Serial
    PROVE  SInv /\ [Next]_vars => SInv'
<1> SUFFICES ASSUME SInv, [Next]_vars PROVE SInv'
  OBVIOUS
<1>1. Holds
  BY HoldsStep DEF SInv
<1>2. Alone'
  <2>1. CASE UNCHANGED vars
    BY <2>1 DEF vars, SInv, Alone
  <2>2. CASE ApiStep
    BY <2>2 DEF ApiStep, EntryRead, EntryWrite, HmAddLbhc, HmMapMember, HmClean, MemberRefresh,
                Report, SInv, Alone
  <2>3. CASE \/ \E p \in Pool : HmCreate(p) \/ HmUpdate(p) \/ HmDelete(p)
             \/ \E m \in Member :
                   \/ \E up \in BOOLEAN : MemberCreate(m, up)
                   \/ \E how \in Updates : MemberUpdate(m, how)
                   \/ MemberDelete(m)
    BY <2>3 DEF HmCreate, HmUpdate, HmDelete, MemberCreate, MemberUpdate, MemberDelete, Begin,
                Serial, Alone
  <2>4. CASE EventTake
    BY <2>4 DEF EventTake, Serial, Alone
  <2>5. CASE EventWrite \/ EventReport \/ \E a \in Addr : ProbeResult(a) \/ MonitorGone(a)
    BY <2>5 DEF EventWrite, EventReport, ProbeResult, MonitorGone, SInv, Alone
  <2> QED
    BY <2>1, <2>2, <2>3, <2>4, <2>5 DEF Next
<1>3. ~BothInMap'
  BY <1>2 DEF Alone, BothInMap
<1> QED
  BY <1>1, <1>2, <1>3 DEF SInv, Holds

-----------------------------------------------------------------------------
(* The load balancer is not shown better than its members are              *)

LEMMA TopSays ==
    ASSUME TypeOK, NEW p \in Pool
    PROVE  /\ (\E m \in members[p] : status[m] = "ERROR") => Top(status) \in {"DEGRADED", "ERROR"}
           /\ members[p] # {} /\ (\A m \in members[p] : status[m] = "ERROR") =>
                 Top(status) = "ERROR"
<1> DEFINE below(q) == WorstOf({PoolStatus(members[q], status, TRUE)}, TRUE)
           all == {below(q) : q \in Pool}
<1>1. DOMAIN status = Member /\ members[p] \subseteq Member
  BY DEF TypeOK, Statuses
<1>2. below(p) \in all
  OBVIOUS
<1>3. (\E m \in members[p] : status[m] = "ERROR") =>
         PoolStatus(members[p], status, TRUE) \in {"DEGRADED", "ERROR"}
  BY <1>1 DEF PoolStatus
<1>4. members[p] # {} /\ (\A m \in members[p] : status[m] = "ERROR") =>
         PoolStatus(members[p], status, TRUE) = "ERROR"
  BY <1>1 DEF PoolStatus
<1>5. PoolStatus(members[p], status, TRUE) \in {"DEGRADED", "ERROR"} =>
         below(p) = PoolStatus(members[p], status, TRUE)
  BY DEF WorstOf
<1>6. Top(status) = WorstOf(all, TRUE)
  BY DEF Top
<1> HIDE DEF all, below
<1> QED
  BY <1>2, <1>3, <1>4, <1>5, <1>6 DEF WorstOf

LEMMA GInvInit == Init => GInv
BY DEF Init, GInv, NotTooGood

\* A handler that reports the load balancer does so from the map as it is.
LEMMA Reported ==
    ASSUME TypeOK, oTop' = Top(status), UNCHANGED <<members, status>>
    PROVE  NotTooGood'
BY TopSays DEF NotTooGood

LEMMA GInvStep ==
    ASSUME Serial
    PROVE  SInv /\ GInv /\ [Next]_vars => GInv'
<1> SUFFICES ASSUME SInv, GInv, [Next]_vars PROVE GInv'
  OBVIOUS
<1> USE DEF SInv, Whole
<1>1. TypeOK
  BY DEF BInv, TInv
<1>2. ASSUME UNCHANGED <<members, status, oTop>>, faulted' = faulted,
             ~faulted /\ agent' = Idle /\ (api' = Idle \/ api'.op = "hm_delete") =>
                agent = Idle /\ (api = Idle \/ api.op = "hm_delete")
      PROVE  GInv'
  BY <1>2 DEF GInv, NotTooGood
<1>3. CASE UNCHANGED vars
  BY <1>2, <1>3 DEF vars, row, octavia, neutron
<1>4. CASE \E p \in Pool : HmCreate(p) \/ (HmDelete(p) /\ p \in hms)
  BY <1>2, <1>4, HmStarts DEF row, neutron
<1>5. CASE \E p \in Pool : HmUpdate(p) \/ (HmDelete(p) /\ p \notin hms)
  BY <1>2, <1>5 DEF HmUpdate, HmDelete, row, neutron
<1>6. CASE \E m \in Member : \E up \in BOOLEAN : MemberCreate(m, up)
  BY <1>6, CreateStarts DEF GInv
<1>7. CASE \E m \in Member : \E how \in Updates : MemberUpdate(m, how)
  BY <1>7, UpdateStarts DEF GInv
<1>8. CASE \E m \in Member : MemberDelete(m)
  BY <1>8, DeleteStarts DEF GInv
<1>9. CASE EntryRead
  <2>1. api # Idle /\ api'.op = api.op /\ api' # Idle
    BY <1>9, ReadIs DEF BInv, TInv, EntryRead
  <2> QED
    BY <1>2, <1>9, <2>1 DEF EntryRead, row, neutron, octavia
<1>10. CASE EntryWrite
  <2>1. PICK e \in api.todo :
              /\ e \in Member \X Entry
              /\ status'[e[1]] = e[2]
              /\ \A m \in Member : m # e[1] => status'[m] = status[m]
    BY <1>10, WritesOne
  <2>2. api # Idle /\ api'.op = api.op /\ api' # Idle
    BY <1>10, WriteIs DEF BInv, TInv, EntryWrite
  <2>3. UNCHANGED <<members, oTop, faulted, agent>>
    BY <1>10 DEF EntryWrite, octavia, neutron
  <2>4. api.op = "hm_delete" => e[2] = "NO_MONITOR"
    BY <2>1, <2>2 DEF BInv, Writes
  <2>5. \A p \in Pool : members[p] \subseteq Member
    BY <1>1 DEF TypeOK
  <2>6. api.op = "hm_delete" =>
           \A m \in Member : status'[m] = "ERROR" => status[m] = "ERROR"
    BY <2>1, <2>4
  <2> QED
    BY <2>2, <2>3, <2>5, <2>6 DEF GInv, NotTooGood
<1>11. CASE HmAddLbhc
  BY <1>11, AddStep DEF GInv
<1>12. CASE HmMapMember
  BY <1>12, MapStep DEF GInv
<1>13. CASE HmClean
  <2>1. api # Idle /\ api.op = "hm_delete" /\ api' = Idle
    BY <1>13, CleanStep
  <2> QED
    BY <1>2, <1>13, <2>1 DEF HmClean
<1>14. CASE MemberRefresh
  BY <1>14, RefreshStep DEF GInv
<1>15. CASE Report
  BY <1>1, <1>15, Reported DEF Report, row, GInv
<1>16. CASE EventTake
  <2>1. api = Idle /\ agent = Idle
    BY <1>16, TakeStep DEF EventTake
  <2> QED
    BY <1>2, <1>16, <2>1 DEF EventTake, row, octavia, neutron
<1>17. CASE EventWrite
  BY <1>17, AgentWriteStep DEF GInv
<1>18. CASE EventReport
  BY <1>1, <1>18, Reported DEF EventReport, row, GInv
<1>19. CASE \E a \in Addr : ProbeResult(a) \/ MonitorGone(a)
  BY <1>2, <1>19 DEF ProbeResult, MonitorGone, row, octavia, neutron
<1> QED
  BY <1>3, <1>4, <1>5, <1>6, <1>7, <1>8, <1>9, <1>10, <1>11, <1>12, <1>13, <1>14, <1>15, <1>16,
     <1>17, <1>18, <1>19 DEF Next, ApiStep

\* With one handler at a time, and as long as no call to Neutron or the database has
\* failed, Octavia does not show the load balancer better than its members are
\* when the requests and events are handled: each handler's report, or the lack of
\* one in hm_delete, agrees with _get_current_operating_statuses.
THEOREM TopFollowsMembers ==
    ASSUME Serial
    PROVE  Spec => []NeverTooGood
<1>1. GInv => NeverTooGood
  BY DEF GInv, NotTooGood, NeverTooGood, Quiet
<1> QED
  BY <1>1, GInvInit, GInvStep, SInvInit, SInvStep, StepIs, PTL DEF Spec

-----------------------------------------------------------------------------
(* A probed member stays probed                                            *)

LEMMA PInvInit == Init => Kept /\ Awake
<1> SUFFICES ASSUME Init PROVE Kept /\ Awake
  OBVIOUS
<1>1. api = Idle /\ hms = {} /\ \A p \in Pool : oHm[p] = "ABSENT"
  BY DEF Init
<1> QED
  BY <1>1 DEF Kept, Awake

LEMMA KeptStep ==
    ASSUME BInv, Kept, [Next]_vars
    PROVE  Kept'
<1> USE DEF BInv
<1>a. oHm \in [Pool -> {"ABSENT", "ACTIVE", "ERROR"}] /\ hms \subseteq Pool
  BY DEF TInv, TypeOK
<1>0. ASSUME UNCHANGED <<oHm, hms>>,
             \/ UNCHANGED api
             \/ api' = Idle \/ api'.op # "hm_create"
             \/ api # Idle /\ api'.op = api.op /\ api'.on = api.on /\ api'.then = api.then
      PROVE  Kept'
  BY <1>0 DEF Kept
<1>1. CASE UNCHANGED vars
  BY <1>0, <1>1 DEF vars, row, octavia
<1>2. CASE \E p \in Pool : HmCreate(p) \/ (HmDelete(p) /\ p \in hms)
  <2>1. PICK p \in Pool : HmCreate(p) \/ (HmDelete(p) /\ p \in hms)
    BY <1>2
  <2>2. UNCHANGED <<oHm, hms>>
    BY <2>1, HmStarts DEF row
  <2>3. CASE HmCreate(p)
    <3>1. oHm[p] = "ABSENT"
      BY <2>3 DEF HmCreate
    <3>2. api' # Idle /\ api'.on = p /\ api'.op = "hm_create" /\ api'.then = "lbhc"
      BY <2>1, <2>3, HmStarts
    <3> QED
      BY <2>2, <3>1, <3>2 DEF Kept
  <2>4. CASE ~HmCreate(p)
    <3>1. api'.op = "hm_delete"
      BY <2>1, <2>4, HmStarts
    <3> QED
      BY <1>0, <2>2, <3>1
  <2> QED
    BY <2>3, <2>4
<1>3. CASE \E p \in Pool : HmUpdate(p) \/ (HmDelete(p) /\ p \notin hms)
  <2>1. PICK p \in Pool : HmUpdate(p) \/ (HmDelete(p) /\ p \notin hms)
    BY <1>3
  <2>2. /\ api' = Idle /\ hms' = hms
        /\ \/ oHm' = [oHm EXCEPT ![p] = IF p \in hms THEN "ACTIVE" ELSE "ERROR"]
           \/ oHm' = [oHm EXCEPT ![p] = "ABSENT"]
    BY <2>1 DEF HmUpdate, HmDelete, Begin, row
  <2> QED
    BY <1>a, <2>2 DEF Kept
<1>4. CASE \E m \in Member : \E up \in BOOLEAN : MemberCreate(m, up)
  <2>1. UNCHANGED <<oHm, hms>> /\ api'.op # "hm_create"
    BY <1>4, CreateStarts
  <2> QED
    BY <1>0, <2>1
<1>5. CASE \E m \in Member : \E how \in Updates : MemberUpdate(m, how)
  <2>1. UNCHANGED <<oHm, hms>> /\ api'.op # "hm_create"
    BY <1>5, UpdateStarts DEF row
  <2> QED
    BY <1>0, <2>1
<1>6. CASE \E m \in Member : MemberDelete(m)
  <2>1. UNCHANGED <<oHm, hms>> /\ api'.op # "hm_create"
    BY <1>6, DeleteStarts
  <2> QED
    BY <1>0, <2>1
<1>7. CASE EntryRead \/ EntryWrite
  <2>1. api # Idle /\ api'.op = api.op /\ api'.on = api.on /\ api'.then = api.then
    BY <1>7, ReadIs, WriteIs DEF TInv, EntryRead, EntryWrite
  <2> QED
    BY <1>0, <1>7, <2>1 DEF EntryRead, EntryWrite, row, octavia
<1>8. CASE HmAddLbhc
  <2>1. /\ api # Idle /\ api.op = "hm_create" /\ api.on \in Pool
        /\ \/ /\ hms' = hms \cup {api.on} /\ UNCHANGED oHm
              /\ api'.on = api.on
           \/ /\ api' = Idle /\ hms' = hms
              /\ oHm' = [oHm EXCEPT ![api.on] = "ERROR"]
    BY <1>8, AddStep
  <2> QED
    BY <1>a, <2>1 DEF Kept
<1>9. CASE HmMapMember
  <2>1. /\ api # Idle /\ api.op = "hm_create" /\ api.on \in Pool /\ hms' = hms
        /\ \/ UNCHANGED oHm /\ api'.on = api.on
           \/ api' = Idle /\ oHm' = [oHm EXCEPT ![api.on] = "ERROR"]
    BY <1>9, MapStep
  <2>2. api.on \in hms
    BY <1>9, <2>1 DEF HmMapMember, Kept, TInv, Course, Then
  <2> QED
    BY <1>a, <2>1, <2>2 DEF Kept
<1>10. CASE HmClean
  <2>1. /\ api.on \in Pool /\ api' = Idle /\ hms' = hms \ {api.on}
        /\ oHm' = [oHm EXCEPT ![api.on] = "ABSENT"]
    BY <1>10, CleanStep DEF HmClean
  <2> QED
    BY <1>a, <2>1 DEF Kept
<1>11. CASE MemberRefresh
  <2>1. api'.op # "hm_create"
    BY <1>11, RefreshStep
  <2> QED
    BY <1>0, <1>11, <2>1 DEF MemberRefresh, octavia
<1>12. CASE Report
  <2>1. api # Idle /\ api.phase = "report" /\ api.todo = {} /\ api' = Idle /\ hms' = hms
    BY <1>12, ReportStep DEF Report, row
  <2>2. api.op = "hm_create" => api.on \in hms
    BY <2>1 DEF Kept, TInv, Course
  <2>3. oHm' = oHm \/ (api.op = "hm_create" /\ oHm' = [oHm EXCEPT ![api.on] = "ACTIVE"])
    BY <1>12 DEF Report
  <2> QED
    BY <1>a, <2>1, <2>2, <2>3 DEF Kept
<1>13. CASE \/ EventTake \/ EventWrite \/ EventReport
            \/ \E a \in Addr : ProbeResult(a) \/ MonitorGone(a)
  BY <1>0, <1>13 DEF EventTake, EventWrite, EventReport, ProbeResult, MonitorGone, row, octavia
<1> QED
  BY <1>1, <1>2, <1>3, <1>4, <1>5, <1>6, <1>7, <1>8, <1>9, <1>10, <1>11, <1>12, <1>13
  DEF Next, ApiStep

LEMMA AwakeStep ==
    ASSUME BInv, Whole, Awake, [Next]_vars
    PROVE  Awake'
<1> USE DEF BInv, Whole
<1>a. members \in [Pool -> SUBSET Member] /\ hms \subseteq Pool
  BY DEF TInv, TypeOK
<1>0. ASSUME UNCHANGED <<members, status, hms>>,
             \/ UNCHANGED api
             \/ /\ api # Idle /\ api' # Idle /\ api'.op = api.op
                /\ api'.on = api.on /\ api'.todo = api.todo
             \/ api # Idle /\ api' = Idle /\ api.op # "hm_delete"
      PROVE  Awake'
  BY <1>0 DEF Awake, Deleting
<1>1. CASE UNCHANGED vars
  BY <1>0, <1>1 DEF vars, row
<1>2. CASE \E p \in Pool : HmCreate(p) \/ (HmDelete(p) /\ p \in hms)
  <2>1. PICK p \in Pool : HmCreate(p) \/ (HmDelete(p) /\ p \in hms)
    BY <1>2
  <2>2. /\ UNCHANGED <<members, status, hms>> /\ api = Idle /\ api' # Idle /\ api'.on = p
        /\ \/ api'.op = "hm_create" /\ api'.todo = members[p] \X {"ONLINE"}
           \/ api'.op = "hm_delete"
    BY <2>1, HmStarts DEF row
  <2> QED
    BY <2>2 DEF Awake, Deleting
<1>3. CASE \E p \in Pool : HmUpdate(p) \/ (HmDelete(p) /\ p \notin hms)
  BY <1>0, <1>3 DEF HmUpdate, HmDelete, row
<1>4. CASE \E m \in Member : \E up \in BOOLEAN : MemberCreate(m, up)
  <2>1. PICK m \in Member, up \in BOOLEAN : MemberCreate(m, up)
    BY <1>4
  <2>2. PICK result \in {"ONLINE", "ERROR", "NO_MONITOR", "OFFLINE"} :
          /\ api = Idle /\ UNCHANGED <<status, hms>> /\ m \notin Listed
          /\ members' = [members EXCEPT ![PoolOf[m]] = @ \cup {m}]
          /\ api' # Idle /\ api'.op = "member_create"
          /\ api'.todo = {<<m, result>>}
          /\ result = "NO_MONITOR" => hms = {}
    BY <2>1, CreateStarts
  <2>3. status[m] # "NO_MONITOR"
    BY <2>2, WhenIdle
  <2> QED
    BY <1>a, <2>2, <2>3 DEF Awake, Deleting
<1>5. CASE \E m \in Member : \E how \in Updates : MemberUpdate(m, how)
  <2>1. PICK m \in Member, how \in Updates : MemberUpdate(m, how)
    BY <1>5
  <2>2. /\ api = Idle /\ UNCHANGED <<members, status, hms>>
        /\ m \in Listed /\ m \in members[PoolOf[m]]
        /\ api' # Idle /\ api'.op = "member_update"
        /\ api'.todo = {} \/ /\ api'.todo = {<<m, api'.now>>}
                             /\ \/ api'.now # "NO_MONITOR"
                                \/ hms = {} \/ status[m] = "none" \/ status[m] = "NO_MONITOR"
    <3>1. UNCHANGED row
      BY <2>1, UpdateStarts
    <3> QED
      BY <2>1, <3>1, UpdateStarts DEF row
  <2>3. status[m] # "none"
    BY <2>2, WhenIdle
  <2>4. status[m] = "NO_MONITOR" => PoolOf[m] \notin hms
    BY <2>2 DEF Awake, Deleting
  <2> QED
    BY <2>2, <2>3, <2>4 DEF Awake, Deleting
<1>6. CASE \E m \in Member : MemberDelete(m)
  <2>1. PICK m \in Member : MemberDelete(m)
    BY <1>6
  <2>2. /\ api = Idle /\ UNCHANGED <<status, hms>>
        /\ members' = [members EXCEPT ![PoolOf[m]] = @ \ {m}]
        /\ api' # Idle /\ api'.op = "member_delete" /\ api'.todo = {<<m, "none">>}
    BY <2>1, DeleteStarts
  <2> QED
    BY <1>a, <2>2 DEF Awake, Deleting
<1>7. CASE EntryRead
  <2>1. api # Idle /\ api' # Idle /\ api'.op = api.op /\ api'.on = api.on /\ api'.todo = api.todo
    BY <1>7, ReadIs DEF TInv, EntryRead
  <2> QED
    BY <1>0, <1>7, <2>1 DEF EntryRead, row
<1>8. CASE EntryWrite
  <2>1. PICK e \in api.todo :
            /\ e \in Member \X Entry /\ api'.todo = api.todo \ {e}
            /\ status'[e[1]] = e[2]
            /\ \A m \in Member : m # e[1] => status'[m] = status[m]
    BY <1>8, WritesOne
  <2>2. /\ api # Idle /\ api' # Idle /\ api'.op = api.op /\ api'.on = api.on
        /\ UNCHANGED <<members, hms>>
    BY <1>8, WriteIs DEF TInv, EntryWrite
  <2>3. api.op = "hm_delete" => e[1] \in members[api.on] /\ api.on \in Pool
    BY <2>1, <2>2 DEF Writes, Mon, TInv, Course
  <2>4. ASSUME NEW p \in hms, ~Deleting(p), NEW m \in members[p]
        PROVE  status'[m] # "NO_MONITOR"
    <3>1. PoolOf[m] = p /\ m \in Member
      BY <1>a, <2>4 DEF Homes
    <3>2. CASE m # e[1]
      BY <2>1, <2>4, <3>1, <3>2 DEF Awake
    <3>3. CASE m = e[1] /\ api.op = "hm_delete"
      BY <2>2, <2>3, <2>4, <3>1, <3>3 DEF Homes, Deleting
    <3>4. CASE m = e[1] /\ api.op # "hm_delete"
      BY <2>1, <2>2, <3>1, <3>4 DEF Awake
    <3> QED
      BY <3>2, <3>3, <3>4
  <2>5. ASSUME api.op = "hm_create", NEW m \in members[api.on]
        PROVE  status'[m] # "NO_MONITOR" \/ <<m, "ONLINE">> \in api'.todo
    <3>1. m \in Member
      BY <1>a, <2>2, <2>5 DEF TInv, Course, Mon
    <3>2. CASE m # e[1]
      BY <2>1, <2>2, <2>5, <3>1, <3>2 DEF Awake
    <3>3. CASE m = e[1]
      BY <2>1, <2>2, <2>5, <3>3 DEF Awake
    <3> QED
      BY <3>2, <3>3
  <2>6. api.op # "hm_delete" =>
           \A f \in api'.todo : f[2] = "NO_MONITOR" =>
              PoolOf[f[1]] \notin hms /\ api.op # "hm_create"
    BY <2>1, <2>2 DEF Awake
  <2>7. \A p \in hms : Deleting(p)' = Deleting(p)
    BY <2>2 DEF Deleting
  <2> QED
    BY <2>2, <2>4, <2>5, <2>6, <2>7 DEF Awake
<1>9. CASE HmAddLbhc
  <2>1. /\ api # Idle /\ api.op = "hm_create" /\ api.on \in Pool /\ api.todo = {}
        /\ UNCHANGED <<members, status>>
        /\ \/ /\ hms' = hms \cup {api.on}
              /\ api' # Idle /\ api'.op = "hm_create" /\ api'.on = api.on /\ api'.todo = {}
           \/ api' = Idle /\ hms' = hms
    BY <1>9, AddStep
  <2> QED
    BY <2>1 DEF Awake, Deleting
<1>10. CASE HmMapMember
  <2>1. /\ api # Idle /\ api.op = "hm_create" /\ api.todo = {}
        /\ UNCHANGED <<members, status, hms>>
        /\ \/ \E m \in api.left, entry \in {"ONLINE", "ERROR"} :
                 /\ api' # Idle /\ api'.op = "hm_create" /\ api'.on = api.on
                 /\ api'.todo = {<<m, entry>>}
           \/ api' = Idle
    BY <1>10, MapStep
  <2> QED
    BY <2>1 DEF Awake, Deleting
<1>11. CASE HmClean
  <2>1. /\ api # Idle /\ api' = Idle /\ hms' = hms \ {api.on}
        /\ UNCHANGED <<members, status>>
    BY <1>11, CleanStep DEF HmClean
  <2> QED
    BY <2>1 DEF Awake, Deleting
<1>12. CASE MemberRefresh
  <2>1. /\ api # Idle /\ api' # Idle /\ api.op = "member_update" /\ api'.op = "member_update"
        /\ api'.todo = {}
    BY <1>12, RefreshStep
  <2> QED
    BY <1>12, <2>1 DEF MemberRefresh, Awake, Deleting
<1>13. CASE Report
  <2>1. /\ api # Idle /\ api' = Idle /\ api.op # "hm_delete" /\ UNCHANGED row
    BY <1>13, ReportStep DEF Report, TInv, Course, Then
  <2> QED
    BY <1>0, <2>1 DEF row
<1>14. CASE EventWrite
  <2>1. /\ UNCHANGED <<members, hms, api>>
        /\ agent.on \in Member /\ status'[agent.on] = agent.value
        /\ agent.value \in {"ONLINE", "ERROR"}
        /\ \A m \in Member : m # agent.on => status'[m] = status[m]
    BY <1>14, AgentWriteStep DEF Hears
  <2>2. \A m \in Member : status'[m] = "NO_MONITOR" => status[m] = "NO_MONITOR"
    BY <2>1
  <2>3. api # Idle /\ api.op = "hm_create" => api.on \in Pool
    BY DEF TInv, Course, Mon
  <2> QED
    BY <1>a, <2>1, <2>2, <2>3 DEF Awake, Deleting
<1>15. CASE \/ EventTake \/ EventReport
            \/ \E a \in Addr : ProbeResult(a) \/ MonitorGone(a)
  BY <1>0, <1>15 DEF EventTake, EventReport, ProbeResult, MonitorGone, row
<1> QED
  BY <1>1, <1>2, <1>3, <1>4, <1>5, <1>6, <1>7, <1>8, <1>9, <1>10, <1>11, <1>12, <1>13, <1>14,
     <1>15 DEF Next, ApiStep

LEMMA PInvStep == EInv /\ PInv /\ [Next /\ Noted]_<<vars, crossed>> => PInv'
<1> SUFFICES ASSUME EInv, PInv, [Next /\ Noted]_<<vars, crossed>> PROVE PInv'
  OBVIOUS
<1>1. [Next]_vars /\ BInv
  BY StepIs DEF EInv
<1>2. ~crossed' => ~crossed
  BY DEF Noted
<1>3. ~crossed => Whole /\ Awake
  BY DEF EInv, PInv
<1>4. Kept'
  BY <1>1, KeptStep DEF PInv
<1>5. ~crossed' => Awake'
  BY <1>1, <1>2, <1>3, AwakeStep
<1> QED
  BY <1>4, <1>5 DEF PInv

\* _clean_ip_port_mappings leaves the mapping of a member of another pool whose status
\* is not NO_MONITOR.
LEMMA CleanSpares ==
    ASSUME TypeOK, Homes, NEW p \in Pool, NEW m \in Listed, PoolOf[m] # p,
           status[m] # "NO_MONITOR", IpOf[AddrOf[m]] \in mapping
    PROVE  IpOf[AddrOf[m]] \in CleanMapping(p)
<1>1. PICK q \in Pool : m \in members[q]
  BY DEF Listed
<1>2. q # p
  BY <1>1 DEF Homes
<1> QED
  BY <1>1, <1>2 DEF CleanMapping

\* Nor does _clean_up_hm_port take a port that a mapping needs.
LEMMA CleanUpSpares ==
    ASSUME NEW subnets, NEW ports, NEW map, NEW hm, hm # {}, NEW i \in map, SubnetOf[i] \in ports
    PROVE  SubnetOf[i] \in CleanUpPort(subnets, ports, map, hm)
BY DEF CleanUpPort

LEMMA ProbedStep ==
    ASSUME BInv, Kept, Awake, [Next]_vars, NEW m \in Member, Probed(m)
    PROVE  \/ Probed(m)'
           \/ oHm'[PoolOf[m]] = "ABSENT"
           \/ \E x \in Listed \ Listed' : IpOf[AddrOf[x]] = IpOf[AddrOf[m]]
<1> DEFINE i == IpOf[AddrOf[m]]
           p == PoolOf[m]
<1> USE DEF BInv
<1>a. /\ oHm \in [Pool -> {"ABSENT", "ACTIVE", "ERROR"}] /\ TypeOK
      /\ i \in Ip /\ p \in Pool
  BY HealthAssumption DEF TInv, TypeOK
<1>b. m \in Listed /\ oHm[p] = "ACTIVE" /\ i \in mapping /\ SubnetOf[i] \in hmPort
  BY DEF Probed
<1>c. p \in hms /\ m \in members[p]
  <2>1. PICK q \in Pool : m \in members[q]
    BY <1>b DEF Listed
  <2> QED
    BY <1>a, <1>b, <2>1 DEF Kept, Homes
<1>0. ASSUME m \in Listed', oHm'[p] = "ACTIVE", i \in mapping', SubnetOf[i] \in hmPort'
      PROVE  Probed(m)'
  BY <1>0 DEF Probed
<1>1. CASE UNCHANGED vars
  BY <1>0, <1>b, <1>1 DEF vars, row, neutron, octavia, Listed
<1>2. CASE \E q \in Pool : HmCreate(q) \/ (HmDelete(q) /\ q \in hms)
  BY <1>0, <1>b, <1>2, HmStarts DEF row, neutron, Listed
<1>3. CASE \E q \in Pool : HmUpdate(q) \/ (HmDelete(q) /\ q \notin hms)
  <2>1. PICK q \in Pool : HmUpdate(q) \/ (HmDelete(q) /\ q \notin hms)
    BY <1>3
  <2>2. UNCHANGED <<members, mapping, hmPort>>
    BY <2>1 DEF HmUpdate, HmDelete, row, neutron
  <2>3. oHm'[p] \in {"ACTIVE", "ABSENT"}
    BY <1>a, <1>b, <1>c, <2>1 DEF HmUpdate, HmDelete
  <2> QED
    BY <1>0, <1>b, <2>2, <2>3 DEF Listed
<1>4. CASE \E x \in Member : \E up \in BOOLEAN : MemberCreate(x, up)
  <2>1. PICK x \in Member, up \in BOOLEAN : MemberCreate(x, up)
    BY <1>4
  <2>2. Listed' = Listed \cup {x} /\ oHm' = oHm
    BY <2>1, CreateStarts
  <2>3. \/ UNCHANGED <<mapping, hmPort>>
        \/ \E h \in HmMember(x, FALSE) : hmPort' = h.ports /\ mapping' = h.map
    <3>1. CASE up /\ hms # {}
      BY <2>1, <3>1 DEF MemberCreate
    <3>2. CASE ~(up /\ hms # {})
      BY <2>1, <3>2 DEF MemberCreate, neutron
    <3> QED
      BY <3>1, <3>2
  <2>4. i \in mapping' /\ SubnetOf[i] \in hmPort'
    BY <1>b, <2>3 DEF HmMember
  <2> QED
    BY <1>0, <1>b, <2>2, <2>4
<1>5. CASE \E x \in Member : \E how \in Updates : MemberUpdate(x, how)
  BY <1>0, <1>b, <1>5, UpdateStarts DEF row, neutron, Listed
<1>6. CASE \E x \in Member : MemberDelete(x)
  <2>1. PICK x \in Member : MemberDelete(x)
    BY <1>6
  <2>2. x \in Listed /\ Listed' = Listed \ {x} /\ oHm' = oHm
    BY <2>1, DeleteStarts
  <2>3. CASE IpOf[AddrOf[x]] = i
    BY <2>2, <2>3
  <2>4. CASE IpOf[AddrOf[x]] # i
    <3>1. m \in Listed' /\ m \in Listed \ {x}
      BY <1>b, <2>2, <2>4
    <3>2. PICK h \in HmMember(x, TRUE) :
             /\ mapping' = h.map
             /\ hmPort' = IF SubnetOf[IpOf[AddrOf[x]]] \notin SubnetsOf(Listed \ {x})
                          THEN CleanUpPort({SubnetOf[IpOf[AddrOf[x]]]}, h.ports, h.map, hms)
                          ELSE h.ports
      BY <1>c, <2>1 DEF MemberDelete
    <3>3. i \in h.map /\ SubnetOf[i] \in h.ports
      BY <1>b, <2>4, <3>2 DEF HmMember
    <3>4. SubnetOf[i] \in hmPort'
      BY <1>c, <3>2, <3>3, CleanUpSpares
    <3> QED
      BY <1>0, <1>b, <2>2, <3>1, <3>2, <3>3, <3>4
  <2> QED
    BY <2>3, <2>4
<1>7. CASE EntryRead \/ EntryWrite \/ MemberRefresh
  BY <1>0, <1>b, <1>7 DEF EntryRead, EntryWrite, MemberRefresh, row, neutron, octavia, Listed
<1>8. CASE HmAddLbhc
  <2>1. /\ api # Idle /\ api.op = "hm_create" /\ UNCHANGED <<members, mapping, hmPort>>
        /\ oHm' = oHm \/ oHm' = [oHm EXCEPT ![api.on] = "ERROR"]
    BY <1>8, AddStep
  <2>2. api.on # p
    BY <1>b, <2>1 DEF Kept
  <2> QED
    BY <1>0, <1>a, <1>b, <2>1, <2>2 DEF Listed
<1>9. CASE HmMapMember
  <2>1. /\ api # Idle /\ api.op = "hm_create" /\ api.on \in Pool /\ members' = members
        /\ oHm' = oHm \/ oHm' = [oHm EXCEPT ![api.on] = "ERROR"]
    BY <1>9, MapStep
  <2>2. api.on # p
    BY <1>b, <2>1 DEF Kept
  <2>3. status[m] # "NO_MONITOR"
    BY <1>c, <2>1 DEF Awake, Deleting
  <2>4. i \in CleanMapping(api.on)
    BY <1>a, <1>b, <2>1, <2>2, <2>3, CleanSpares
  <2>5. PICK x \in api.left : \E h \in HmMember(x, FALSE) :
           hmPort' = h.ports /\ (mapping' = h.map \/ mapping' = CleanMapping(api.on))
    BY <1>9 DEF HmMapMember
  <2>6. i \in mapping' /\ SubnetOf[i] \in hmPort'
    BY <1>b, <2>4, <2>5 DEF HmMember
  <2> QED
    BY <1>0, <1>a, <1>b, <2>1, <2>2, <2>6 DEF Listed
<1>10. CASE HmClean
  <2>1. /\ api # Idle /\ api.op = "hm_delete" /\ api.on \in Pool
        /\ members' = members /\ mapping' = CleanMapping(api.on) /\ hms' = hms \ {api.on}
        /\ hmPort' = CleanUpPort(SubnetsOf(members[api.on]), hmPort, mapping', hms')
        /\ oHm' = [oHm EXCEPT ![api.on] = "ABSENT"]
    BY <1>10, CleanStep DEF HmClean
  <2>2. CASE api.on = p
    BY <1>a, <2>1, <2>2
  <2>3. CASE api.on # p
    <3>1. status[m] # "NO_MONITOR"
      BY <1>c, <2>3 DEF Awake, Deleting
    <3>2. i \in mapping'
      BY <1>a, <1>b, <2>1, <2>3, <3>1, CleanSpares
    <3>3. hms' # {}
      BY <1>c, <2>1, <2>3
    <3>4. SubnetOf[i] \in hmPort'
      BY <1>b, <2>1, <3>2, <3>3, CleanUpSpares
    <3> QED
      BY <1>0, <1>a, <1>b, <2>1, <2>3, <3>2, <3>4 DEF Listed
  <2> QED
    BY <2>2, <2>3
<1>11. CASE Report
  <2>1. UNCHANGED <<members, mapping, hmPort>>
        /\ (oHm' = oHm \/ oHm' = [oHm EXCEPT ![api.on] = "ACTIVE"])
    BY <1>11 DEF Report, row, neutron
  <2> QED
    BY <1>0, <1>a, <1>b, <2>1 DEF Listed
<1>12. CASE \/ EventTake \/ EventWrite \/ EventReport
            \/ \E a \in Addr : ProbeResult(a) \/ MonitorGone(a)
  BY <1>0, <1>b, <1>12
  DEF EventTake, EventWrite, EventReport, ProbeResult, MonitorGone, row, neutron, octavia, Listed
<1> QED
  BY <1>1, <1>2, <1>3, <1>4, <1>5, <1>6, <1>7, <1>8, <1>9, <1>10, <1>11, <1>12
  DEF Next, ApiStep

\* A probed member stays probed until its own monitor goes or a member at its IP
\* address: no other request takes its mapping or the port away, whatever fails,
\* however the handlers interleave and whoever shares addresses and subnets, as long as no
\* write of the map of statuses went out from a stale copy, for that map is what
\* _clean_ip_port_mappings goes by.
THEOREM ProbedStay == Spec => ProbedStays
<1>1. EInv /\ PInv /\ [Next /\ Noted]_<<vars, crossed>> =>
        [\A m \in Member : Probed(m) /\ ~Probed(m)' =>
            \/ crossed
            \/ oHm'[PoolOf[m]] = "ABSENT"
            \/ \E x \in Listed \ Listed' : IpOf[AddrOf[x]] = IpOf[AddrOf[m]]]_<<vars, crossed>>
  BY StepIs, ProbedStep DEF EInv, PInv
<1>2. Init => EInv /\ PInv
  BY WholeInit, PInvInit DEF EInv, PInv
<1> QED
  BY <1>1, <1>2, EInvStep, PInvStep, PTL DEF Spec, ProbedStays

-----------------------------------------------------------------------------
(* Statuses follow the probes                                              *)

OneEach == ExactTexts /\ OneMemberPerAddr

LEMMA HInvInit == Init => HInv
<1> SUFFICES ASSUME Init PROVE HInv
  OBVIOUS
<1>1. api = Idle /\ hms = {} /\ Listed = {}
  BY DEF Init, Listed
<1> QED
  BY <1>1 DEF HInv, Keyed, CaughtUp, Updating, Followed

\* Events at the end and at the head of what waits.
Events == Seq([addr : Addr, state : {"online", "offline"}])

LEMMA LaterEvent ==
    ASSUME NEW evs \in Events, NEW a, NEW b \in Addr, NEW state \in {"online", "offline"}
    PROVE  LET more == Append(evs, [addr |-> b, state |-> state])
           IN  /\ a = b => LastSays(more, a, state)
               /\ a # b => /\ NoneFor(evs, a) => NoneFor(more, a)
                          /\ \A s : LastSays(evs, a, s) => LastSays(more, a, s)
<1> DEFINE e == [addr |-> b, state |-> state]
           more == Append(evs, e)
           n == Len(evs)
<1>1. e \in [addr : Addr, state : {"online", "offline"}] /\ e.addr = b /\ e.state = state
  OBVIOUS
<1>2. /\ n \in Nat /\ Len(more) = n + 1 /\ more[n + 1] = e
      /\ \A k \in 1..n : more[k] = evs[k]
  BY <1>1 DEF Events
<1> HIDE DEF more, n, e
<1>3. a = b => LastSays(more, a, state)
  BY <1>1, <1>2 DEF LastSays
<1>4. ASSUME a # b, NoneFor(evs, a) PROVE NoneFor(more, a)
  <2>1. \A k \in 1..Len(more) : k \in 1..n \/ k = n + 1
    BY <1>2
  <2> QED
    BY <1>1, <1>2, <1>4, <2>1 DEF NoneFor, n
<1>5. ASSUME a # b, NEW s, LastSays(evs, a, s) PROVE LastSays(more, a, s)
  <2>1. PICK k \in 1..n : /\ evs[k].addr = a /\ evs[k].state = s
                          /\ \A j \in 1..n : j > k => evs[j].addr # a
    BY <1>5 DEF LastSays, n
  <2>2. k \in 1..Len(more) /\ more[k] = evs[k]
    BY <1>2, <2>1
  <2>3. \A j \in 1..Len(more) : j > k => more[j].addr # a
    <3>1. \A j \in 1..Len(more) : j \in 1..n \/ j = n + 1
      BY <1>2
    <3> QED
      BY <1>1, <1>2, <1>5, <2>1, <3>1
  <2> QED
    BY <2>1, <2>2, <2>3 DEF LastSays
<1> QED
  BY <1>3, <1>4, <1>5 DEF more, e

LEMMA FirstEvent ==
    ASSUME NEW evs \in Events, evs # <<>>, NEW a
    PROVE  /\ Head(evs).addr # a =>
                /\ NoneFor(evs, a) => NoneFor(Tail(evs), a)
                /\ \A s : LastSays(evs, a, s) => LastSays(Tail(evs), a, s)
           /\ Head(evs).addr = a =>
                /\ ~NoneFor(evs, a)
                /\ \A s : LastSays(evs, a, s) =>
                      \/ LastSays(Tail(evs), a, s)
                      \/ NoneFor(Tail(evs), a) /\ Head(evs).state = s
<1> DEFINE n == Len(evs)
           rest == Tail(evs)
<1>1. /\ n \in Nat /\ n >= 1 /\ Len(rest) = n - 1 /\ Head(evs) = evs[1]
      /\ \A k \in 1..(n - 1) : rest[k] = evs[k + 1]
  BY DEF Events
<1> HIDE DEF n, rest
<1>2. ASSUME Head(evs).addr = a PROVE ~NoneFor(evs, a)
  BY <1>1, <1>2 DEF NoneFor, n
<1>3. ASSUME NoneFor(evs, a) PROVE NoneFor(rest, a)
  <2>1. \A k \in 1..Len(rest) : k + 1 \in 1..n /\ rest[k] = evs[k + 1]
    BY <1>1
  <2> QED
    BY <1>3, <2>1 DEF NoneFor, n
<1>4. ASSUME NEW s, LastSays(evs, a, s)
      PROVE  \/ LastSays(rest, a, s)
             \/ NoneFor(rest, a) /\ Head(evs).state = s /\ Head(evs).addr = a
  <2>1. PICK k \in 1..n : /\ evs[k].addr = a /\ evs[k].state = s
                          /\ \A j \in 1..n : j > k => evs[j].addr # a
    BY <1>4 DEF LastSays, n
  <2>2. \A j \in 1..Len(rest) : j + 1 \in 1..n /\ rest[j] = evs[j + 1]
    BY <1>1
  <2>3. CASE k = 1
    <3>1. \A j \in 1..Len(rest) : j + 1 > k
      BY <1>1, <2>3
    <3>2. NoneFor(rest, a)
      BY <2>1, <2>2, <3>1 DEF NoneFor
    <3> QED
      BY <1>1, <2>1, <2>3, <3>2
  <2>4. CASE k > 1
    <3>1. k - 1 \in 1..Len(rest) /\ rest[k - 1] = evs[k]
      BY <1>1, <2>1, <2>4
    <3>2. \A j \in 1..Len(rest) : j > k - 1 => j + 1 > k
      BY <1>1, <2>1
    <3>3. \A j \in 1..Len(rest) : j > k - 1 => rest[j].addr # a
      BY <2>1, <2>2, <3>2
    <3> QED
      BY <2>1, <3>1, <3>3 DEF LastSays
  <2> QED
    BY <1>1, <2>1, <2>3, <2>4
<1> QED
  BY <1>2, <1>3, <1>4 DEF rest

LEMMA FirstOwn ==
    ASSUME NEW evs \in Events, evs # <<>>, NEW a, NEW s,
           Head(evs).addr = a, LastSays(evs, a, s) \/ NoneFor(evs, a)
    PROVE  \/ LastSays(Tail(evs), a, s)
           \/ NoneFor(Tail(evs), a) /\ Head(evs).state = s
BY FirstEvent

\* Only a member itself makes its address monitored.
LEMMA MonitoredSelf ==
    ASSUME OneMemberPerAddr, TypeOK, NEW m \in Member, Monitored(AddrOf[m])
    PROVE  m \in vips /\ \E p \in hms : m \in members[p]
<1>1. PICK p \in hms : \E n \in members[p] \cap vips : AddrOf[n] = AddrOf[m]
  BY DEF Monitored
<1>2. PICK n \in members[p] \cap vips : AddrOf[n] = AddrOf[m]
  BY <1>1
<1>3. n = m
  BY <1>2 DEF OneMemberPerAddr, TypeOK
<1> QED
  BY <1>2, <1>3

LEMMA CaughtUpMember ==
    ASSUME NorthdCaughtUp, NEW m \in Member, health[AddrOf[m]] # "none"
    PROVE  Monitored(AddrOf[m])
BY HealthAssumption DEF NorthdCaughtUp

\* A step that leaves the events, the agent and the status alone.
LEMMA HeardSame ==
    ASSUME UNCHANGED <<health, events, agent>>, NEW m \in Member, Heard(m), status'[m] = status[m]
    PROVE  Heard(m)'
BY DEF Heard, Waits, WriteDue

LEMMA WaitsSame ==
    ASSUME UNCHANGED <<health, events>>, NEW m \in Member
    PROVE  /\ Waits(m)' <=> Waits(m)
           /\ Waits(m) => Heard(m)'
BY DEF Waits, Heard

LEMMA KeyedStep ==
    ASSUME SInv, HInv, Serial, [Next]_vars
    PROVE  Keyed'
<1> USE DEF HInv, SInv, Whole
<1>a. oHm \in [Pool -> {"ABSENT", "ACTIVE", "ERROR"}] /\ hms \subseteq Pool
  BY DEF BInv, TInv, TypeOK
<1>1. CASE \E p \in Pool : HmCreate(p) \/ (HmDelete(p) /\ p \in hms)
  <2>1. api = Idle /\ hms' = hms /\ oHm' = oHm
    BY <1>1, HmStarts DEF row
  <2> QED
    BY <2>1 DEF Keyed
<1>2. CASE \E p \in Pool : HmUpdate(p) \/ (HmDelete(p) /\ p \notin hms)
  <2>1. PICK p \in Pool : HmUpdate(p) \/ (HmDelete(p) /\ p \notin hms)
    BY <1>2
  <2>2. /\ api = Idle /\ hms' = hms
        /\ \/ /\ p \notin hms
              /\ \E x : oHm' = [oHm EXCEPT ![p] = x]
           \/ oHm' = [oHm EXCEPT ![p] = "ACTIVE"]
    BY <2>1 DEF HmUpdate, HmDelete, Begin, row
  <2> QED
    BY <1>a, <2>2 DEF Keyed
<1>3. CASE \E m \in Member : \/ \E up \in BOOLEAN : MemberCreate(m, up)
                            \/ MemberDelete(m)
                            \/ \E how \in Updates : MemberUpdate(m, how)
  <2>1. api = Idle /\ hms' = hms /\ oHm' = oHm
    BY <1>3, CreateStarts, DeleteStarts, UpdateStarts DEF row
  <2> QED
    BY <2>1 DEF Keyed
<1>4. CASE EntryRead \/ EntryWrite
  <2>1. api' # Idle /\ api'.op = api.op /\ api'.on = api.on /\ hms' = hms /\ oHm' = oHm
    BY <1>4, ReadIs, WriteIs DEF BInv, TInv, EntryRead, EntryWrite, row, octavia
  <2> QED
    BY <2>1 DEF Keyed
<1>5. CASE HmAddLbhc
  BY <1>a, <1>5, AddStep DEF Keyed
<1>6. CASE HmMapMember
  BY <1>a, <1>6, MapStep DEF Keyed
<1>7. CASE HmClean
  <2>1. api # Idle /\ api.op = "hm_delete" /\ hms' = hms \ {api.on}
        /\ oHm' = [oHm EXCEPT ![api.on] = "ABSENT"]
    BY <1>7, CleanStep DEF HmClean
  <2> QED
    BY <1>a, <2>1 DEF Keyed
<1>8. CASE MemberRefresh
  BY <1>8, RefreshStep DEF MemberRefresh, Keyed, octavia
<1>9. CASE Report
  <2>1. hms' = hms
        /\ oHm' = IF api.op = "hm_create" THEN [oHm EXCEPT ![api.on] = "ACTIVE"] ELSE oHm
    BY <1>9 DEF Report, row
  <2> QED
    BY <1>a, <2>1 DEF Keyed
<1>10. CASE UNCHANGED <<hms, oHm, api>>
  BY <1>10 DEF Keyed
<1>11. \/ ApiStep \/ UNCHANGED <<hms, oHm, api>>
       \/ \E p \in Pool : HmCreate(p) \/ HmUpdate(p) \/ HmDelete(p)
       \/ \E m \in Member : \/ \E up \in BOOLEAN : MemberCreate(m, up)
                           \/ MemberDelete(m)
                           \/ \E how \in Updates : MemberUpdate(m, how)
  BY DEF Next, vars, row, octavia, EventTake, EventWrite, EventReport, ProbeResult, MonitorGone
<1> QED
  BY <1>1, <1>2, <1>3, <1>4, <1>5, <1>6, <1>7, <1>8, <1>9, <1>10, <1>11 DEF ApiStep

LEMMA MonitoredKept ==
    ASSUME UNCHANGED <<members, vips>>, hms \subseteq hms', mapping \subseteq mapping',
           NEW a, Monitored(a)
    PROVE  Monitored(a)'
BY DEF Monitored

LEMMA CaughtUpStep ==
    ASSUME SInv, HInv, Serial, [Next]_vars
    PROVE  CaughtUp'
<1> USE DEF HInv, SInv, Whole
<1>1. ASSUME UNCHANGED <<members, vips, health>>, hms \subseteq hms', mapping \subseteq mapping',
             NorthdCaughtUp
      PROVE  NorthdCaughtUp'
  BY <1>1, MonitoredKept DEF NorthdCaughtUp
<1>2. CASE \/ \E p \in Pool : HmCreate(p) \/ (HmDelete(p) /\ p \in hms)
           \/ \E m \in Member : \E how \in Updates : MemberUpdate(m, how)
  <2>1. NorthdCaughtUp /\ UNCHANGED <<row, health>>
    BY <1>2, HmStarts, UpdateStarts
  <2> QED
    BY <1>1, <2>1 DEF CaughtUp, row
<1>3. CASE \E p \in Pool : HmUpdate(p) \/ (HmDelete(p) /\ p \notin hms)
  BY <1>3 DEF HmUpdate, HmDelete, Begin, CaughtUp
<1>4. CASE \E m \in Member : (\E up \in BOOLEAN : MemberCreate(m, up)) \/ MemberDelete(m)
  BY <1>4, CreateStarts, DeleteStarts DEF CaughtUp, Mon
<1>5. CASE EntryRead \/ EntryWrite
  <2>1. /\ api # Idle /\ api'.op = api.op /\ api'.then = api.then
        /\ UNCHANGED <<members, vips, hms, mapping, health>>
    BY <1>5, ReadIs, WriteIs DEF BInv, TInv, EntryRead, EntryWrite, row
  <2> QED
    BY <1>1, <2>1 DEF CaughtUp
<1>6. CASE HmAddLbhc
  <2>1. \/ api' = Idle
        \/ /\ api # Idle /\ api.op = "hm_create" /\ hms \subseteq hms'
           /\ UNCHANGED <<members, vips, mapping, health>>
    BY <1>6, AddStep
  <2> QED
    BY <1>1, <2>1 DEF CaughtUp, Mon
<1>7. CASE HmMapMember
  <2>1. \/ api' = Idle
        \/ /\ api # Idle /\ api.op = "hm_create" /\ mapping \subseteq mapping'
           /\ UNCHANGED <<members, vips, hms, health>>
    BY <1>7, MapStep
  <2> QED
    BY <1>1, <2>1 DEF CaughtUp, Mon
<1>8. CASE HmClean \/ Report
  BY <1>8, CleanStep, ReportStep DEF CaughtUp
<1>9. CASE MemberRefresh
  BY <1>9, RefreshStep DEF CaughtUp, Mon
<1>10. CASE EventTake \/ EventWrite \/ EventReport
  <2>1. api' = Idle
    BY <1>10, TakeStep, AgentWriteStep DEF EventReport, Alone
  <2> QED
    BY <2>1 DEF CaughtUp
<1>11. CASE \E a \in Addr : ProbeResult(a) \/ MonitorGone(a)
  <2>1. PICK a \in Addr : ProbeResult(a) \/ MonitorGone(a)
    BY <1>11
  <2>2. UNCHANGED <<members, vips, hms, mapping, api>>
    BY <2>1 DEF ProbeResult, MonitorGone, row
  <2>3. \A b \in Addr : Monitored(b)' <=> Monitored(b)
    BY <2>2 DEF Monitored
  <2>4. \A b \in Addr : health'[b] # "none" => health[b] # "none" \/ Monitored(b)
    BY <2>1 DEF ProbeResult, MonitorGone, BInv, TInv, TypeOK
  <2>5. NorthdCaughtUp => NorthdCaughtUp'
    BY <2>3, <2>4 DEF NorthdCaughtUp
  <2> QED
    BY <2>2, <2>5 DEF CaughtUp
<1>12. CASE UNCHANGED vars
  BY <1>1, <1>12 DEF vars, row, CaughtUp
<1> QED
  BY <1>2, <1>3, <1>4, <1>5, <1>6, <1>7, <1>8, <1>9, <1>10, <1>11, <1>12 DEF Next, ApiStep

LEMMA UpdatingStep ==
    ASSUME SInv, HInv, Serial, [Next]_vars
    PROVE  Updating'
<1> USE DEF HInv, SInv, Whole
<1>1. CASE \E m \in Member : \E how \in Updates : MemberUpdate(m, how)
  <2>1. PICK m \in Member, how \in Updates : MemberUpdate(m, how)
    BY <1>1
  <2>2. /\ status' = status /\ hms' = hms
        /\ api' # Idle /\ api'.on = m /\ api'.then = "refresh" /\ api'.was = status[m]
        /\ \/ api'.phase = "report"
           \/ /\ api'.todo = {<<m, api'.now>>}
              /\ \/ api'.now = "OFFLINE"
                 \/ hms = {}
                 \/ api'.now = status[m]
    <3>1. UNCHANGED row /\ api = Idle /\ m \in Listed
      BY <2>1, UpdateStarts
    <3>2. status[m] # "none"
      BY <3>1, WhenIdle
    <3> QED
      BY <2>1, <3>1, <3>2, UpdateStarts DEF row
  <2> QED
    BY <2>2 DEF Updating
<1>2. CASE EntryRead
  <2>1. /\ api # Idle /\ api'.op = api.op /\ api'.on = api.on /\ api'.todo = api.todo
        /\ api'.then = api.then /\ api'.was = api.was /\ api'.now = api.now
        /\ api.phase = "read" /\ UNCHANGED <<status, hms>>
    BY <1>2, ReadIs DEF BInv, TInv, EntryRead, row
  <2> QED
    BY <2>1 DEF Updating
<1>3. CASE EntryWrite
  <2>1. PICK e \in api.todo : api'.todo = api.todo \ {e} /\ status'[e[1]] = e[2]
    BY <1>3, WritesOne
  <2>2. /\ api # Idle /\ api'.op = api.op /\ api'.on = api.on
        /\ api'.then = api.then /\ api'.was = api.was /\ api'.now = api.now
        /\ api.phase = "write" /\ hms' = hms
    BY <1>3, WriteIs DEF BInv, TInv, EntryWrite
  <2>3. api.op = "member_update" => e = <<api.on, api.now>> /\ api'.todo = {}
    BY <2>1, <2>2 DEF Updating
  <2> QED
    BY <2>1, <2>2, <2>3 DEF Updating
<1>4. CASE UNCHANGED <<status, hms, api>>
  BY <1>4 DEF Updating
<1>5. CASE api' = Idle \/ api'.op # "member_update" \/ api'.phase = "report"
  BY <1>5 DEF Updating
<1>6. CASE \/ \E p \in Pool : HmCreate(p) \/ HmDelete(p) \/ HmUpdate(p)
           \/ \E m \in Member : (\E up \in BOOLEAN : MemberCreate(m, up)) \/ MemberDelete(m)
  <2>1. \/ api' = Idle
        \/ api'.op # "member_update"
    BY <1>6, HmStarts, CreateStarts, DeleteStarts DEF HmDelete, HmUpdate, Begin
  <2> QED
    BY <1>5, <2>1
<1>7. CASE HmAddLbhc \/ HmMapMember \/ HmClean \/ MemberRefresh \/ Report
  <2>1. api' = Idle \/ api'.op # "member_update" \/ api'.phase = "report"
    BY <1>7, AddStep, MapStep, CleanStep, RefreshStep, ReportStep
  <2> QED
    BY <1>5, <2>1
<1>8. CASE EventTake \/ EventWrite \/ EventReport
  <2>1. api' = Idle
    BY <1>8, TakeStep, AgentWriteStep DEF EventReport, Alone
  <2> QED
    BY <1>5, <2>1
<1>9. CASE (\E a \in Addr : ProbeResult(a) \/ MonitorGone(a)) \/ UNCHANGED vars
  BY <1>4, <1>9 DEF ProbeResult, MonitorGone, vars, row
<1> QED
  BY <1>1, <1>2, <1>3, <1>6, <1>7, <1>8, <1>9 DEF Next, ApiStep

LEMMA FollowedBegin ==
    ASSUME SInv, HInv, Serial, OneEach,
           \/ \E p \in Pool : HmCreate(p) \/ HmUpdate(p) \/ HmDelete(p)
           \/ \E m \in Member :
                 \/ \E up \in BOOLEAN : MemberCreate(m, up)
                 \/ \E how \in Updates : MemberUpdate(m, how)
                 \/ MemberDelete(m)
    PROVE  Followed'
<1> USE DEF HInv, SInv, Whole
<1>a. \A m \in Listed : m \in Member
  BY DEF Listed, BInv, TInv, TypeOK
<1>b. api = Idle
  BY DEF HmCreate, HmUpdate, HmDelete, MemberCreate, MemberUpdate, MemberDelete, Begin
<1>c. TypeOK
  BY DEF BInv, TInv
\* A member that was listed when ovn-northd had caught up.
<1>d. ASSUME NorthdCaughtUp, UNCHANGED <<status, health, events, agent>>,
             NEW m \in Listed, health[AddrOf[m]] # "none"
      PROVE  Heard(m)'
  <2>1. Monitored(AddrOf[m])
    BY <1>a, <1>d, CaughtUpMember
  <2>2. Heard(m)
    BY <1>b, <1>d, <2>1 DEF Followed, Stops
  <2> QED
    BY <1>a, <1>d, <2>2, HeardSame
<1>1. CASE \E p \in Pool : HmCreate(p) \/ (HmDelete(p) /\ p \in hms)
  <2>1. PICK p \in Pool : HmCreate(p) \/ (HmDelete(p) /\ p \in hms)
    BY <1>1
  <2>2. NorthdCaughtUp /\ UNCHANGED <<row, health, events, agent>>
    BY <2>1, HmStarts
  <2>3. /\ api'.on = p /\ api'.op \in {"hm_create", "hm_delete"}
        /\ api'.op = "hm_create" => oHm[p] = "ABSENT"
    <3>1. api'.on = p
      BY <2>1, HmStarts
    <3>2. CASE HmCreate(p)
      BY <2>1, <3>1, <3>2, HmStarts DEF HmCreate
    <3>3. CASE ~HmCreate(p)
      BY <2>1, <3>1, <3>3, HmStarts
    <3> QED
      BY <3>2, <3>3
  <2>4. Listed' = Listed
    BY <2>2 DEF Listed, row
  <2>5. SUFFICES ASSUME NEW m \in Listed, health[AddrOf[m]] # "none"
                 PROVE  ~Starts(m)' /\ Heard(m)'
    BY <2>2, <2>4 DEF Followed
  <2>6. Heard(m)'
    BY <1>d, <2>2, <2>5 DEF row
  <2>7. ASSUME api'.op = "hm_create", m \in members[p] PROVE FALSE
    <3>1. Monitored(AddrOf[m])
      BY <1>a, <2>2, <2>5, CaughtUpMember
    <3>2. PICK q \in hms : m \in members[q]
      BY <1>a, <1>c, <3>1, MonitoredSelf DEF OneEach
    <3>3. q = p
      BY <1>c, <2>7, <3>2 DEF BInv, Homes, TypeOK
    <3> QED
      BY <1>b, <2>3, <2>7, <3>2, <3>3 DEF Keyed
  <2> QED
    BY <2>2, <2>3, <2>6, <2>7 DEF Starts, row
<1>2. CASE \E p \in Pool : HmUpdate(p) \/ (HmDelete(p) /\ p \notin hms)
  <2>1. api' = Idle /\ UNCHANGED <<row, health, events, agent>> /\ Listed' = Listed
    BY <1>b, <1>2 DEF HmUpdate, HmDelete, row, Listed
  <2>2. SUFFICES ASSUME NEW m \in Listed, health[AddrOf[m]] # "none", Monitored(AddrOf[m])'
                 PROVE  Heard(m)'
    BY <2>1 DEF Followed, Starts
  <2>3. Monitored(AddrOf[m])
    BY <2>1, <2>2 DEF Monitored, row
  <2>4. Heard(m)
    BY <1>b, <2>2, <2>3 DEF Followed, Stops
  <2> QED
    BY <1>a, <2>1, <2>4, HeardSame DEF row
<1>3. CASE \E m \in Member : \E up \in BOOLEAN : MemberCreate(m, up)
  <2>1. PICK m \in Member, up \in BOOLEAN : MemberCreate(m, up)
    BY <1>3
  <2>2. /\ NorthdCaughtUp /\ UNCHANGED <<status, health, events, agent>>
        /\ m \notin Listed /\ Listed' = Listed \cup {m}
        /\ api'.op = "member_create" /\ api'.on = m
    BY <2>1, CreateStarts
  <2>3. health[AddrOf[m]] = "none"
    <3>1. SUFFICES ASSUME health[AddrOf[m]] # "none" PROVE FALSE
      OBVIOUS
    <3>2. PICK q \in hms : m \in members[q]
      BY <1>c, <2>2, <3>1, CaughtUpMember, MonitoredSelf DEF OneEach
    <3> QED
      BY <1>c, <2>2, <3>2 DEF Listed, TypeOK
  <2>4. SUFFICES ASSUME NEW n \in Listed, health[AddrOf[n]] # "none"
                 PROVE  ~Starts(n)' /\ Heard(n)'
    BY <2>2, <2>3 DEF Followed
  <2>5. Heard(n)'
    BY <1>d, <2>2, <2>4
  <2> QED
    BY <2>2, <2>4, <2>5 DEF Starts
<1>4. CASE \E m \in Member : MemberDelete(m)
  <2>1. PICK m \in Member : MemberDelete(m)
    BY <1>4
  <2>2. /\ NorthdCaughtUp /\ UNCHANGED <<status, health, events, agent>>
        /\ Listed' \subseteq Listed /\ api'.op = "member_delete"
    BY <2>1, DeleteStarts
  <2> QED
    BY <1>d, <2>2 DEF Followed, Starts
<1>5. CASE \E m \in Member : \E how \in Updates : MemberUpdate(m, how)
  <2>1. PICK m \in Member, how \in Updates : MemberUpdate(m, how)
    BY <1>5
  <2>2. NorthdCaughtUp /\ UNCHANGED <<row, health, events, agent>> /\ api'.op = "member_update"
    BY <2>1, UpdateStarts
  <2>3. Listed' = Listed
    BY <2>2 DEF Listed, row
  <2> QED
    BY <1>d, <2>2, <2>3 DEF Followed, Starts, row
<1> QED
  BY <1>1, <1>2, <1>3, <1>4, <1>5

LEMMA FollowedWrite ==
    ASSUME SInv, HInv, Serial, OneEach, EntryWrite
    PROVE  Followed'
<1> USE DEF HInv, SInv, Whole
<1>1. PICK e \in api.todo :
            /\ e \in Member \X Entry /\ api'.todo = api.todo \ {e}
            /\ status'[e[1]] = e[2]
            /\ \A m \in Member : m # e[1] => status'[m] = status[m]
  BY WritesOne
<1>2. /\ api # Idle /\ api' # Idle /\ api'.op = api.op /\ api'.on = api.on
      /\ api'.was = api.was /\ api'.now = api.now /\ api.phase = "write"
  BY WriteIs DEF BInv, TInv, EntryWrite
<1>3. UNCHANGED <<members, vips, hms, mapping, health, events, agent>> /\ Listed' = Listed
  BY DEF EntryWrite, Listed
<1>4. \A m \in Listed : m \in Member
  BY DEF Listed, BInv, TInv, TypeOK
<1>5. SUFFICES ASSUME NEW m \in Listed, health[AddrOf[m]] # "none"
               PROVE  /\ Starts(m)' => Waits(m)'
                      /\ Monitored(AddrOf[m])' /\ ~Stops(m)' => Heard(m)'
  BY <1>3 DEF Followed
<1>6. Starts(m)' <=> Starts(m)
  BY <1>2, <1>3 DEF Starts
<1>7. Starts(m) => Waits(m)
  BY <1>5 DEF Followed
<1>8. Waits(m)' <=> Waits(m)
  BY <1>3, <1>4, WaitsSame
<1>9. SUFFICES ASSUME Monitored(AddrOf[m])', ~Stops(m)', ~Starts(m) PROVE Heard(m)'
  BY <1>3, <1>4, <1>6, <1>7, <1>8, WaitsSame
<1>10. Monitored(AddrOf[m])
  BY <1>3, <1>9 DEF Monitored
<1>11. m = e[1] => /\ api.op # "hm_create" /\ api.op # "hm_delete" /\ api.op # "member_create"
                  /\ api.op # "member_delete"
  <2>1. SUFFICES ASSUME m = e[1] PROVE /\ api.op # "hm_create" /\ api.op # "hm_delete"
                                      /\ api.op # "member_create" /\ api.op # "member_delete"
    OBVIOUS
  <2>2. Mon(api.op) => m \in members[api.on]
    BY <1>2, <2>1 DEF BInv, Writes
  <2>3. ~Mon(api.op) => m = api.on
    BY <1>2, <2>1 DEF BInv, Writes
  <2>4. ~(api.op = "hm_delete" /\ m \in members[api.on])
    BY <1>2, <1>3, <1>9 DEF Stops
  <2>5. ~(api.op = "hm_create" /\ m \in members[api.on]) /\ ~(api.op = "member_create" /\ m = api.on)
    BY <1>2, <1>9 DEF Starts
  <2>6. api.op # "member_delete"
    <3>1. SUFFICES ASSUME api.op = "member_delete" PROVE FALSE
      OBVIOUS
    <3>2. e[2] # "none"
      BY <1>2, <1>5, <2>1 DEF BInv, Writes
    <3> QED
      BY <1>2, <3>1, <3>2 DEF BInv, Writes
  <2> QED
    BY <2>2, <2>3, <2>4, <2>5, <2>6 DEF Mon
<1>12. CASE m # e[1]
  <2>1. ~Stops(m)
    <3>1. SUFFICES ASSUME Stops(m) PROVE FALSE
      OBVIOUS
    <3>2. CASE api.op = "hm_delete" /\ m \in members[api.on]
      BY <1>2, <1>3, <1>9, <3>2 DEF Stops
    <3>3. CASE api.op = "member_update" /\ m = api.on
      BY <1>2, <1>12, <3>3 DEF BInv, Writes, Mon
    <3> QED
      BY <3>1, <3>2, <3>3 DEF Stops
  <2>2. Heard(m)
    BY <1>5, <1>10, <2>1 DEF Followed
  <2> QED
    BY <1>1, <1>3, <1>4, <1>12, <2>2, HeardSame
<1>13. CASE m = e[1]
  <2>1. api.op = "member_update"
    BY <1>2, <1>11, <1>13, WorkIs DEF BInv, TInv, TypeOK, Work, Op
  <2>2. e = <<api.on, api.now>> /\ status[api.on] = api.was /\ (hms = {} \/ api.now \in {api.was, "OFFLINE"})
        /\ api'.todo = {}
    BY <1>1, <1>2, <2>1 DEF Updating
  <2>3. hms # {}
    BY <1>10 DEF Monitored
  <2>4. api'.phase # "report"
    <3>1. api.then = "refresh" /\ api'.phase = api.then
      BY <1>2, <2>1, <2>2, WriteIs DEF Updating, BInv, TInv
    <3> QED
      BY <3>1
  <2>5. ~(api.now = "OFFLINE" /\ api.was # "OFFLINE")
    BY <1>2, <1>9, <1>13, <2>1, <2>2, <2>4 DEF Stops
  <2>6. api.now = api.was
    BY <2>2, <2>3, <2>5
  <2>7. status'[m] = status[m] /\ m = api.on
    BY <1>1, <1>13, <2>2, <2>6
  <2>8. ~Stops(m)
    BY <2>1, <2>5 DEF Stops
  <2>9. Heard(m)
    BY <1>5, <1>10, <2>8 DEF Followed
  <2> QED
    BY <1>3, <1>4, <2>7, <2>9, HeardSame
<1> QED
  BY <1>12, <1>13

\* The other steps of a request write no status.
LEMMA FollowedApi ==
    ASSUME SInv, HInv, Serial, OneEach, ApiStep, ~EntryWrite
    PROVE  Followed'
<1> USE DEF HInv, SInv, Whole
<1>1. UNCHANGED <<members, status, health, events, agent>> /\ Listed' = Listed
  BY DEF ApiStep, EntryRead, HmAddLbhc, HmMapMember, HmClean, MemberRefresh, Report, row, Listed
<1>2. \A m \in Listed : m \in Member
  BY DEF Listed, BInv, TInv, TypeOK
<1>3. TypeOK
  BY DEF BInv, TInv
<1>4. ASSUME NEW m \in Listed, health[AddrOf[m]] # "none", Starts(m) PROVE Waits(m)'
  BY <1>1, <1>2, <1>4, WaitsSame DEF Followed
<1>5. ASSUME NEW m \in Listed, health[AddrOf[m]] # "none", Monitored(AddrOf[m]), ~Stops(m)
      PROVE  Heard(m)'
  BY <1>1, <1>2, <1>5, HeardSame DEF Followed
<1>6. ASSUME NEW m \in Listed, health[AddrOf[m]] # "none", CaughtUp, Mon(api.op), api # Idle, ~Stops(m)
      PROVE  Heard(m)'
  BY <1>2, <1>5, <1>6, CaughtUpMember DEF CaughtUp
<1>7. CASE EntryRead
  <2>1. /\ api # Idle /\ api' # Idle /\ api'.op = api.op /\ api'.on = api.on
        /\ api'.was = api.was /\ api'.now = api.now
        /\ api.phase = "read" /\ api'.phase = "write" /\ UNCHANGED <<vips, hms, mapping>>
    BY <1>7, ReadIs DEF BInv, TInv, EntryRead, row
  <2>2. \A m : (Starts(m)' <=> Starts(m)) /\ (Stops(m)' <=> Stops(m))
    BY <1>1, <2>1 DEF Starts, Stops
  <2>3. \A a : Monitored(a)' <=> Monitored(a)
    BY <1>1, <2>1 DEF Monitored
  <2> QED
    BY <1>1, <1>4, <1>5, <2>2, <2>3 DEF Followed
<1>8. CASE HmAddLbhc \/ HmMapMember
  <2>1. /\ api # Idle /\ api.op = "hm_create"
        /\ api' = Idle \/ (api'.op = "hm_create" /\ api'.on = api.on)
    BY <1>8, AddStep, MapStep
  <2>2. \A m : ~Stops(m) /\ (Starts(m)' => Starts(m))
    BY <1>1, <2>1 DEF Starts, Stops
  <2> QED
    BY <1>1, <1>4, <1>6, <2>1, <2>2 DEF Followed, Mon
<1>9. CASE HmClean
  <2>1. /\ api # Idle /\ api.op = "hm_delete" /\ api.on \in Pool /\ api' = Idle
        /\ hms' = hms \ {api.on} /\ vips' = vips
    BY <1>9, CleanStep DEF HmClean
  <2>2. ASSUME NEW m \in Listed, Monitored(AddrOf[m])' PROVE ~Stops(m)
    <3>1. PICK p \in hms' : \E n \in members[p] \cap vips : AddrOf[n] = AddrOf[m]
      BY <1>1, <2>1, <2>2 DEF Monitored
    <3>2. p \in Pool /\ p # api.on
      BY <1>3, <2>1, <3>1 DEF TypeOK
    <3>3. m \in members[p]
      BY <1>2, <1>3, <3>1, <3>2 DEF OneEach, OneMemberPerAddr, TypeOK
    <3>4. m \notin members[api.on]
      BY <2>1, <3>2, <3>3 DEF BInv, Homes
    <3> QED
      BY <2>1, <3>4 DEF Stops
  <2> QED
    BY <1>1, <1>6, <2>1, <2>2 DEF Followed, Starts, Mon
<1>10. CASE MemberRefresh
  <2>1. /\ api # Idle /\ api.op = "member_update" /\ api.todo = {} /\ api.phase = "refresh"
        /\ api'.op = "member_update" /\ api'.phase = "report"
        /\ vips' = IF (api.was = "OFFLINE") # (api.now = "OFFLINE")
                   THEN FrameVips(members, status) ELSE vips
    BY <1>10, RefreshStep DEF MemberRefresh
  <2>2. api.then = "refresh" /\ status[api.on] = api.now
    BY <2>1 DEF Updating
  <2>3. NorthdCaughtUp
    BY <2>1, <2>2 DEF CaughtUp
  <2>4. ASSUME NEW m \in Listed, Monitored(AddrOf[m])' PROVE ~Stops(m)
    <3>1. SUFFICES ASSUME Stops(m) PROVE FALSE
      OBVIOUS
    <3>2. m = api.on /\ api.now = "OFFLINE" /\ api.was # "OFFLINE"
      BY <2>1, <3>1 DEF Stops
    <3>3. m \notin vips'
      BY <2>1, <2>2, <3>2 DEF FrameVips
    <3>4. \E n \in vips' : n \in Member /\ AddrOf[n] = AddrOf[m]
      <4>1. PICK p \in hms' : \E n \in members[p] \cap vips' : AddrOf[n] = AddrOf[m]
        BY <1>1, <2>4 DEF Monitored
      <4>2. p \in Pool
        BY <1>3, <1>10 DEF MemberRefresh, TypeOK
      <4> QED
        BY <1>3, <4>1, <4>2 DEF TypeOK
    <3> QED
      BY <1>2, <3>3, <3>4 DEF OneEach, OneMemberPerAddr
  <2> QED
    BY <1>1, <1>2, <1>5, <2>1, <2>3, <2>4, CaughtUpMember DEF Followed, Starts
<1>11. CASE Report
  <2>1. api # Idle /\ api.phase = "report" /\ api' = Idle /\ UNCHANGED <<vips, hms, mapping>>
    BY <1>11, ReportStep DEF Report, row
  <2>2. api.op # "hm_delete"
    BY <2>1 DEF BInv, TInv, Course, Then
  <2>3. \A m : ~Stops(m)
    BY <2>1, <2>2 DEF Stops
  <2>4. \A a : Monitored(a)' <=> Monitored(a)
    BY <1>1, <2>1 DEF Monitored
  <2> QED
    BY <1>1, <1>5, <2>1, <2>3, <2>4 DEF Followed, Starts
<1> QED
  BY <1>7, <1>8, <1>9, <1>10, <1>11 DEF ApiStep

LEMMA FollowedAgent ==
    ASSUME SInv, HInv, Serial, OneEach, EventTake \/ EventWrite \/ EventReport
    PROVE  Followed'
<1> USE DEF HInv, SInv, Whole
<1>1. \A m \in Listed : m \in Member
  BY DEF Listed, BInv, TInv, TypeOK
<1>2. api = Idle /\ api' = Idle /\ UNCHANGED <<members, vips, hms, mapping, health>>
  BY TakeStep, AgentWriteStep DEF EventReport, Alone, row
<1>3. Listed' = Listed /\ \A a : Monitored(a)' <=> Monitored(a)
  BY <1>2 DEF Listed, Monitored
<1>4. SUFFICES ASSUME NEW m \in Listed, health[AddrOf[m]] # "none", Monitored(AddrOf[m])
               PROVE  Heard(m)'
  BY <1>2, <1>3 DEF Followed, Starts
<1>5. Heard(m)
  BY <1>2, <1>4 DEF Followed, Stops
<1>6. CASE EventTake
  <2> DEFINE a == AddrOf[m]
             h == health[AddrOf[m]]
  <2>1. events \in Events
    BY DEF Events, BInv, TInv, TypeOK
  <2>2. events # <<>> /\ events' = Tail(events) /\ status' = status /\ agent = Idle
    BY <1>6, TakeStep DEF EventTake, row
  <2>3. CASE Head(events).addr # a
    <3>1. ~WriteDue(m)'
      <4>1. SUFFICES ASSUME agent' # Idle, agent'.on = m PROVE FALSE
        BY DEF WriteDue
      <4>2. PICK p \in Pool : \E n \in members[p] : Head(events).addr \in Texts[n] /\ agent'.on = n
        BY <1>6, <4>1, TakeStep
      <4> QED
        BY <1>1, <2>3, <4>1, <4>2 DEF OneEach, ExactTexts
    <3>2. /\ NoneFor(events, a) => NoneFor(Tail(events), a)
          /\ LastSays(events, a, h) => LastSays(Tail(events), a, h)
      BY <2>1, <2>2, <2>3, FirstEvent
    <3>3. ~WriteDue(m)
      BY <2>2 DEF WriteDue
    <3> QED
      BY <1>2, <1>5, <2>2, <3>1, <3>2, <3>3 DEF Heard, Waits
  <2>4. CASE Head(events).addr = a
    <3>1. LastSays(events, a, h) \/ NoneFor(events, a)
      BY <1>5 DEF Heard, Waits
    <3>2. \/ LastSays(Tail(events), a, h)
          \/ NoneFor(Tail(events), a) /\ Head(events).state = h
      BY <2>1, <2>2, <2>4, <3>1, FirstOwn
    <3>3. agent' = [op |-> "write", on |-> m, seen |-> status, value |-> Verdict(Head(events).state)]
      <4>1. PICK p \in Pool : m \in members[p]
        BY DEF Listed
      <4>2. PICK q \in Pool : \E n \in members[q] :
                    /\ Head(events).addr \in Texts[n]
                    /\ agent' = [op |-> "write", on |-> n, seen |-> status,
                                value |-> Verdict(Head(events).state)]
        BY <1>6, <2>4, <4>1, TakeStep
      <4>3. PICK n \in members[q] :
                    /\ Head(events).addr \in Texts[n]
                    /\ agent' = [op |-> "write", on |-> n, seen |-> status,
                                value |-> Verdict(Head(events).state)]
        BY <4>2
      <4>4. n \in Member
        BY DEF BInv, TInv, TypeOK
      <4>5. n = m
        BY <1>1, <2>4, <4>3, <4>4 DEF OneEach, ExactTexts, OneMemberPerAddr
      <4> QED
        BY <4>3, <4>5
    <3>4. WriteDue(m)' /\ agent'.value = Verdict(Head(events).state)
      BY <3>3 DEF WriteDue, Idle
    <3> QED
      BY <1>2, <2>2, <3>2, <3>4 DEF Heard, Waits
  <2> QED
    BY <2>3, <2>4
<1>7. CASE EventWrite
  <2>1. /\ agent # Idle /\ agent.op = "write" /\ agent.on \in Member /\ agent'.op = "report"
        /\ status'[agent.on] = agent.value /\ events' = events
        /\ \A n \in Member : n # agent.on => status'[n] = status[n]
    BY <1>7, AgentWriteStep
  <2>2. ~WriteDue(m)' /\ (WriteDue(m) <=> agent.on = m)
    BY <2>1 DEF WriteDue
  <2> QED
    BY <1>1, <1>2, <1>5, <2>1, <2>2 DEF Heard, Waits
<1>8. CASE EventReport
  <2>1. agent.op = "report" /\ agent' = Idle /\ events' = events /\ status' = status
    BY <1>8 DEF EventReport, row
  <2>2. ~WriteDue(m)' /\ ~WriteDue(m)
    BY <2>1 DEF WriteDue
  <2> QED
    BY <1>2, <1>5, <2>1, <2>2 DEF Heard, Waits
<1> QED
  BY <1>6, <1>7, <1>8

LEMMA FollowedProbe ==
    ASSUME SInv, HInv, NEW b \in Addr, ProbeResult(b) \/ MonitorGone(b)
    PROVE  Followed'
<1> USE DEF HInv, SInv, Whole
<1>1. \A m \in Listed : m \in Member
  BY DEF Listed, BInv, TInv, TypeOK
<1>2. UNCHANGED <<members, status, vips, hms, mapping, api, agent>>
  BY DEF ProbeResult, MonitorGone, row
<1>3. /\ Listed' = Listed /\ \A a : Monitored(a)' <=> Monitored(a)
      /\ \A m : (Starts(m)' <=> Starts(m)) /\ (Stops(m)' <=> Stops(m))
  BY <1>2 DEF Listed, Monitored, Starts, Stops
<1>4. events \in Events /\ health \in [Addr -> {"none", "online", "offline"}]
  BY DEF Events, BInv, TInv, TypeOK
<1>5. PICK state \in {"online", "offline"} :
         /\ Notify(b, state)
         /\ health' = [health EXCEPT ![b] = "none"]
            \/ (health' = [health EXCEPT ![b] = state] /\ IpOf[b] \in mapping)
  BY DEF ProbeResult, MonitorGone, Monitored
<1>6. SUFFICES ASSUME NEW m \in Listed, health'[AddrOf[m]] # "none"
               PROVE  /\ Starts(m) => Waits(m)'
                      /\ Monitored(AddrOf[m]) /\ ~Stops(m) => Heard(m)'
  BY <1>3 DEF Followed
<1> DEFINE a == AddrOf[m]
<1>7. a \in Addr
  BY <1>1, HealthAssumption
<1>8. CASE a = b
  <2>1. health'[a] = state /\ IpOf[b] \in mapping
    BY <1>4, <1>5, <1>6, <1>7, <1>8
  <2>2. events' = Append(events, [addr |-> b, state |-> state])
    BY <1>5, <2>1 DEF Notify
  <2>3. LastSays(events', a, state)
    BY <1>4, <1>8, <2>2, LaterEvent
  <2>4. Waits(m)'
    BY <2>1, <2>3 DEF Waits
  <2> QED
    BY <2>4 DEF Heard
<1>9. CASE a # b
  <2>1. health'[a] = health[a]
    BY <1>4, <1>5, <1>7, <1>9
  <2>2. /\ NoneFor(events, a) => NoneFor(events', a)
        /\ LastSays(events, a, health[a]) => LastSays(events', a, health[a])
    <3>1. CASE events' = Append(events, [addr |-> b, state |-> state])
      BY <1>4, <1>9, <3>1, LaterEvent
    <3>2. CASE events' = events
      BY <3>2
    <3> QED
      BY <1>5, <3>1, <3>2 DEF Notify
  <2>3. Waits(m) => Waits(m)'
    BY <2>1, <2>2 DEF Waits
  <2>4. Heard(m) => Heard(m)'
    BY <1>2, <2>1, <2>2, <2>3 DEF Heard, WriteDue
  <2> QED
    BY <1>6, <2>1, <2>3, <2>4 DEF Followed
<1> QED
  BY <1>8, <1>9

LEMMA HInvStep ==
    ASSUME Serial, OneEach
    PROVE  SInv /\ HInv /\ [Next]_vars => HInv'
<1> SUFFICES ASSUME SInv, HInv, [Next]_vars PROVE HInv'
  OBVIOUS
<1>1. Followed'
  <2>1. CASE UNCHANGED vars
    BY <2>1 DEF vars, row, octavia, HInv, Followed, Listed, Starts, Stops, Waits, WriteDue, Heard, Monitored
  <2>2. CASE Next
    BY <2>2, FollowedBegin, FollowedWrite, FollowedApi, FollowedAgent, FollowedProbe DEF Next
  <2> QED
    BY <2>1, <2>2
<1> QED
  BY <1>1, KeyedStep, CaughtUpStep, UpdatingStep DEF HInv

\* With one handler at a time and one member at each address and port: when all
\* events are handled the entry of a probed member is the result of the last probe,
\* whatever hm_create, hm_delete and the member handlers wrote before, and whatever
\* failed (hm_update_event).
THEOREM StatusesFollowProbes ==
    ASSUME Serial, OneEach
    PROVE  Spec => []HealthFollowed
<1>1. SInv /\ HInv => HealthFollowed
  <2> SUFFICES ASSUME SInv, HInv, Quiet, NEW m \in Listed,
                      Monitored(AddrOf[m]), health[AddrOf[m]] # "none"
               PROVE  status[m] = Verdict(health[AddrOf[m]])
    BY DEF HealthFollowed, Verdict
  <2>1. Heard(m)
    BY DEF HInv, Followed, Quiet, Stops
  <2>2. ~Waits(m) /\ ~WriteDue(m)
    BY DEF Quiet, Waits, LastSays, WriteDue
  <2> QED
    BY <2>1, <2>2 DEF Heard
<1> QED
  BY <1>1, HInvInit, HInvStep, SInvInit, SInvStep, StepIs, PTL DEF Spec
=============================================================================
