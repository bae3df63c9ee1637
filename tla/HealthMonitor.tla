--------------------------- MODULE HealthMonitor ---------------------------
(***************************************************************************)
(* Health monitors of one load balancer (helper.py: hm_create, hm_update,   *)
(* hm_delete, hm_update_event, and the member handlers on a row that has   *)
(* health checks).                                                          *)
(*                                                                         *)
(* Two processes write the statuses of members into the row and report     *)
(* them to Octavia: an API worker, for requests of users, and the driver    *)
(* agent, for changes of Service_Monitor rows, which ovn-northd makes for  *)
(* every backend that has a health check and an entry in ip_port_mappings. *)
(* A write of one member's status reads the whole map                      *)
(* neutron:member_status and writes all of it back.                        *)
(*                                                                         *)
(* One row; every pool exists, is enabled and has a listener.  Additional  *)
(* VIPs and floating IPs only multiply the health checks of a monitor.      *)
(***************************************************************************)
EXTENDS StatusTree, Sequences

CONSTANTS
    Pool, Member, Addr, Ip, Subnet,
    PoolOf,      \* pool of a member
    AddrOf,      \* address and port of a member
    IpOf,        \* the address without the port
    SubnetOf,    \* subnet of an address
    Located,     \* addresses that a logical switch port has
    Texts,       \* what addresses and ports the text of a member contains,
                 \* for '10.0.0.1' and '80' are in '10.0.0.11:8080' too
    Overlap,     \* whether the two handlers interleave, and ovn-northd lags
    Updates,     \* what users do to members: "enable", "disable", "touch": an
                 \* update that leaves admin_state_up out
    Failures,    \* what may fail: "port", "lbhc"
    MaxEvents    \* bound on the events that wait for the agent

ASSUME HealthAssumption ==
    /\ PoolOf \in [Member -> Pool]
    /\ AddrOf \in [Member -> Addr]
    /\ IpOf \in [Addr -> Ip]
    /\ SubnetOf \in [Ip -> Subnet]
    /\ Located \subseteq Ip
    /\ Texts \in [Member -> SUBSET Addr]
    /\ \A m \in Member : AddrOf[m] \in Texts[m]
    /\ Overlap \in BOOLEAN
    /\ Updates \subseteq {"enable", "disable", "touch"}
    /\ Failures \subseteq {"port", "lbhc"}
    /\ MaxEvents \in Nat

VARIABLES
    members,    \* row: members listed under the key of each pool
    status,     \* row: neutron:member_status
    vips,       \* row: members the vips column forwards to
    hms,        \* row: pools whose monitor has its health check and its key
    mapping,    \* row: ip_port_mappings
    hmPort,     \* Neutron: subnets that have a port for health checks
    faulted,    \* a call to Neutron or to the database has failed
    locked,     \* Octavia: the load balancer is in a PENDING state
    oMember,    \* Octavia: operating status of members
    oUp,        \* Octavia: members that are enabled
    oHm,        \* Octavia: provisioning status of the monitor of each pool
    oTop,       \* Octavia: operating status of the load balancer
    health,     \* Southbound: status of the Service_Monitor row of an address
    events,     \* requests in the queue of the agent
    api, agent, \* what the two handlers are doing
    crossed     \* history: both have held a copy of neutron:member_status at once

row     == <<members, status, vips, hms, mapping>>
octavia == <<locked, oMember, oUp, oHm, oTop>>
neutron == <<hmPort, faulted>>
vars    == <<row, neutron, octavia, health, events, api, agent>>

-----------------------------------------------------------------------------
(* Handlers.  todo: the entries of neutron:member_status still to be       *)
(* written; seen: the map as it was read for the next write; then: what     *)
(* comes after the writes; left: the members hm_create has still to map.    *)

Statuses == [Member -> Entry]
NoStatus == [m \in Member |-> "none"]
Idle     == [op |-> "idle"]
Op       == {"hm_create", "hm_delete", "member_create", "member_delete", "member_update"}
Phase    == {"read", "write", "lbhc", "map", "clean", "refresh", "report"}

ApiState ==
    {Idle} \cup
    [op : Op, on : Pool \cup Member, phase : Phase, then : Phase,
     todo : SUBSET (Member \X Entry), left : SUBSET Member, seen : Statuses,
     was : Entry, now : Entry]
AgentState ==
    {Idle} \cup [op : {"write", "report"}, on : Member, value : Entry, seen : Statuses]

Told == Entry \cup {"absent"}

Init ==
    /\ members = [p \in Pool |-> {}]
    /\ status = NoStatus
    /\ vips = {} /\ hms = {} /\ mapping = {} /\ hmPort = {} /\ faulted = FALSE
    /\ locked = FALSE
    /\ oMember = [m \in Member |-> "absent"]
    /\ oUp = {}
    /\ oHm = [p \in Pool |-> "ABSENT"]
    /\ oTop = "ONLINE"
    /\ health = [a \in Addr |-> "none"]
    /\ events = <<>>
    /\ api = Idle /\ agent = Idle
    /\ crossed = FALSE

Listed == UNION {members[p] : p \in Pool}
Ips(S) == {IpOf[AddrOf[m]] : m \in S}
SubnetsOf(S) == {SubnetOf[i] : i \in Ips(S)}

\* _frame_vip_ips: all but the members whose entry is OFFLINE.
FrameVips(mems, stat) == {m \in UNION {mems[p] : p \in Pool} : stat[m] # "OFFLINE"}

\* The load balancer's operating status over listeners of one pool each.
Top(stat) ==
    WorstOf({WorstOf({PoolStatus(members[p], stat, TRUE)}, TRUE) : p \in Pool}, TRUE)

-----------------------------------------------------------------------------
(* ip_port_mappings and the port that health checks come from.             *)

\* Mutated: the port is deleted although health checks still use it.
CleanUpPortAlways(subnets, ports, map, hm) == ports \ subnets

\* _clean_up_hm_port: unless a row with health checks has a mapping that names
\* the port.
CleanUpPort(subnets, ports, map, hm) ==
    {s \in ports : s \in subnets =>
        hm # {} /\ \E i \in map : SubnetOf[i] = s}

\* Mutated: the mapping is entered under the subnet.
HmMemberSubnet(m, delete) ==
    LET i == IpOf[AddrOf[m]]
        s == SubnetOf[i]
    IN  IF i \notin Located
        THEN {[ports |-> hmPort, map |-> mapping, result |-> "ERROR"]}
        ELSE {[ports |-> hmPort \cup {s}, result |-> "ONLINE",
               map |-> IF delete THEN mapping \ {s} ELSE mapping \cup {s}]}

\* _update_hm_member: finds or creates the port of the subnet, also to delete.
\* The result is the status of the member, "none" for None.
HmMember(m, delete) ==
    LET i == IpOf[AddrOf[m]]
        s == SubnetOf[i]
    IN  IF i \notin Located
        THEN {[ports |-> hmPort, map |-> mapping, result |-> "ERROR"]}
        ELSE {[ports |-> hmPort \cup {s}, result |-> "ONLINE",
               map |-> IF delete THEN mapping \ {i} ELSE mapping \cup {i}]}
             \cup IF "port" \in Failures /\ s \notin hmPort
                  THEN {[ports |-> hmPort, map |-> mapping, result |-> "none"]} ELSE {}

\* _clean_ip_port_mappings: all addresses of the pool but those that a member of
\* another pool has too, unless its status is NO_MONITOR.
CleanMapping(p) ==
    mapping \ {i \in Ips(members[p]) :
                 \A q \in Pool \ {p} : \A m \in members[q] :
                    IpOf[AddrOf[m]] = i => status[m] = "NO_MONITOR"}

-----------------------------------------------------------------------------
(* Service monitors (ovn-northd and ovn-controller) and their events.       *)

\* ovn-northd keeps a row for each backend of a VIP with a health check whose
\* address is mapped.
Monitored(a) ==
    /\ IpOf[a] \in mapping
    /\ \E p \in hms : \E m \in members[p] \cap vips : AddrOf[m] = a

\* sm_update_event_handler: queued if a row maps the address.
Notify(a, state) ==
    events' = IF IpOf[a] \in mapping
              THEN Append(events, [addr |-> a, state |-> state]) ELSE events

ProbeResult(a) ==
    /\ Monitored(a)
    /\ Len(events) < MaxEvents
    /\ \E state \in {"online", "offline"} \ {health[a]} :
          /\ health' = [health EXCEPT ![a] = state]
          /\ Notify(a, state)
    /\ UNCHANGED <<row, neutron, octavia, api, agent>>

\* The row goes when nothing refers to it; its event says offline.
MonitorGone(a) ==
    /\ health[a] # "none"
    /\ ~Monitored(a)
    /\ Len(events) < MaxEvents
    /\ health' = [health EXCEPT ![a] = "none"]
    /\ Notify(a, "offline")
    /\ UNCHANGED <<row, neutron, octavia, api, agent>>

NorthdCaughtUp == \A a \in Addr : health[a] # "none" => Monitored(a)

-----------------------------------------------------------------------------
(* Requests.  One at a time: Octavia holds the load balancer locked, and the *)
(* worker takes the next request when it is done.                           *)

Begin ==
    /\ api = Idle
    /\ ~locked
    /\ ~Overlap => agent = Idle /\ NorthdCaughtUp

\* Start an operation with the entries it writes first.
Start(op, on, todo, then, left) ==
    /\ locked' = TRUE
    /\ api' = [op |-> op, on |-> on, todo |-> todo, then |-> then, left |-> left,
               phase |-> IF todo = {} THEN then ELSE "read",
               seen |-> NoStatus, was |-> "none", now |-> "none"]

\* Go on with entries to write and what follows them.
GoOn(todo, then, left) ==
    api' = [api EXCEPT !.todo = todo, !.then = then, !.left = left,
                       !.phase = IF todo = {} THEN then ELSE "read"]

\* What Octavia has of the members, once it is told the statuses of some,
Knowing(told) == [m \in Member |-> IF m \in DOMAIN told THEN told[m] ELSE oMember[m]]

\* and unlocks the load balancer.
Answer(told) ==
    /\ locked' = FALSE
    /\ api' = Idle
    /\ oMember' = Knowing(told)

\* _update_external_ids_member_status: the map is read,
EntryRead ==
    /\ api # Idle /\ api.phase = "read"
    /\ api' = [api EXCEPT !.phase = "write", !.seen = status]
    /\ UNCHANGED <<row, neutron, octavia, health, events, agent>>

\* Mutated: a deleted entry is written back.
WithEntryKept(seen, m, entry) ==
    IF entry = "none" THEN seen ELSE [seen EXCEPT ![m] = entry]

WithEntry(seen, m, entry) == [seen EXCEPT ![m] = entry]

\* and written whole.
EntryWrite ==
    /\ api # Idle /\ api.phase = "write"
    /\ \E e \in api.todo :
          /\ status' = WithEntry(api.seen, e[1], e[2])
          /\ api' = [api EXCEPT !.todo = @ \ {e}, !.seen = NoStatus,
                       !.phase = IF api.todo = {e} THEN api.then ELSE "read"]
    /\ UNCHANGED <<members, vips, hms, mapping, neutron, octavia, health, events, agent>>

-----------------------------------------------------------------------------
(* Health monitor requests                                                 *)

\* hm_create sets every member of the pool ONLINE,
HmCreate(p) ==
    /\ Begin
    /\ oHm[p] = "ABSENT"
    /\ Start("hm_create", p, members[p] \X {"ONLINE"}, "lbhc", members[p])
    /\ UNCHANGED <<oUp, row, neutron, oMember, oHm, oTop, health, events, agent>>

\* adds the health check and the monitor's key in one transaction (_add_lbhc),
HmAddLbhc ==
    /\ api # Idle /\ api.phase = "lbhc"
    /\ \/ /\ hms' = hms \cup {api.on}
          /\ GoOn({}, IF api.left = {} THEN "report" ELSE "map", api.left)
          /\ UNCHANGED <<locked, oMember, oHm, faulted>>
       \/ /\ "lbhc" \in Failures
          /\ faulted' = TRUE
          /\ oHm' = [oHm EXCEPT ![api.on] = "ERROR"]
          /\ Answer([m \in members[api.on] |-> "ONLINE"])
          /\ UNCHANGED hms
    /\ UNCHANGED <<oUp, members, status, vips, mapping, hmPort, oTop, health, events, agent>>

\* and maps one member after the other.  When there is no port it takes the
\* mappings back and gives up: the health check stays.
HmMapMember ==
    /\ api # Idle /\ api.phase = "map"
    /\ \E m \in api.left : \E h \in HmMember(m, FALSE) :
          LET left == api.left \ {m}
          IN  /\ hmPort' = h.ports
              /\ faulted' = (faulted \/ h.result = "none")
              /\ \/ /\ h.result # "none"
                    /\ mapping' = h.map
                    /\ GoOn({<<m, h.result>>}, IF left = {} THEN "report" ELSE "map",
                            left)
                    /\ UNCHANGED <<locked, oMember, oHm>>
                 \/ /\ h.result = "none"
                    /\ mapping' = CleanMapping(api.on)
                    /\ oHm' = [oHm EXCEPT ![api.on] = "ERROR"]
                    /\ Answer([x \in members[api.on] |-> "ONLINE"])
    /\ UNCHANGED <<oUp, members, status, vips, hms, oTop, health, events, agent>>

\* hm_update changes options only, and says ACTIVE of a monitor whose creation
\* failed half way.  For a monitor without health check it reports the monitor's
\* ERROR and nothing that would unlock the load balancer.
HmUpdate(p) ==
    /\ Begin
    /\ oHm[p] # "ABSENT"
    /\ oHm' = [oHm EXCEPT ![p] = IF p \in hms THEN "ACTIVE" ELSE "ERROR"]
    /\ locked' = (p \notin hms)
    /\ UNCHANGED <<oUp, row, neutron, oMember, oTop, health, events, api, agent>>

\* hm_delete, which knows the monitor by its health check.  Without one only the
\* monitor is reported.
HmDelete(p) ==
    /\ Begin
    /\ oHm[p] # "ABSENT"
    /\ IF p \in hms
       THEN /\ Start("hm_delete", p, members[p] \X {"NO_MONITOR"}, "clean", {})
            /\ UNCHANGED oHm
       ELSE /\ locked' = TRUE
            /\ oHm' = [oHm EXCEPT ![p] = "ABSENT"]
            /\ UNCHANGED api
    /\ UNCHANGED <<oUp, row, neutron, oMember, oTop, health, events, agent>>

\* The mappings go, then the health check and the key, then the ports nobody
\* needs.  The operating status of the load balancer is not reported.
HmClean ==
    /\ api # Idle /\ api.phase = "clean"
    /\ mapping' = CleanMapping(api.on)
    /\ hms' = hms \ {api.on}
    /\ hmPort' = CleanUpPort(SubnetsOf(members[api.on]), hmPort, mapping', hms')
    /\ oHm' = [oHm EXCEPT ![api.on] = "ABSENT"]
    /\ Answer([m \in members[api.on] |-> "NO_MONITOR"])
    /\ UNCHANGED <<oUp, members, status, vips, faulted, oTop, health, events, agent>>

-----------------------------------------------------------------------------
(* Member requests on this row                                             *)

\* A member that is created enabled while the row has any health check is mapped
\* and ONLINE, whatever pool the check is for.
MemberCreate(m, up) ==
    LET p == PoolOf[m]
        joined == [members EXCEPT ![p] = @ \cup {m}]
        Enters(result) == Start("member_create", m, {<<m, result>>}, "report", {})
    IN  /\ Begin
        /\ oMember[m] = "absent" /\ m \notin Listed /\ status[m] = "none"
        /\ members' = joined
        /\ vips' = IF up THEN FrameVips(joined, status) ELSE vips
        /\ IF up /\ hms # {}
           THEN \E h \in HmMember(m, FALSE) :
                   /\ hmPort' = h.ports
                   /\ mapping' = h.map
                   /\ faulted' = (faulted \/ h.result = "none")
                   /\ Enters(IF h.result = "ONLINE" THEN "ONLINE" ELSE "ERROR")
           ELSE /\ Enters(IF up THEN "NO_MONITOR" ELSE "OFFLINE")
                /\ UNCHANGED <<neutron, mapping>>
        /\ oMember' = [oMember EXCEPT ![m] = "NO_MONITOR"]
        /\ oUp' = IF up THEN oUp \cup {m} ELSE oUp \ {m}
        /\ UNCHANGED <<status, hms, oHm, oTop, health, events, agent>>

\* The mapping of the address goes first, whoever else has that address; the port
\* goes when no member of any pool is left in the subnet.
MemberDelete(m) ==
    LET p == PoolOf[m]
        gone == [members EXCEPT ![p] = @ \ {m}]
        s == SubnetOf[IpOf[AddrOf[m]]]
        last == s \notin SubnetsOf(Listed \ {m})
    IN  /\ Begin
        /\ m \in members[p]
        /\ members' = gone
        /\ vips' = FrameVips(gone, status)
        /\ IF hms # {}
           THEN \E h \in HmMember(m, TRUE) :
                   /\ mapping' = h.map
                   /\ faulted' = (faulted \/ h.result = "none")
                   /\ hmPort' = IF last THEN CleanUpPort({s}, h.ports, h.map, hms)
                                        ELSE h.ports
           ELSE UNCHANGED <<mapping, neutron>>
        /\ Start("member_delete", m, {<<m, "none">>}, "report", {})
        /\ UNCHANGED <<oUp, status, hms, oMember, oHm, oTop, health, events, agent>>

\* With any health check on the row an enabled member keeps the status it had,
\* OFFLINE included.  An update without admin_state_up writes nothing.
MemberUpdate(m, how) ==
    LET entry == IF how = "disable" THEN "OFFLINE"
                 ELSE IF hms = {} \/ status[m] = "none" THEN "NO_MONITOR" ELSE status[m]
        now == IF how = "touch" THEN "NO_MONITOR" ELSE entry
    IN  /\ Begin
        /\ m \in members[PoolOf[m]]
        /\ locked' = TRUE
        /\ oUp' = IF how = "enable" THEN oUp \cup {m}
                  ELSE IF how = "disable" THEN oUp \ {m} ELSE oUp
        /\ api' = [op |-> "member_update", on |-> m, left |-> {}, seen |-> NoStatus,
                   todo |-> IF how = "touch" THEN {} ELSE {<<m, entry>>},
                   phase |-> IF how = "touch" THEN "report" ELSE "read",
                   then |-> "refresh", was |-> status[m], now |-> now]
        /\ UNCHANGED <<row, neutron, oMember, oHm, oTop, health, events, agent>>

\* vips follow when the member went to or came from OFFLINE.
MemberRefresh ==
    /\ api # Idle /\ api.phase = "refresh"
    /\ vips' = IF (api.was = "OFFLINE") # (api.now = "OFFLINE")
               THEN FrameVips(members, status) ELSE vips
    /\ GoOn({}, "report", {})
    /\ UNCHANGED <<members, status, hms, mapping, neutron, octavia, health, events, agent>>

-----------------------------------------------------------------------------
(* Reports.  hm_create and member_create report every entry of the map; the  *)
(* other member requests replace that list by the one member.               *)

\* Mutated: members in ERROR are left out.
EntriesHealthy ==
    [m \in {x \in Member : status[x] \notin {"none", "ERROR"} /\ oMember[x] # "absent"} |->
        status[m]]

Entries == [m \in {x \in Member : status[x] # "none" /\ oMember[x] # "absent"} |->
               status[m]]

Report ==
    /\ api # Idle /\ api.phase = "report"
    /\ oTop' = Top(status)
    /\ oHm' = IF api.op = "hm_create" THEN [oHm EXCEPT ![api.on] = "ACTIVE"] ELSE oHm
    /\ Answer(CASE api.op = "member_delete" -> [m \in {api.on} |-> "absent"]
                [] api.op = "member_update" -> [m \in {api.on} |-> api.now]
                [] OTHER                    -> Entries)
    /\ UNCHANGED <<oUp, row, neutron, health, events, agent>>

-----------------------------------------------------------------------------
(* The agent: hm_update_event                                              *)

\* Mutated: an event can only fail a member.
VerdictFailed(state) == "ERROR"

Verdict(state) == IF state = "offline" THEN "ERROR" ELSE "ONLINE"

\* The pool is found by the address and port, the member in it by text.
EventTake ==
    /\ agent = Idle
    /\ events # <<>>
    /\ ~Overlap => api = Idle
    /\ events' = Tail(events)
    /\ LET e == Head(events)
           holding == {p \in Pool : \E m \in members[p] : AddrOf[m] = e.addr}
       IN  IF holding = {} THEN UNCHANGED agent
           ELSE \E p \in holding :
                \E m \in {x \in members[p] : e.addr \in Texts[x]} :
                   agent' = [op |-> "write", on |-> m, seen |-> status,
                             value |-> Verdict(e.state)]
    /\ UNCHANGED <<row, neutron, octavia, health, api>>

EventWrite ==
    /\ agent # Idle /\ agent.op = "write"
    /\ status' = WithEntry(agent.seen, agent.on, agent.value)
    /\ agent' = [agent EXCEPT !.op = "report", !.seen = NoStatus]
    /\ UNCHANGED <<members, vips, hms, mapping, neutron, octavia, health, events, api>>

\* The report unlocks the load balancer like that of any request.
EventReport ==
    /\ agent # Idle /\ agent.op = "report"
    /\ agent' = Idle
    /\ locked' = FALSE
    /\ oTop' = Top(status)
    /\ oMember' = Knowing(Entries)
    /\ UNCHANGED <<oUp, row, neutron, oHm, health, events, api>>

-----------------------------------------------------------------------------
ApiStep == EntryRead \/ EntryWrite \/ HmAddLbhc \/ HmMapMember \/ HmClean
           \/ MemberRefresh \/ Report

Next ==
    \/ \E p \in Pool : HmCreate(p) \/ HmUpdate(p) \/ HmDelete(p)
    \/ \E m \in Member :
          \/ \E up \in {TRUE} \cup {b \in BOOLEAN : "disable" \in Updates} :
                MemberCreate(m, up)
          \/ \E how \in Updates : MemberUpdate(m, how)
          \/ MemberDelete(m)
    \/ ApiStep
    \/ EventTake \/ EventWrite \/ EventReport
    \/ \E a \in Addr : ProbeResult(a) \/ MonitorGone(a)

\* Both are between reading the map of statuses and writing it.
BothInMap ==
    /\ api # Idle /\ api.phase = "write"
    /\ agent # Idle /\ agent.op = "write"

Noted == crossed' = (crossed \/ BothInMap')

Spec == Init /\ [][Next /\ Noted]_<<vars, crossed>>
FairSpec == Spec /\ WF_vars(ApiStep) /\ SF_vars(EventTake)
                 /\ WF_vars(EventWrite) /\ WF_vars(EventReport)
-----------------------------------------------------------------------------
ApiIdle == api = Idle
Quiet == api = Idle /\ agent = Idle /\ events = <<>>

\* Every variable keeps its type: entries are statuses, mappings addresses.
TypeOK ==
    /\ members \in [Pool -> SUBSET Member]
    /\ status \in Statuses
    /\ vips \subseteq Member
    /\ hms \subseteq Pool
    /\ mapping \subseteq Ip
    /\ hmPort \subseteq Subnet /\ faulted \in BOOLEAN
    /\ locked \in BOOLEAN
    /\ oMember \in [Member -> Told] /\ oUp \subseteq Member
    /\ oHm \in [Pool -> {"ABSENT", "ACTIVE", "ERROR"}]
    /\ oTop \in Operating
    /\ health \in [Addr -> {"none", "online", "offline"}]
    /\ events \in Seq([addr : Addr, state : {"online", "offline"}])
    /\ api \in ApiState
    /\ agent \in AgentState

\* Health checks reach a member of a monitored pool,
Probed(m) ==
    /\ m \in Listed /\ oHm[PoolOf[m]] = "ACTIVE"
    /\ IpOf[AddrOf[m]] \in mapping
    /\ SubnetOf[IpOf[AddrOf[m]]] \in hmPort

\* until its monitor goes or a member at its IP address: no other deletion, and no
\* creation that fails, takes away the mapping or the port, although
\* _clean_ip_port_mappings and _clean_up_hm_port work on what pools share, one guided
\* by statuses that requests and events write meanwhile.  The second exception is the
\* code's: member_delete removes the mapping of its IP address although a member of
\* another pool is monitored there, against the NOTE of _clean_ip_port_mappings ("we
\* need to ensure that the member is not being monitored by any other existing HM").
ProbedStays ==
    [][\A m \in Member : Probed(m) /\ ~Probed(m)' =>
          \/ crossed
          \/ oHm'[PoolOf[m]] = "ABSENT"
          \/ \E x \in Listed \ Listed' : IpOf[AddrOf[x]] = IpOf[AddrOf[m]]]_<<vars, crossed>>

\* neutron:member_status has an entry for every member of the row and for no other,
\* although every write of one entry writes the whole map back, in whatever order
\* requests and events alternate: only a write that goes out between the read and
\* the write of the other process can lose an entry, or bring one back
\* (_update_external_ids_member_status).
StatusComplete ==
    ApiIdle /\ agent = Idle /\ ~crossed =>
        \A m \in Member : (status[m] # "none") = (m \in Listed)

\* When all events were handled, the entry of a probed member is the result of
\* the last probe, whatever requests wrote before (hm_update_event).
HealthFollowed ==
    Quiet => \A m \in Listed :
        Monitored(AddrOf[m]) /\ health[AddrOf[m]] # "none" =>
            status[m] = IF health[AddrOf[m]] = "offline" THEN "ERROR" ELSE "ONLINE"

\* Octavia does not show the load balancer better than its members are: a failed
\* member degrades it, and a pool of failed members is an ERROR at the top
\* (_get_current_operating_statuses, as reported by each handler).
NeverTooGood ==
    Quiet /\ ~faulted => \A p \in Pool :
        /\ (\E m \in members[p] : status[m] = "ERROR") => oTop \in {"DEGRADED", "ERROR"}
        /\ members[p] # {} /\ (\A m \in members[p] : status[m] = "ERROR") =>
              oTop = "ERROR"

\* A member that fails its probes is reported in ERROR, unless it stops being
\* probed or recovers before: no event is lost and no report of a request hides it
\* for ever.
DownIsTold ==
    \A m \in Member :
        health[AddrOf[m]] = "offline" ~>
            \/ oMember[m] = "ERROR"
            \/ health[AddrOf[m]] # "offline"
            \/ ~Monitored(AddrOf[m])

-----------------------------------------------------------------------------
(* What a comment says, and the code does not do                           *)

\* "If we are toggling from/to OFFLINE due to an admin_state_up change, in that
\* case we should update vips" (member_update): a member that is enabled is served.
\* With a health check on the row it keeps the entry OFFLINE and stays unserved.
EnabledIsServed == ApiIdle => (Listed \cap oUp) \subseteq vips
=============================================================================
