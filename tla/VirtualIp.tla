----------------------------- MODULE VirtualIp -----------------------------
(***************************************************************************)
(* The addresses of one load balancer: the Neutron ports of its VIP and its *)
(* additional VIP, the floating IPs that users associate with those ports, *)
(* and the rows, one per protocol, that answer on all of them.              *)
(*                                                                         *)
(* Ports and rows are made and deleted by the API worker (create_vip_port,  *)
(* lb_create, lb_delete).  A floating IP is an entry in the external_ids of *)
(* a Logical_Switch_Port; the driver agent hears of its changes            *)
(* (LogicalSwitchPortUpdateEvent) and makes one request per row of them    *)
(* (vip_port_update_handler), which its helper thread handles later        *)
(* (handle_vip_fip).  Of several agents the one that holds the OVSDB lock   *)
(* of events handles them, the others drop what they hear.                  *)
(*                                                                         *)
(* Handlers of the API worker are atomic here; those of the agents have a   *)
(* step that reads and one that commits.  A row has one member, listed or   *)
(* not, behind a listener that is enabled.                                  *)
(***************************************************************************)
EXTENDS Naturals, FiniteSets, Sequences, SequencesExt

CONSTANTS
    Row,         \* a row for each protocol
    Monitor,     \* health monitors
    RowOf,       \* row of the pool of a monitor
    Fip,         \* floating IPs
    NoFip,
    Agent,       \* driver agents
    Failures,    \* what may fail: "ports", "create", "delete", and the copy of a
                 \* row before ("copy") and after ("copied") it was made
    Races,       \* "copy": a row is copied while events wait; "commit": the API
                 \* worker writes between the two steps of an agent; "lock": the
                 \* lock of events changes hands while events wait; "late": a row is made too late
    MaxEvents    \* bound on the notifications and requests of an agent at
                 \* the moment a floating IP changes

Port    == {"vip", "additional"}
Address == Port \cup Fip

ASSUME VirtualIpAssumption ==
    /\ RowOf \in [Monitor -> Row]
    /\ Agent # {}
    /\ NoFip \notin Fip /\ Fip \cap Port = {}
    /\ Failures \subseteq {"ports", "create", "delete", "copy", "copied"}
    /\ Races \subseteq {"copy", "commit", "lock", "late"}
    /\ MaxEvents \in Nat

VARIABLES
    lb,         \* Octavia: the load balancer
    ports,      \* Neutron: its ports
    fip,        \* Northbound: port_fip of the switch port of a port
    rows,       \* Northbound: its rows
    listed,     \* rows whose member is listed
    vipFip,     \* neutron:vip_fip of a row
    addFips,    \* neutron:additional_vip_fips of a row
    vips,       \* addresses in the vips column of a row
    checks,     \* health checks of a row: monitor and address
    holder,     \* agent that has the lock of events
    inbox,      \* notifications on their way to an agent
    queue,      \* requests of an agent
    job         \* the request an agent has read the row for

nb     == <<rows, listed, vipFip, addFips, vips, checks>>
agents == <<holder, inbox, queue, job>>
vars   == <<lb, ports, fip, nb, agents>>

Change  == [port : Port, fip : Fip, does : {"associate", "disassociate"}]
Request == [row : Row, what : Change]
Idle    == [does |-> "nothing"]
Job     == {Idle} \cup
           [does : {"commit"}, req : Request, listed : BOOLEAN,
            vipFip : Fip \cup {NoFip}, addFips : SUBSET Fip,
            checks : SUBSET (Monitor \X Address)]

Init ==
    /\ lb = "absent" /\ ports = {} /\ fip = [p \in Port |-> NoFip]
    /\ rows = {} /\ listed = {}
    /\ vipFip = [r \in Row |-> NoFip] /\ addFips = [r \in Row |-> {}]
    /\ vips = [r \in Row |-> {}] /\ checks = [r \in Row |-> {}]
    /\ holder = CHOOSE a \in Agent : TRUE
    /\ inbox = [a \in Agent |-> <<>>] /\ queue = [a \in Agent |-> <<>>]
    /\ job = [a \in Agent |-> Idle]

Settled == \A a \in Agent : inbox[a] = <<>> /\ queue[a] = <<>> /\ job[a] = Idle
Calm == "commit" \in Races \/ \A a \in Agent : job[a] = Idle

\* _frame_vip_ips
Frame(isListed, main, additional) ==
    IF isListed THEN Port \cup ({main} \ {NoFip}) \cup additional ELSE {}

-----------------------------------------------------------------------------
(* Ports (create_vip_port, delete_port) and rows (lb_create, lb_delete)     *)

\* Mutated: the ports made before the failure are left.
MadeBeforeLeft(failing) == IF failing = "additional" THEN {"vip"} ELSE {}

\* create_vip_port: when one port cannot be had those made before are deleted.
MadeBefore(failing) == {}

\* The API makes the ports and queues lb_create.
CreatePorts ==
    /\ lb = "absent"
    /\ \/ lb' = "building" /\ ports' = Port
       \/ /\ "ports" \in Failures
          /\ lb' = "deleted"
          /\ \E failing \in Port : ports' = MadeBefore(failing)
    /\ UNCHANGED <<fip, nb, agents>>

\* Deleting a port takes the floating IP off it, and no agent hears of that.
DropPorts(gone) ==
    /\ ports' = ports \ gone
    /\ fip' = [p \in Port |-> IF p \in gone THEN NoFip ELSE fip[p]]

\* lb_create fails before or after the row was made; the ports go in either case.
LbCreate(r) ==
    /\ lb = "building"
    /\ Calm
    /\ \/ rows' = rows \cup {r} /\ lb' = "active" /\ UNCHANGED <<ports, fip>>
       \/ /\ "create" \in Failures
          /\ rows' \in {rows, rows \cup {r}}
          /\ lb' = "error"
          /\ DropPorts(Port)
    /\ UNCHANGED <<listed, vipFip, addFips, vips, checks, agents>>

\* A row for another protocol takes over the floating IPs of the first.
CopyFips(r, first) ==
    /\ rows' = rows \cup {r}
    /\ vipFip' = [vipFip EXCEPT ![r] = vipFip[first]]
    /\ addFips' = [addFips EXCEPT ![r] = addFips[first]]

\* _get_or_create_ovn_lb for a listener or pool of another protocol.  When the
\* nested lb_create fails it deletes the ports, and its status is ignored: the
\* request goes on with the row, or finds none, raises and is never answered.
NewRow(r) ==
    /\ lb = "active"
    /\ r \notin rows
    /\ Calm
    /\ "copy" \in Races \/ Settled
    /\ \/ \E first \in rows : CopyFips(r, first) /\ UNCHANGED <<lb, ports, fip>>
       \/ /\ "copy" \in Failures
          /\ DropPorts(Port)
          /\ lb' = "pending"
          /\ UNCHANGED <<rows, vipFip, addFips>>
       \/ /\ "copied" \in Failures
          /\ DropPorts(Port)
          /\ \E first \in rows : CopyFips(r, first) /\ UNCHANGED lb
    /\ UNCHANGED <<listed, vips, checks, agents>>

Emptied(f, gone, empty) == [r \in Row |-> IF r \in gone THEN empty ELSE f[r]]

\* Row by row, then port by port; a failure leaves the rest for the next attempt,
\* which tries every port when it finds no row.
LbDelete ==
    /\ lb \in {"active", "error"}
    /\ Calm
    /\ \E gone \in SUBSET rows, freed \in SUBSET Port :
          /\ freed # {} => gone = rows
          /\ rows # {} /\ "additional" \in freed => "vip" \in freed
          /\ freed # Port => "delete" \in Failures
          /\ rows' = rows \ gone
          /\ listed' = listed \ gone
          /\ vipFip' = Emptied(vipFip, gone, NoFip)
          /\ addFips' = Emptied(addFips, gone, {})
          /\ vips' = Emptied(vips, gone, {})
          /\ checks' = Emptied(checks, gone, {})
          /\ DropPorts(freed)
          /\ lb' = IF freed = Port THEN "deleted" ELSE "error"
    /\ UNCHANGED agents

-----------------------------------------------------------------------------
(* Members and monitors, which only matter for what is served and checked    *)

\* The API worker refreshes vips from what the row says.
MemberChange(r) ==
    /\ lb = "active"
    /\ r \in rows
    /\ Calm
    /\ listed' = (listed \ {r}) \cup ({r} \ listed)
    /\ vips' = [vips EXCEPT ![r] = Frame(r \in listed', vipFip[r], addFips[r])]
    /\ UNCHANGED <<lb, ports, fip, rows, vipFip, addFips, checks, agents>>

Checks(r, h) == {c \in checks[r] : c[1] = h}

\* _add_lbhc: one check for each VIP and each floating IP the row has.
HmCreate(h) ==
    LET r == RowOf[h]
    IN  /\ lb = "active"
        /\ r \in rows
        /\ Calm
        /\ Checks(r, h) = {}
        /\ checks' = [checks EXCEPT ![r] = @ \cup ({h} \X Frame(TRUE, vipFip[r], addFips[r]))]
        /\ UNCHANGED <<lb, ports, fip, rows, listed, vipFip, addFips, vips, agents>>

HmDelete(h) ==
    LET r == RowOf[h]
    IN  /\ lb = "active"
        /\ Calm
        /\ Checks(r, h) # {}
        /\ checks' = [checks EXCEPT ![r] = @ \ Checks(r, h)]
        /\ UNCHANGED <<lb, ports, fip, rows, listed, vipFip, addFips, vips, agents>>

-----------------------------------------------------------------------------
(* Floating IPs: Neutron sets port_fip, every agent is notified             *)

\* Where the lock stays with an agent until it has heard, what the others hear
\* is dropped at once.
Hears(a) == a = holder \/ "lock" \in Races

Announce(change) ==
    /\ \A a \in Agent : Len(inbox[a]) + Len(queue[a]) < MaxEvents
    /\ inbox' = [a \in Agent |->
                    IF Hears(a) THEN Append(inbox[a], change) ELSE inbox[a]]

FipAssociate(p, f) ==
    /\ p \in ports /\ fip[p] = NoFip
    /\ \A q \in Port : fip[q] # f
    /\ fip' = [fip EXCEPT ![p] = f]
    /\ Announce([port |-> p, fip |-> f, does |-> "associate"])
    /\ UNCHANGED <<lb, ports, nb, holder, queue, job>>

FipDisassociate(p) ==
    /\ p \in ports /\ fip[p] # NoFip
    /\ fip' = [fip EXCEPT ![p] = NoFip]
    /\ Announce([port |-> p, fip |-> fip[p], does |-> "disassociate"])
    /\ UNCHANGED <<lb, ports, nb, holder, queue, job>>

\* The session of the agent that has the lock breaks, and another gets the lock.
\* What the first has in its queue stays there.
LockMoves ==
    /\ "lock" \in Races \/ Settled
    /\ holder' \in Agent \ {holder}
    /\ UNCHANGED <<lb, ports, fip, nb, inbox, queue, job>>

-----------------------------------------------------------------------------
(* The agents                                                              *)

\* Mutated: only one row of the load balancer gets a request.
RequestsOne(change) ==
    {<<[row |-> r, what |-> change]>> : r \in rows}
    \cup (IF rows = {} THEN {<<>>} ELSE {})

\* vip_port_update_handler: one request for each row there is now.
Requests(change) ==
    {[i \in DOMAIN order |-> [row |-> order[i], what |-> change]] :
        order \in SetToSeqs(rows)}

\* Without the lock a notification is dropped.  Without a row the handler waits,
\* and gives up after ten seconds ("late") or when none is to come.
Notified(a) ==
    /\ inbox[a] # <<>>
    /\ \/ a # holder \/ rows # {} \/ lb # "building" \/ "late" \in Races
    /\ inbox' = [inbox EXCEPT ![a] = Tail(@)]
    /\ IF a = holder
       THEN \E requests \in Requests(Head(inbox[a])) :
               queue' = [queue EXCEPT ![a] = @ \o requests]
       ELSE UNCHANGED queue
    /\ UNCHANGED <<lb, ports, fip, nb, holder, job>>

\* Mutated: a monitor's check is not repeated for the floating IP.
CopiedNone(r, change) == {}

\* Mutated: monitor and address are swapped.
CopiedSwapped(r, change) ==
    IF change.does = "associate"
    THEN {<<change.fip, c[1]>> : c \in {d \in checks[r] : d[2] = change.port}}
    ELSE {}

\* The checks of the VIP (of the fixed addresses of the port) are repeated for
\* the floating IP, in a transaction of their own.
Copied(r, change) ==
    IF change.does = "associate"
    THEN {<<c[1], change.fip>> : c \in {d \in checks[r] : d[2] = change.port}}
    ELSE {}

\* handle_vip_fip reads the row; a row that is gone makes it raise.
Take(a) ==
    /\ job[a] = Idle
    /\ queue[a] # <<>>
    /\ queue' = [queue EXCEPT ![a] = Tail(@)]
    /\ LET req == Head(queue[a])
           r == req.row
       IN  \/ /\ r \notin rows
              /\ UNCHANGED <<checks, job>>
           \/ /\ r \in rows
              /\ checks' = [checks EXCEPT ![r] = @ \cup Copied(r, req.what)]
              /\ job' = [job EXCEPT ![a] =
                    [does |-> "commit", req |-> req, listed |-> r \in listed,
                     vipFip |-> vipFip[r], addFips |-> addFips[r],
                     checks |-> checks[r]]]
    /\ UNCHANGED <<lb, ports, fip, rows, listed, vipFip, addFips, vips, holder, inbox>>

\* Mutated: the entry stays when the floating IP goes.
FipsAfterKept(j) == [main |-> j.vipFip, more |-> j.addFips]

\* What external_ids says of floating IPs when the request is done.
FipsAfter(j) ==
    LET f == j.req.what.fip
    IN  IF j.req.what.does = "disassociate"
        THEN [main |-> IF j.vipFip = f THEN NoFip ELSE j.vipFip,
              more |-> j.addFips \ {f}]
        ELSE IF j.req.what.port = "vip"
        THEN [main |-> f, more |-> j.addFips]
        ELSE [main |-> j.vipFip, more |-> j.addFips \cup {f}]

\* One check of the address goes, the first that is found.
Removed(j) ==
    LET f == j.req.what.fip
        found == {c \in j.checks : c[2] = f}
    IN  IF j.req.what.does = "disassociate" /\ found # {}
        THEN {{c} : c \in found} ELSE {{}}

\* Only keys that change are written, but vips are written whole, as they follow
\* from the row that was read.
Commit(a) ==
    LET j == job[a]
        r == j.req.row
        after == FipsAfter(j)
    IN  /\ j # Idle
        /\ job' = [job EXCEPT ![a] = Idle]
        /\ \/ /\ r \notin rows
              /\ UNCHANGED <<vipFip, addFips, vips, checks>>
           \/ /\ r \in rows
              /\ vipFip' = [vipFip EXCEPT ![r] =
                                IF after.main = j.vipFip THEN @ ELSE after.main]
              /\ addFips' = [addFips EXCEPT ![r] =
                                IF after.more = j.addFips THEN @ ELSE after.more]
              /\ vips' = [vips EXCEPT ![r] = Frame(j.listed, after.main, after.more)]
              /\ \E gone \in Removed(j) : checks' = [checks EXCEPT ![r] = @ \ gone]
        /\ UNCHANGED <<lb, ports, fip, rows, listed, holder, inbox, queue>>

-----------------------------------------------------------------------------
AgentStep(a) == Notified(a) \/ Take(a) \/ Commit(a)

Next ==
    \/ CreatePorts \/ LbDelete \/ LockMoves
    \/ \E r \in Row : LbCreate(r) \/ NewRow(r) \/ MemberChange(r)
    \/ \E h \in Monitor : HmCreate(h) \/ HmDelete(h)
    \/ \E p \in Port : FipDisassociate(p) \/ \E f \in Fip : FipAssociate(p, f)
    \/ \E a \in Agent : AgentStep(a)

Spec == Init /\ [][Next]_vars

\* The threads of an agent go on while there is something to do.
FairSpec == Spec /\ \A a \in Agent : WF_vars(Notified(a)) /\ WF_vars(Take(a))
                                     /\ WF_vars(Commit(a))
-----------------------------------------------------------------------------
(* Properties                                                              *)

\* Every variable keeps its type: checks are of a monitor and an address.
TypeOK ==
    /\ lb \in {"absent", "building", "active", "pending", "error", "deleted"}
    /\ ports \subseteq Port /\ fip \in [Port -> Fip \cup {NoFip}]
    /\ rows \subseteq Row /\ listed \subseteq rows
    /\ vipFip \in [Row -> Fip \cup {NoFip}]
    /\ addFips \in [Row -> SUBSET Fip]
    /\ vips \in [Row -> SUBSET Address]
    /\ checks \in [Row -> SUBSET (Monitor \X Address)]
    /\ holder \in Agent
    /\ inbox \in [Agent -> Seq(Change)]
    /\ queue \in [Agent -> Seq(Request)]
    /\ job \in [Agent -> Job]

\* The addresses users expect the load balancer to answer on.
Wanted == Port \cup ({fip[p] : p \in Port} \ {NoFip})

\* When the agents have nothing left to do, every row with a member answers on its
\* VIPs and on the floating IPs they have now, and on no other, in whatever order
\* floating IPs came and went, rows were made and members changed
\* (vip_port_update_handler, handle_vip_fip, _get_or_create_ovn_lb).
FipServed ==
    Settled /\ lb = "active" =>
        \A r \in rows : vips[r] = IF r \in listed THEN Wanted ELSE {}

\* A monitor has a health check for each address of its row and for no other: a
\* floating IP brings one and takes it away (handle_vip_fip, _add_lbhc).
ChecksFollow ==
    Settled /\ lb = "active" =>
        \A h \in Monitor : Checks(RowOf[h], h) # {} =>
            Checks(RowOf[h], h) = {h} \X Wanted

\* An active load balancer has its rows and its ports; one that is gone has left
\* nothing behind, whichever step of its creation or deletion failed before
\* (create_vip_port, lb_create, lb_delete and its next attempt).
PortsFollowLb ==
    /\ lb = "active" => ports = Port /\ rows # {}
    /\ lb \in {"absent", "deleted"} => ports = {} /\ rows = {}

\* A row with a member serves the floating IP of each port in the end, unless that
\* goes: no notification is lost while one agent has the lock.
FipReachesRow ==
    \A r \in Row, p \in Port :
        (fip[p] # NoFip /\ r \in listed) ~>
            (fip[p] \in vips[r] \cup {NoFip} \/ r \notin listed)
=============================================================================
