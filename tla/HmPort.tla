------------------------------- MODULE HmPort -------------------------------
(***************************************************************************)
(* The port health checks come from (helper.py: _ensure_hm_ovn_port,       *)
(* _create_hm_port, _clean_up_hm_port), shared by the load balancers that  *)
(* have members in one subnet.                                             *)
(*                                                                         *)
(* Octavia keeps the requests of one load balancer apart; those of         *)
(* different load balancers run in several API workers at once.  Who needs *)
(* the port looks for one by its name, makes one when there is none, and   *)
(* enters its address in ip_port_mappings; who stops lists the ports and   *)
(* deletes each that no row with a health check names.  No transaction     *)
(* spans Neutron and the database.                                         *)
(*                                                                         *)
(* Each load balancer has one monitor and one member, which come and go.   *)
(* A port is known by its address, which is given again once it is free.   *)
(***************************************************************************)
EXTENDS FiniteSets

CONSTANTS
    Lb,        \* load balancers
    Address,   \* addresses of the subnet
    None       \* no address

ASSUME HmPortAssumption == None \notin Address

VARIABLES
    ports,     \* Neutron: addresses of the ports named after the subnet
    member,    \* rows: load balancers whose pool lists the member
    checked,   \* rows: load balancers with a health check
    source,    \* rows: the port address in the member's ip_port_mapping
    job,       \* what the worker of each load balancer is doing
    gone,      \* those of the ports each worker has listed that others have deleted
    raced      \* history: a port was about to be entered and to be deleted at once

vars == <<ports, member, checked, source, job, gone, raced>>

Idle == [step |-> "idle"]
Step == {"find", "create", "write", "list", "check", "delete"}
Call == {"hm_create", "hm_delete", "member_create", "member_delete", "lb_delete"}

\* port: the one found or made, or about to be deleted; left: those listed that are
\* still to be looked at; failed: the clean-up is the one of a creation that failed.
Job == {Idle} \cup [call : Call, step : Step, port : Address \cup {None},
                    left : SUBSET Address, failed : BOOLEAN]

Init ==
    /\ ports = {} /\ member = {} /\ checked = {}
    /\ source = [lb \in Lb |-> None]
    /\ job = [lb \in Lb |-> Idle]
    /\ gone = [lb \in Lb |-> {}]
    /\ raced = FALSE

At(lb, step) == job[lb] # Idle /\ job[lb].step = step

Start(lb, call, step) ==
    job' = [job EXCEPT ![lb] = [call |-> call, step |-> step, port |-> None,
                                left |-> {}, failed |-> FALSE]]

GoOn(lb, step, port, left) ==
    job' = [job EXCEPT ![lb].step = step, ![lb].port = port, ![lb].left = left]

Stop(lb) == job' = [job EXCEPT ![lb] = Idle]

-----------------------------------------------------------------------------
(* Requests                                                                *)

\* hm_create adds the health check and maps the member there is.
HmCreate(lb) ==
    /\ job[lb] = Idle /\ lb \notin checked
    /\ checked' = checked \cup {lb}
    /\ IF lb \in member THEN Start(lb, "hm_create", "find") ELSE UNCHANGED job
    /\ UNCHANGED <<ports, member, source, gone>>

\* hm_delete removes the mapping, then the health check, and cleans up the subnets of
\* the members there are.
HmDelete(lb) ==
    /\ job[lb] = Idle /\ lb \in checked
    /\ checked' = checked \ {lb}
    /\ IF lb \in member
       THEN Start(lb, "hm_delete", "list") /\ source' = [source EXCEPT ![lb] = None]
       ELSE UNCHANGED <<source, job>>
    /\ UNCHANGED <<ports, member, gone>>

MemberCreate(lb) ==
    /\ job[lb] = Idle /\ lb \notin member
    /\ member' = member \cup {lb}
    /\ IF lb \in checked THEN Start(lb, "member_create", "find") ELSE UNCHANGED job
    /\ UNCHANGED <<ports, checked, source, gone>>

\* member_delete looks for the port too, and makes one when there is none, only to
\* remove a mapping; the member leaves its pool after that.
MemberDelete(lb) ==
    /\ job[lb] = Idle /\ lb \in member
    /\ IF lb \in checked
       THEN Start(lb, "member_delete", "find") /\ UNCHANGED member
       ELSE member' = member \ {lb} /\ UNCHANGED job
    /\ UNCHANGED <<ports, checked, source, gone>>

\* A load balancer goes with its row, pools and health checks (lb_delete).
LbDelete(lb) ==
    /\ job[lb] = Idle /\ lb \in member \cup checked
    /\ member' = member \ {lb} /\ checked' = checked \ {lb}
    /\ source' = [source EXCEPT ![lb] = None]
    /\ IF lb \in member \cap checked THEN Start(lb, "lb_delete", "list") ELSE UNCHANGED job
    /\ UNCHANGED <<ports, gone>>

-----------------------------------------------------------------------------
(* _update_hm_member                                                       *)

\* Any port of that name will do.
Find(lb) ==
    /\ At(lb, "find")
    /\ \/ \E p \in ports : GoOn(lb, "write", p, {})
       \/ ports = {} /\ GoOn(lb, "create", None, {})
    /\ UNCHANGED <<ports, member, checked, source, gone>>

Create(lb) ==
    /\ At(lb, "create")
    /\ \E p \in Address \ ports : ports' = ports \cup {p} /\ GoOn(lb, "write", p, {})
    /\ UNCHANGED <<member, checked, source, gone>>

\* Mutated: nothing is cleaned up.
CreateGivesUp(lb) ==
    /\ At(lb, "create")
    /\ \/ UNCHANGED ports
       \/ \E p \in Address \ ports : ports' = ports \cup {p}
    /\ Stop(lb)
    /\ UNCHANGED <<member, checked, source, gone>>

\* The call may fail after Neutron has made the port, a timeout for instance: what
\* there is is cleaned up.
CreateFails(lb) ==
    /\ At(lb, "create")
    /\ \/ UNCHANGED ports
       \/ \E p \in Address \ ports : ports' = ports \cup {p}
    /\ job' = [job EXCEPT ![lb].step = "list", ![lb].failed = TRUE]
    /\ UNCHANGED <<member, checked, source, gone>>

\* _update_ip_port_mappings: the address is entered, or the mapping removed; the member
\* then leaves its pool, and member_delete cleans up.
Write(lb) ==
    /\ At(lb, "write")
    /\ IF job[lb].call = "member_delete"
       THEN /\ source' = [source EXCEPT ![lb] = None]
            /\ member' = member \ {lb}
            /\ GoOn(lb, "list", None, {})
       ELSE /\ source' = [source EXCEPT ![lb] = job[lb].port]
            /\ Stop(lb)
            /\ UNCHANGED member
    /\ UNCHANGED <<ports, checked, gone>>

-----------------------------------------------------------------------------
(* _clean_up_hm_port                                                       *)

\* What a call does after a clean-up.  One whose creation failed touched no mapping:
\* hm_create clears those of the pool, member_delete goes on and cleans up once more.
Finish(lb) ==
    CASE job[lb].failed /\ job[lb].call = "hm_create" ->
            source' = [source EXCEPT ![lb] = None] /\ Stop(lb) /\ UNCHANGED member
      [] job[lb].failed /\ job[lb].call = "member_delete" ->
            member' = member \ {lb} /\ Start(lb, "member_delete", "list") /\ UNCHANGED source
      [] OTHER -> Stop(lb) /\ UNCHANGED <<member, source>>

\* Mutated: the ports are deleted without a look at the rows.
ListUnchecked(lb) ==
    /\ At(lb, "list")
    /\ IF ports = {} THEN Finish(lb)
       ELSE GoOn(lb, "delete", None, ports) /\ UNCHANGED <<member, source>>
    /\ gone' = [gone EXCEPT ![lb] = {}]
    /\ UNCHANGED <<ports, checked>>

List(lb) ==
    /\ At(lb, "list")
    /\ IF ports = {} THEN Finish(lb)
       ELSE GoOn(lb, "check", None, ports) /\ UNCHANGED <<member, source>>
    /\ gone' = [gone EXCEPT ![lb] = {}]
    /\ UNCHANGED <<ports, checked>>

\* Some row with a health check has a mapping that names the port.
Used(p) == \E lb \in checked : source[lb] = p

\* The first port that is used ends it, whatever is left.
Check(lb) ==
    /\ At(lb, "check")
    /\ \E p \in job[lb].left :
          IF Used(p) THEN Finish(lb)
          ELSE GoOn(lb, "delete", p, job[lb].left \ {p}) /\ UNCHANGED <<member, source>>
    /\ UNCHANGED <<ports, checked, gone>>

\* Listed and not deleted by this worker.
Held(lb) == job[lb].left \cup (IF At(lb, "delete") THEN {job[lb].port} ELSE {})

\* delete_port goes by the port's id: one that is gone stays gone, whoever has got its
\* address since, and is gone for the others that have listed it.
DeletePort(lb) ==
    LET p == job[lb].port
    IN IF p \in gone[lb] THEN UNCHANGED <<ports, gone>>
       ELSE /\ ports' = ports \ {p}
            /\ gone' = [x \in Lb |-> IF job[x] # Idle /\ p \in Held(x)
                                     THEN gone[x] \cup {p} ELSE gone[x]]

\* Mutated: the rows are looked at once, for the first port.
DeleteAll(lb) ==
    /\ At(lb, "delete")
    /\ DeletePort(lb)
    /\ IF job[lb].left = {} THEN Finish(lb)
       ELSE /\ \E p \in job[lb].left : GoOn(lb, "delete", p, job[lb].left \ {p})
            /\ UNCHANGED <<member, source>>
    /\ UNCHANGED checked

\* On to the next port, if any is left.
Delete(lb) ==
    /\ At(lb, "delete")
    /\ DeletePort(lb)
    /\ IF job[lb].left = {} THEN Finish(lb)
       ELSE GoOn(lb, "check", None, job[lb].left) /\ UNCHANGED <<member, source>>
    /\ UNCHANGED checked

-----------------------------------------------------------------------------
Request(lb) == \/ HmCreate(lb) \/ HmDelete(lb) \/ MemberCreate(lb) \/ MemberDelete(lb)
               \/ LbDelete(lb)
Work(lb) == \/ Find(lb) \/ Create(lb) \/ CreateFails(lb) \/ Write(lb)
            \/ List(lb) \/ Check(lb) \/ Delete(lb)

Next == \E lb \in Lb : Request(lb) \/ Work(lb)

\* One worker is about to enter a port that another has found unused.
Racing ==
    \E x, y \in Lb : /\ At(x, "write") /\ job[x].call # "member_delete"
                     /\ At(y, "delete") /\ job[y].port \notin gone[y]
                     /\ job[x].port = job[y].port

Noted == raced' = (raced \/ Racing')

Spec == Init /\ [][Next /\ Noted]_vars
-----------------------------------------------------------------------------
\* Ports are addresses of the subnet, and a worker that cleans up has listed them.
TypeOK ==
    /\ ports \subseteq Address
    /\ member \subseteq Lb /\ checked \subseteq Lb
    /\ source \in [Lb -> Address \cup {None}]
    /\ job \in [Lb -> Job]
    /\ gone \in [Lb -> SUBSET Address]
    /\ raced \in BOOLEAN
    /\ \A lb \in Lb : At(lb, "delete") => job[lb].port # None

Quiet == \A lb \in Lb : job[lb] = Idle

\* "we need to ensure no leftover ports remains": when no row with a health check maps
\* a member any more no port is left, however many were made by workers that found
\* none, or by creations that failed, and in whatever order the last users go, as long
\* as no port was deleted that a worker was about to enter (_clean_up_hm_port).
NoLeftover ==
    Quiet /\ ~raced /\ (\A lb \in checked : source[lb] = None) => ports = {}

\* The port a health check comes from exists: of several ports, and while others come
\* and go, no clean-up takes one that a row names, unless its address was about to be
\* entered when the port was found unused.
SourceExists ==
    ~raced => \A lb \in checked : source[lb] # None => source[lb] \in ports
=============================================================================
