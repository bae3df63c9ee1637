-------------------------- MODULE RequestPipeline --------------------------
(***************************************************************************)
(* How the calls on one load balancer reach the Northbound database.       *)
(*                                                                         *)
(* Every process that loads the provider driver (an Octavia API worker) has *)
(* a helper of its own: a queue in memory and one thread that takes one    *)
(* request after the other, reads the row from its replica of the          *)
(* database, writes it back in transactions without any precondition, and  *)
(* reports a status.  The only thing that keeps the helpers of two         *)
(* processes apart is Octavia's lock: a load balancer in PENDING takes no  *)
(* call, and the first status that arrives makes it ACTIVE again.  A call  *)
(* that became several requests is unlocked by the status of the first.    *)
(*                                                                         *)
(* One row with its pools, all enabled, each the default pool of a         *)
(* listener; no database call fails (OvnLoadBalancer has both).            *)
(***************************************************************************)
EXTENDS Naturals, Sequences, SequencesExt

CONSTANTS
    Worker,        \* processes with a helper
    Pool, Member,
    PoolOf,        \* pool of a member
    Deployments,   \* what is checked: the processes that take calls, the calls
                   \* that users make, on which members, and whether statuses
                   \* may be refused and processes restarted
    MaxQueue,      \* bound on the requests in one queue
    MaxAttempts    \* attempts at a status update (15 in the code)

Call == {"create", "delete", "batch", "pool_delete"}

ASSUME PipelineAssumption ==
    /\ PoolOf \in [Member -> Pool] /\ IsFiniteSet(Member)
    /\ Deployments \subseteq
          [workers : SUBSET Worker, calls : SUBSET Call, members : SUBSET Member,
           faults : BOOLEAN]
    /\ MaxQueue \in Nat /\ MaxAttempts \in Nat \ {0}

VARIABLES
    deployment,        \* one of Deployments, chosen at the start
    lost,              \* a request or a status was lost (a history variable)
    pending,           \* Octavia: the load balancer is in a PENDING state
    oPools, oMembers,  \* Octavia: the resources it has a record of
    queue,             \* requests of each helper
    job,               \* what the thread of each helper is doing
    keys,              \* Northbound: pools with a key in external_ids
    row,               \* Northbound: members listed under those keys
    vips,              \* Northbound: members the vips column forwards to
    statuses           \* Northbound: members in neutron:member_status

octavia == <<pending, oPools, oMembers>>
nb      == <<keys, row, vips, statuses>>
vars    == <<octavia, queue, job, nb, lost, deployment>>

-----------------------------------------------------------------------------
(* A request names its member, or the pool when that is to be deleted.  The *)
(* thread is idle or in a phase of a handler: it has read the row and is   *)
(* about to write it, is about to read the member statuses, has read them  *)
(* and is about to write them, or has a status to send.                    *)

MemberOp == {"member_create", "member_update", "member_delete", "dvr"}
Request  == [op : MemberOp, on : Member] \cup [op : {"pool_delete"}, on : Pool]
Idle     == [phase |-> "idle"]
Job      == {Idle}
            \cup [phase : {"write", "record"}, req : Request, seen : SUBSET Member]
            \cup [phase : {"status"}, req : Request]
            \cup [phase : {"send"}, req : Request, tries : 0..MaxAttempts]

PoolOfRequest(req) == IF req.op = "pool_delete" THEN req.on ELSE PoolOf[req.on]
MembersOf(p) == {m \in Member : PoolOf[m] = p}

\* The requests accepted and not finished.
Waiting(w) == Range(queue[w]) \cup (IF job[w] = Idle THEN {} ELSE {job[w].req})
Unfinished == UNION {Waiting(w) : w \in Worker}

\* Members whose deletion was accepted.
Doomed == {m \in Member : \E req \in Unfinished :
                              req.op = "member_delete" /\ req.on = m}

Init ==
    /\ deployment \in Deployments
    /\ lost = FALSE
    /\ pending = FALSE
    /\ oPools = Pool /\ oMembers = {}
    /\ queue = [w \in Worker |-> <<>>]
    /\ job = [w \in Worker |-> Idle]
    /\ keys = Pool /\ row = {} /\ vips = {} /\ statuses = {}

-----------------------------------------------------------------------------
(* Calls.  Octavia locks the load balancer and calls the driver in one of   *)
(* the API workers, which queues the requests.                             *)

\* Mutated: the requests of a call overtake those of earlier calls.
EnqueueFirst(w, requests) ==
    /\ requests # <<>>
    /\ Len(queue[w]) + Len(requests) <= MaxQueue
    /\ queue' = [queue EXCEPT ![w] = requests \o @]

Enqueue(w, requests) ==
    /\ requests # <<>>
    /\ Len(queue[w]) + Len(requests) <= MaxQueue
    /\ queue' = [queue EXCEPT ![w] = @ \o requests]

Accept(w, requests) ==
    /\ w \in deployment.workers
    /\ ~pending
    /\ pending' = TRUE
    /\ Enqueue(w, requests)
    /\ UNCHANGED <<job, nb, lost, deployment>>

\* Ids are not used again while anything refers to them.
Unused(m) == /\ m \notin oMembers \cup row \cup statuses
             /\ \A req \in Unfinished : req.on # m

\* Mutated: the request carries the pool in the place of the member.
CreateRequestsPool(m) == <<[op |-> "member_create", on |-> PoolOf[m]],
                           [op |-> "dvr", on |-> m]>>

CreateRequests(m) == <<[op |-> "member_create", on |-> m],
                       [op |-> "dvr", on |-> m]>>
DeleteRequests(m) == <<[op |-> "member_delete", on |-> m],
                       [op |-> "dvr", on |-> m]>>

\* The requests that delete the members of a list, in its order.
Deletions(list) == [i \in 1..(2 * Len(list)) |->
                       DeleteRequests(list[(i + 1) \div 2])[IF i % 2 = 1 THEN 1 ELSE 2]]

CreateMember(w, m) ==
    /\ "create" \in deployment.calls
    /\ m \in deployment.members
    /\ Unused(m) /\ PoolOf[m] \in oPools
    /\ Accept(w, CreateRequests(m))
    /\ oMembers' = oMembers \cup {m}
    /\ UNCHANGED oPools

DeleteMember(w, m) ==
    /\ "delete" \in deployment.calls
    /\ m \in oMembers
    /\ Accept(w, DeleteRequests(m))
    /\ UNCHANGED <<oPools, oMembers>>

\* The driver deletes the members one by one and then the pool.
DeletePool(w, p) ==
    /\ "pool_delete" \in deployment.calls
    /\ p \in oPools
    /\ \E order \in SetToSeqs(oMembers \cap MembersOf(p)) :
          Accept(w, Deletions(order) \o <<[op |-> "pool_delete", on |-> p]>>)
    /\ UNCHANGED <<oPools, oMembers>>

\* The thread of the API compares the wanted members with those of the row.
\* (Nobody wants a member whose deletion was accepted.)
BatchUpdate(w, p, wanted) ==
    LET listed == row \cap MembersOf(p)
        kind(m) == IF m \in listed THEN "member_update" ELSE "member_create"
    IN  /\ "batch" \in deployment.calls
        /\ p \in oPools \cap keys
        /\ wanted \subseteq deployment.members \ Doomed
        /\ \A m \in wanted \ oMembers : Unused(m)
        /\ \E kept \in SetToSeqs(wanted), dropped \in SetToSeqs(listed \ wanted) :
              Accept(w, [i \in DOMAIN kept |-> [op |-> kind(kept[i]), on |-> kept[i]]]
                        \o Deletions(dropped))
        /\ oMembers' = oMembers \cup wanted
        /\ UNCHANGED oPools

-----------------------------------------------------------------------------
(* The thread of a helper                                                  *)

Becomes(w, newJob) == job' = [job EXCEPT ![w] = newJob]
Phase(w, phase) == job[w].phase = phase

\* Takes the next request and reads the row.  handle_member_dvr reports nothing
\* and changes nothing that is modelled here; a member whose pool has no key
\* ends in an exception that only request_handler catches.
Begin(w) ==
    /\ Phase(w, "idle")
    /\ queue[w] # <<>>
    /\ queue' = [queue EXCEPT ![w] = Tail(@)]
    /\ LET req == Head(queue[w])
       IN  \/ /\ req.op = "dvr"
              /\ UNCHANGED job
           \/ /\ req.op \notin {"dvr", "pool_delete"}
              /\ PoolOf[req.on] \notin keys
              /\ UNCHANGED job
           \/ /\ req.op \in {"member_create", "member_delete"}
              /\ PoolOf[req.on] \in keys
              /\ Becomes(w, [phase |-> "write", req |-> req, seen |-> row])
           \/ /\ req.op = "member_update"
              /\ PoolOf[req.on] \in keys
              /\ Becomes(w, [phase |-> "status", req |-> req])
           \/ /\ req.op = "pool_delete"
              /\ Becomes(w, [phase |-> "write", req |-> req, seen |-> row])
    /\ UNCHANGED <<octavia, nb, lost, deployment>>

\* Mutated: vips are not refreshed.
WritePoolStale(w, p, members) ==
    /\ keys' = keys \cup {p}
    /\ row' = (row \ MembersOf(p)) \cup (members \cap MembersOf(p))
    /\ UNCHANGED vips

\* The member list of the pool and the whole vips column are written as they
\* follow from the row that was read.
WritePool(w, p, members) ==
    /\ keys' = keys \cup {p}
    /\ row' = (row \ MembersOf(p)) \cup (members \cap MembersOf(p))
    /\ vips' = members

Write(w) ==
    LET req == job[w].req
        seen == job[w].seen
    IN  /\ Phase(w, "write")
        /\ \/ /\ req.op = "member_create" /\ req.on \notin seen
              /\ WritePool(w, PoolOf[req.on], seen \cup {req.on})
              /\ Becomes(w, [phase |-> "status", req |-> req])
           \/ /\ req.op = "member_delete" /\ req.on \in seen
              /\ WritePool(w, PoolOf[req.on], seen \ {req.on})
              /\ Becomes(w, [phase |-> "status", req |-> req])
           \/ /\ \/ req.op = "member_create" /\ req.on \in seen
                 \/ req.op = "member_delete" /\ req.on \notin seen
              /\ Becomes(w, [phase |-> "status", req |-> req])
              /\ UNCHANGED <<keys, row, vips>>
           \/ /\ req.op = "pool_delete"
              /\ keys' = keys \ {req.on}
              /\ row' = row \ MembersOf(req.on)
              /\ vips' = seen \ MembersOf(req.on)
              /\ Becomes(w, [phase |-> "send", req |-> req, tries |-> 0])
        /\ UNCHANGED <<octavia, queue, statuses, lost, deployment>>

\* Mutated: the load balancer is reported before the statuses are recorded.
ReadStatusesEarly(w) ==
    /\ Phase(w, "status")
    /\ Becomes(w, [phase |-> "record", req |-> job[w].req, seen |-> statuses])
    /\ pending' = FALSE
    /\ UNCHANGED <<oPools, oMembers, queue, nb, lost, deployment>>

ReadStatuses(w) ==
    /\ Phase(w, "status")
    /\ Becomes(w, [phase |-> "record", req |-> job[w].req, seen |-> statuses])
    /\ UNCHANGED <<octavia, queue, nb, lost, deployment>>

\* Mutated: the status of a deleted member stays.
RecordKept(w) ==
    LET req == job[w].req
    IN  /\ Phase(w, "record")
        /\ statuses' = job[w].seen \cup {req.on}
        /\ Becomes(w, [phase |-> "send", req |-> req, tries |-> 0])
        /\ UNCHANGED <<octavia, queue, keys, row, vips, lost, deployment>>

\* Mutated: member_delete does not return its status.
RecordSilent(w) ==
    LET req == job[w].req
    IN  /\ Phase(w, "record")
        /\ statuses' = IF req.op = "member_delete" THEN job[w].seen \ {req.on}
                                                   ELSE job[w].seen \cup {req.on}
        /\ Becomes(w, IF req.op = "member_delete" THEN Idle
                      ELSE [phase |-> "send", req |-> req, tries |-> 0])
        /\ UNCHANGED <<octavia, queue, keys, row, vips, lost, deployment>>

\* Writes the member statuses back and collects what to report, which fails
\* without a trace when the row has a pool that Octavia does not know.
Record(w) ==
    LET req == job[w].req
    IN  /\ Phase(w, "record")
        /\ statuses' = IF req.op = "member_delete" THEN job[w].seen \ {req.on}
                                                   ELSE job[w].seen \cup {req.on}
        /\ Becomes(w, IF keys \subseteq oPools
                      THEN [phase |-> "send", req |-> req, tries |-> 0] ELSE Idle)
        /\ UNCHANGED <<octavia, queue, keys, row, vips, lost, deployment>>

\* Every status says that the load balancer is ACTIVE.
Send(w) ==
    LET req == job[w].req
    IN  /\ Phase(w, "send")
        /\ pending' = FALSE
        /\ oMembers' = CASE req.op = "member_delete" -> oMembers \ {req.on}
                         [] req.op = "pool_delete" -> oMembers \ MembersOf(req.on)
                         [] OTHER -> oMembers
        /\ oPools' = oPools \ (IF req.op = "pool_delete" THEN {req.on} ELSE {})
        /\ Becomes(w, Idle)
        /\ UNCHANGED <<queue, nb, lost, deployment>>

\* A status that could not be delivered is tried again, and then dropped.
SendFails(w) ==
    LET tries == job[w].tries + 1
    IN  /\ deployment.faults
        /\ Phase(w, "send")
        /\ Becomes(w, IF tries = MaxAttempts THEN Idle
                      ELSE [job[w] EXCEPT !.tries = tries])
        /\ lost' = (lost \/ tries = MaxAttempts)
        /\ UNCHANGED <<octavia, queue, nb, deployment>>

\* The queue was in memory.
Restart(w) ==
    /\ deployment.faults
    /\ queue[w] # <<>> \/ job[w] # Idle
    /\ queue' = [queue EXCEPT ![w] = <<>>]
    /\ Becomes(w, Idle)
    /\ lost' = (lost \/ \E req \in Waiting(w) : req.op # "dvr")
    /\ UNCHANGED <<octavia, nb, deployment>>

Step(w) == Begin(w) \/ Write(w) \/ ReadStatuses(w) \/ Record(w) \/ Send(w)
           \/ SendFails(w)

Next ==
    \E w \in Worker :
       \/ \E m \in Member : CreateMember(w, m) \/ DeleteMember(w, m)
       \/ \E p \in Pool : \/ DeletePool(w, p)
                          \/ \E wanted \in SUBSET MembersOf(p) :
                                BatchUpdate(w, p, wanted)
       \/ Step(w)
       \/ Restart(w)

Spec == Init /\ [][Next]_vars

\* The thread of a helper never stops while there is something to do.
FairSpec == Spec /\ \A w \in Worker : WF_vars(Step(w))

-----------------------------------------------------------------------------
(* Properties                                                              *)

\* Every variable keeps its type: queues of requests, jobs in their phases.
TypeOK ==
    /\ deployment \in Deployments
    /\ pending \in BOOLEAN /\ lost \in BOOLEAN
    /\ oPools \subseteq Pool /\ oMembers \subseteq Member
    /\ queue \in [Worker -> Seq(Request)]
    /\ job \in [Worker -> Job]
    /\ keys \subseteq Pool
    /\ row \subseteq Member /\ vips \subseteq Member /\ statuses \subseteq Member

\* Two threads are never both between reading the row and answering: nothing
\* in the helpers excludes it, only Octavia's lock (add_request, and the status
\* as the last step of each handler).
OneHandlerAtATime ==
    \A v, w \in Worker : job[v] # Idle /\ job[w] # Idle => v = w

\* Every call is one request with a status: members are created and deleted.
OneStatus == deployment.calls \subseteq {"create", "delete"}

\* When every call has one status, the database shows exactly the members Octavia
\* has while it takes calls: listed, forwarded to and with a status (_add_member,
\* _remove_member and _update_external_ids_member_status finish before the status
\* is sent).
InSync == OneStatus /\ ~pending => row = oMembers /\ vips = row /\ statuses = row

\* A call is answered, unless its status was refused to the last attempt or its
\* process restarted: the lock does not stay for ever (_update_status_to_octavia).
Answered == pending ~> (~pending \/ lost)

\* When every call has one status the helpers keep the promise Octavia relies on:
\* who is served is changed during a call only, and is as wanted when it is
\* answered, whatever is refused or restarted.
Promise == INSTANCE CallService WITH
    locked    <- OneStatus /\ pending,
    intended  <- IF OneStatus THEN oMembers \ Doomed ELSE {},
    served    <- IF OneStatus THEN vips ELSE {},
    abandoned <- OneStatus /\ lost
KeepsPromise == Promise!Spec

\* "With the creation of each entity, the LoadBalancer's external_ids column in
\* the NorthBound DB will be updated" (doc/source/contributor/loadbalancer.rst):
\* when no call is under way the database shows Octavia's members, whichever of
\* the requests of member_batch_update came first.
SyncWhenIdle ==
    (\A w \in Worker : queue[w] = <<>> /\ job[w] = Idle) /\ ~pending
        => row = oMembers /\ vips = row
=============================================================================
