# A TLA+ model of the OVN Octavia provider

This directory models the OVN provider driver for Octavia
(`ovn_octavia_provider/`): how it turns the calls of Octavia into rows of the
OVN Northbound database, and what can go wrong on the way when calls fail,
repeat, overlap or arrive in an unusual order. Paths without a directory are
under `src/ovn_octavia_provider/`. `PROJECT.json` maps every definition to the
lines it models and lists runs, mutants, findings, hazards and theorems.

## The system

| Part | State it keeps | Operations | Made hard by |
|---|---|---|---|
| `OvnProviderDriver` (`driver.py`) | none; a helper of its own | one method per Octavia call; queues one or several requests | a call of several requests is answered by the first |
| `OvnProviderHelper` (`helper.py`) | a queue in memory, one thread | one handler per request type; reads rows, writes them in transactions, returns a status | failures between transactions, exceptions without a status |
| `Load_Balancer` rows | `external_ids` (listeners, pools, members, member statuses, references), `vips`, `protocol` | written by handlers, and by events | one row per protocol; `vips` is derived and must be refreshed |
| Associations | `load_balancer` columns of switches and routers, `ls_refs`, `lr_ref` | handlers of load balancers and members; router port events | two processes, several transactions per handler |
| Driver agent (`agent.py`, `event.py`) | a helper of its own | router port, VIP port and service monitor events | runs beside the API workers, some time after the fact |
| Health monitors (`helper.py`) | `Load_Balancer_Health_Check`, `ip_port_mappings`, a Neutron port per subnet | `hm_*`, service monitor events | both processes write `neutron:member_status`; ports shared by load balancers |
| Floating IPs (`helper.py`) | `neutron:vip_fip`, more `vips` | `handle_vip_fip`, `handle_member_dvr` | events repeated per row |
| VIP ports | Neutron ports | `create_vip_port`, deletion on failure and with the load balancer | conflict retries, deletion by a nested handler |
| Synchronisation (`driver.py`, `cmd/`) | none | `do_sync`, the `*_sync` handlers | runs beside everything else |
| Event lock (`ovsdb/ovsdb_monitor.py`) | who owns the lock | `notify` | events dropped while the lock is contended |
| Maintenance (`maintenance.py`) | none | periodic task | one owner at a time |
| Validation, configuration, clients | none | checks before anything is queued | nothing over time |

Octavia sits outside: it locks a load balancer (PENDING) before it calls a
driver, unlocks it when a status says ACTIVE or ERROR, and takes no further call
in between. Almost every status of the helper says ACTIVE of the load balancer.

What makes each part correct:

* rows: `vips` shows exactly what is configured and enabled; one key per
  resource, in the row of its protocol; deletion leaves nothing;
* pipeline: one handler at a time per load balancer, in the order of the calls,
  each call answered;
* associations: `ls_refs` counts VIP and members; the row is on the switches and
  routers that need it and on no others;
* health monitors: member statuses agree with the monitor, no port outlives its
  last user, none is deleted in use;
* floating IPs: `vips` has the floating IP if and only if the VIP port has;
* synchronisation: brings any row to what Octavia says, and changes nothing when
  there is nothing to do;
* event lock: every event is handled by exactly one agent.

## Modules

* **OvnLoadBalancer**: the rows of one load balancer and the handlers that keep
  them, one action per handler. The keys of `external_ids` are pairs of a resource and
  whether the key is plain, so `<<l, FALSE>>` is `listener_<l>:D`. The value of a
  listener is the set of pool keys written behind its port. `FrameVips` is
  `_frame_vip_ips`, `Obtain` is `_get_or_create_ovn_lb`, `FindRow` is
  `_find_ovn_lbs`, `PutOrClean` is `_clean_lb_if_empty`. `oLb`, `oListener`,
  `oPool` and `oMember` are Octavia's records: what the user asked for and what
  was reported. `Failures` says which database calls may raise: `"txn"` the first
  transaction of a handler, `"later"` one after it (another transaction, an
  association, the VIP port). At most one call of a handler fails.
* **OvnLoadBalancerHistory**: the same with the history variable `usual`, which is true as
  long as every creation was enabled and no `pool_create` named a listener. It constrains
  nothing; `UsuallyServed` is stated with it.
* **DbSync**: `octavia-ovn-db-sync-util` over those rows; it extends `OvnLoadBalancer`.
  `tool` says where `_ensure_loadbalancer` is: the row, the rows after it, and the
  listeners, pools and members still to come; one call of a handler is one step, and
  `Stop` may come after any. `Begin` to `EndRow` are the rows that are found
  (`ListenerSync`, `PoolSync` and `MemberSync` the handlers of these names), `Make` to
  `EndMake` a load balancer without any, `Lose` a database that was restored without
  some of its contents. `runs` counts how often in a row the tool went through.
* **RequestPipeline**: how calls become requests and requests become
  transactions. `Begin`, `Write`, `ReadStatuses`, `Record` and `Send` are the points
  of a handler between which another process can act: the replica of the database
  is read, the row is written without any precondition, the status map is read and
  written back, the status is sent. One row, everything enabled, no database
  failure: `OvnLoadBalancer` has those. `Deployments` says which processes take
  which calls and whether statuses are refused and processes restarted.
* **CallService**: what Octavia relies on. A locked load balancer changes what it
  serves to what is intended, at one stroke, and is then unlocked, unless the
  provider loses the call; then nothing happens any more. `RequestPipeline`
  implements it under the mapping `locked <- pending`, `intended <- oMembers \ Doomed`,
  `served <- vips`, `abandoned <- lost`, for deployments whose calls have one
  status each (`OneStatus`).
* **Association**: switches, routers and reference counts. A handler is a list of
  steps (`todo`); each step prepares a transaction from what it reads (`txn`) and
  commits it later, so that two processes interleave as they do. `LsAdd`/`LsDel`
  are `_get_lb_to_ls_association_commands`, `LrAdd`/`LrDel` are
  `_add_lb_to_lr_association` and `_del_lb_to_lr_association`. In the calm world of
  `Worlds` one handler runs at a time, in the busy one they interleave.
* **StatusTree**: `_get_current_operating_statuses` as operators, from the map of member
  statuses to pools (`PoolStatus`), and to listeners and the load balancer (`WorstOf`).
* **HealthMonitor**: monitors of one row, requests of the API worker and
  `hm_update_event` of the agent. `EntryRead` and `EntryWrite` are the two halves of
  `_update_external_ids_member_status`; `HmMember` is `_update_hm_member`,
  `CleanMapping` is `_clean_ip_port_mappings`, `CleanUpPort` is `_clean_up_hm_port`.
  ovn-northd and ovn-controller are outside: `ProbeResult` and `MonitorGone` are the
  `Service_Monitor` rows they write, `Notify` the event that queues a request. `crossed`
  is a history variable: both processes have held a copy of the map of statuses at once.
* **HmPort**: the Neutron port that health checks of one subnet come from, and the workers
  of several load balancers that find it, make it, enter its address in their mappings and
  clean it up. `Find` and `Create` are `_ensure_hm_ovn_port`, `List`, `Check` and `Delete`
  the three moments of `_clean_up_hm_port`; ports and rows change between any two.
  `raced` is a history variable: one worker was about to enter a port another was about
  to delete.
* **VirtualIp**: the addresses of a load balancer: Neutron ports (`CreatePorts`,
  `LbCreate`, `LbDelete`), floating IPs that come and go on them, the agents that hear
  of it (`Notified` is `vip_port_update_handler`; `holder` the owner of the OVSDB
  lock), and `handle_vip_fip` in its two halves, `Take` and `Commit`.
* **OvnLoadBalancerProofs**, **OvnLoadBalancerServiceProofs**, **OvnLoadBalancerCoverageProofs**
  (each extends the one before it), **DbSyncProofs** (extends the first),
  **RequestPipelineProofs**, **AssociationProofs**, **VirtualIpProofs**,
  **HealthMonitorProofs**: theorems about those modules.
* **MC\***: model values, functions over them and symmetry for TLC.

`OvnLoadBalancer` assumes handlers that do not overlap; `RequestPipeline` shows
when that is so (`OneHandlerAtATime`, for calls of one status each) and what
happens when it is not. `Association`, `HealthMonitor` and `VirtualIp` each take
one concern of the same handlers, against the agent as second process:
associations, health checks, addresses. `HmPort` takes the one thing that requests of
different load balancers share. `HealthMonitor` uses `StatusTree` for
every status it reports.

## Runs

Passing runs, with the size of what TLC explores:

| Run | States | Question |
|---|---|---|
| `CoreFull` | 403,000 | no failures, everything created enabled or disabled: `VipsFresh`, `ServedIsConfigured`, `DeletedPoolForgotten`, `UsuallyServed` |
| `CoreFailures` | 121,000 | two protocols, any call may fail: `ProtocolsDistinct`, `DeletedLeavesNothing`, `OneKey`, `MemberStatusBelongs` |
| `PipelineCalls` | 226,000 | two workers with calls of one status each, refused statuses and restarts; and one worker with every call: `OneHandlerAtATime`, `InSync`, `SyncWhenIdle`, `Answered`, refinement of `CallService` |
| `AssocEvents` | 469,000 | two load balancers, two routers, a provider network, calm and busy: `RefsCount`, `RouterRefsAgree`, `StaysAssociated`, `RouterCovered`, `RouterNeeded` |
| `HealthSerial` | 556,000 | two monitors, three members, two of them at one IP address, no port or no health check to be had: `ProbedStays`, `HealthFollowed`, `NeverTooGood`, `StatusComplete`, `DownIsTold` |
| `HmPort` | 1,695,000 | three load balancers in three workers, two addresses, creations that fail: `NoLeftover`, `SourceExists` |
| `VirtualIp` | 113,000 | two rows, two ports, two floating IPs, two agents, failing creations and deletions: `FipServed`, `ChecksFollow`, `PortsFollowLb`, `FipReachesRow` |
| `DbSync` | 2,257,000 | one row, failing handlers, a database that loses rows, keys or vips, the tool at any time between requests and stopped after any of its steps: `SyncServes`, `SyncForgets`, `SyncKeepsServing` |

Runs that end in a counterexample, each a finding in `PROJECT.json`:

| Run | What the counterexample shows |
|---|---|
| `RequestAnswered` | with a disabled listener or pool in the row, member requests are never answered |
| `PipelineBatch` | two batches through two API workers overwrite each other |
| `AssocDetach` | detaching a member's network disconnects the VIP's network |
| `HealthDisabled` | with a monitor, a member that is disabled and enabled again is not served |

### What the passing runs leave out on purpose

The models have these behaviours of the code, and the properties do not hold with
them. Each constant or bound that excludes one is named.

Rows and calls:

* `usual` in `UsuallyServed`. The run has creations of every kind, and without `usual` TLC
  refutes the property: a pool created disabled, or attached to a listener that is
  disabled, leaves a value in the listener's key that no later update corrects
  (`helper.py:2214`). Once everything is enabled the listener is still not served.
  `default_pool_id` None in `listener_update` (`helper.py:2172`) leaves `pool_None` in the
  value, to which a later `pool_create` that names the listener appends: two keys are
  routed nowhere.
* `Failures = {}` (`CoreFull`): `lb_update` writes one row after the other
  (`helper.py:1903`), and a failure leaves some enabled and some not. `member_update` stores the status and refreshes `vips`
  in two transactions (`helper.py:2812`). When the second fails and the user repeats
  the request, the second is skipped and the disabled member stays served. The nested
  `lb_create` of `_get_or_create_ovn_lb` deletes the VIP port when it fails, and its
  status is dropped (`helper.py:872`).
* Listeners in `DeletedPoolForgotten`: only pools are covered. `listener_delete` does
  not find the key of a disabled listener (`helper.py:2063`), and `pool_delete` of a
  disabled pool leaves an empty row with its protocol (`helper.py:2354`).
* Batches and pool deletions through one worker (`PipelineCalls`): with two,
  `SyncWhenIdle` fails (`PipelineBatch`), and a member created while its pool is deleted is
  never answered. `Answered` allows for a call that was `lost`: a status
  refused to the last attempt is dropped, a restart forgets the queue, and the load
  balancer stays locked.

Associations:

* `Compact` load balancers, those whose members share the switch of the VIP: the last
  member to leave another switch takes the row off it although its router still
  needs it there (`helper.py:1033`), so `RouterCovered` fails of the others. So does
  `ReferencedIsAssociated` when a network is detached (`AssocDetach`);
  `StaysAssociated` is what remains of it.
* The busy world in `RouterCovered` and `RouterNeeded`: a load balancer created while
  another network joins its router misses that network, which the comment at
  `helper.py:2650` knows. In `RouterRefsAgree` two handlers that each add a router
  lose one entry of `lr_ref`, which is written whole as it was read.
* Router ports deleted in the busy world: while the API worker is in a handler they
  leave `lr_ref` and the columns apart.

Health monitors:

* `Overlap = FALSE` (`HealthSerial`): the API worker and the agent write
  `neutron:member_status` whole as they read it, and nothing keeps them apart. With
  overlap ovn-northd may also be behind, and `HealthFollowed` and `NeverTooGood` fail.
* `crossed` in `StatusComplete` and `ProbedStays`. Both are proved, and TLC has checked them
  (two members of two pools at one IP address), with `Overlap = TRUE` up to where both
  processes have a copy of the map. From there TLC shows entries lost: an event handled
  while `member_create` writes the map takes the entry of the new member away, although
  the map "should include all LB member status" (`helper.py:3992`). Others come back, and
  `hm_delete`, which goes by the map, takes the mapping of a member another monitor probes.
* The deletion of a member at the same IP address in `ProbedStays`: `member_delete` removes
  the mapping of an address without a look at who else has it (`helper.py:2717`), and a
  member of another pool there, whose monitor stays ACTIVE, is not probed any more. The
  NOTE at `helper.py:3546` says that this must be avoided; `_clean_ip_port_mappings`, which
  it stands in, does look. The members at one address are in the run, and without the
  exception TLC refutes the property there.
* `raced`, and `CONSTRAINT NotRaced`, in `HmPort`: from the moment at which a worker is about
  to enter a port that another has found unused and is about to delete, a health check
  may come from a port that is gone (`helper.py:142` says a port is deleted if "there isn't
  any other health monitor using it"), and, where its address is given again, a clean-up
  may take that port for used and leave it. TLC refutes `SourceExists` and `NoLeftover`
  without `~raced`; with it nothing is asked of what follows, which is not explored.
* `Updates = {"enable"}`: disabling a member is the subject of `HealthDisabled`; an update that
  leaves `admin_state_up` out reports NO_MONITOR of a member that is probed
  (`helper.py:2792`), and hides a failed one until the next change.
* Two monitors, each of its own pool, in one row; no two members have one address and port,
  and no text of one member contains another's. `hm_update_event` finds the member by text
  (`Texts`), so that 10.0.0.1 is found in 10.0.0.11.
* `faulted` in `NeverTooGood`: after a port that could not be had the
  monitor's health check stays while its creation is reported as ERROR, and
  `hm_update` says ACTIVE of it.

Addresses:

* `Races = {}` (`VirtualIp`). Each of the four breaks `FipServed`: `"copy"`, a row for
  another protocol copies the floating IPs of the first while an event about them
  waits; `"commit"`, the API worker writes between the two halves of
  `handle_vip_fip`, which writes `vips` back as it read it; `"lock"`, the lock of events
  moves while an event is on its way, and both agents drop it; `"late"`, the row is
  made more than ten seconds after the floating IP.
* `"copied"` not in `Failures`: the nested `lb_create` that fails after its row was made
  deletes the ports of an active load balancer, and `PortsFollowLb` fails.
* One monitor: a floating IP that goes takes the first health check with it that is
  found (`helper.py:3074`); with two monitors on a row `ChecksFollow` fails.

Synchronisation:

* One protocol (`DbSync`): with two, `listener_sync` writes the protocol of every listener
  into every row, and the rows can no longer be told apart.
* `runs = 2` in `SyncServes`: once is not enough. A member enabled while its pool had no
  key is stored OFFLINE still, and `member_sync` refreshes `vips` before it
  corrects that.
* A disabled member is written NO_MONITOR by `member_sync`, so that a later refresh
  serves it; `SyncForgets` speaks of members that were deleted only.

`ServedIsConfigured`, `DeletedPoolForgotten` and `MemberStatusBelongs` are stated
for a load balancer that is ACTIVE: when `lb_delete` fails, its status still says
DELETED of the children it had walked over, while their row, and their traffic, stay.
A load balancer in ERROR takes no call but its deletion.

Other things of note that the models have and no property is about: `hm_update` of a
monitor without health check reports nothing that unlocks the load balancer; a member
created while any pool of the row has a health check is mapped and said to be
ONLINE, whether or not its own pool is monitored; mappings of members that are
created so stay when the monitor goes; a member created disabled is not mapped, and an event
that waited for one of the same address makes it ONLINE; an event makes ERROR of the OFFLINE of a disabled
member; the report of an event unlocks a load balancer that a request
holds locked; `hm_delete` does not report the load balancer, whose operating status stays
what it was.

### Bounds

* Two rows and two protocols make every case of `Obtain`: a row that fits, one
  without protocol, a new one. A third protocol would repeat the second.
* A tcp listener with two tcp pools to choose from, and a udp listener that brings the
  second row; `CoreFailures` takes the udp listener and a tcp pool, so that each has a
  row and either row may be the first to be emptied. One member: handlers of members
  touch the list of one pool and one status each, and interference between members
  is the subject of `RequestPipeline`.
* `MaxQueue` bounds the requests in one queue; the longest call of the largest
  run fits. `MaxAttempts` is 2 where the code tries 15 times: what matters is that
  there is a last attempt. The proofs know neither bound.
* `MaxEvents` bounds events not yet handled, in `Association`, `HealthMonitor` and
  `VirtualIp`. Two routers are needed for `lr_ref` to hold a list, two switches for a
  switch that is not the VIP's.
* `HealthSerial`: a pool of two members can be degraded; the address of one of them has no
  switch port, so that it is in ERROR from the start, and its subnet never has a port
  for health checks. The member of the other pool has the IP address of the first, so
  that deleting one of them, or its monitor, finds the mapping and the port in use.
* `HmPort`: one load balancer cleans up, one uses the port and one comes; two addresses for
  two ports at once, which raced creations make. Checked as well: two load balancers with
  three addresses.
* `VirtualIp`: two floating IPs, so that one can replace another on a port; two
  agents for a lock that moves.
* `DbSync`: one row, listener, pool and member, each in any admin state. The tool treats
  resources one after the other, and the handlers between its runs are all
  there. Checked as well, without failures: two pools, two members.
* Symmetry is used over rows, workers, and the load balancers and addresses of `HmPort`, in runs without temporal properties only.
* `CHECK_DEADLOCK FALSE` is set where the system may really stop: an unanswered
  request stops everything in `OvnLoadBalancer` and `DbSync`, a status that is lost stops
  `RequestPipeline`, `hm_update` of a monitor without health check stops `HealthMonitor`, and
  a deleted load balancer stays deleted in `VirtualIp`. `PipelineBatch`,
  `HealthDisabled` and the runs of `HmPort` and `Association` check for deadlock.

### Assumptions about the environment

* A user's call is accepted only while the load balancer is ACTIVE; ids are never
  reused; Octavia refuses to delete a load balancer with children unless cascade is
  given, and a pool's members are deleted before it. Octavia does not hand an
  empty batch to the driver (`requests # <<>>`): the driver would send no status.
* Octavia deletes the members of a pool reported DELETED.
* `lb_update` writes the new `enabled` into a dictionary of the row and refreshes
  from another access to it (`helper.py:1907-1914`). The model takes the new value
  to be seen, as the functional tests expect (`tests/functional/test_driver.py:191`).
* References to rows from switches and routers are weak in the database: deleting
  a row removes it from columns the handler did not list.
* A switch has at most one router besides gateway ports.
* ovn-northd has a `Service_Monitor` row for each backend of a VIP with a health check whose
  address is mapped, and deletes it with an event that says offline.
* Deleting a Neutron port takes its floating IP off it without an event that an agent
  acts on.
* A port goes from one floating IP to another through none: Neutron refuses a second one
  for an address that has one. `LogicalSwitchPortUpdateEvent` (`event.py:73-75`) takes a
  direct change for an association of the new one, and the old one would stay;
  `FipAssociate` has no such change.
* `HmPort`: the search for a port by name returns any of several; Neutron gives the address of
  a deleted port again; `hm_port_ip in v` is true of that address only, where it is a search
  in a text (`helper.py:162`); a worker reads the rows as they are.
* The synchronisation tool runs between requests, which nothing in the code ensures,
  and its own transactions succeed: the `*_sync` methods log a failure and go on.

### Fairness

`FairSpec` of `RequestPipeline` says that the thread of each helper, in each process,
takes a step when it has one: `request_handler` is a loop that catches every exception
and blocks on nothing but its queue. Users are under no obligation to call; refused
statuses and restarts are not fair either way. `VirtualIp` is weakly fair to the
notifications and the thread of each agent, for the same reason; nothing is said of
users, the API worker or the lock.

`HealthMonitor` is weakly fair to the API worker (`ApiStep`) and to the agent once it has a
request (`EventWrite`, `EventReport`), and strongly fair to `EventTake`: in the code
the thread of the agent waits for nobody, but with `Overlap = FALSE` the model makes
it wait until the API worker is idle, which users may make it be only now and then.
Strong fairness gives back what that restriction takes.

`Association`, `OvnLoadBalancer`, `DbSync` and `HmPort` have no liveness property: theirs speak
of the moments when every handler is done.

## Proofs

`OvnLoadBalancerProofs` proves, for any number of rows, protocols, listeners, pools and
members, any admin states and any set of failing calls:

* `TypeCorrect`: `Spec => []TypeOK`;
* `RowsApart`: `Spec => []ProtocolsDistinct`;
* `KeysUnique`: `Spec => []OneKey`;
* `NoRowOutlives`: `Spec => []DeletedLeavesNothing`.

None of the last three is inductive alone. A row takes a protocol only because it has
none; that its keys then fit the protocol needs `OneKey` to say that a row without a protocol
has no keys; that no second row gets the same protocol needs `ProtocolsDistinct`; and
that a first row may be created without a protocol needs `DeletedLeavesNothing`.
`IInv` is their conjunction with the types (`Invariance`). The proof has one lemma per
operator on rows (what it does to the type, the protocol and the keys), one per way of
writing rows (`PutOK`, `PutOrCleanOK`, `ShrinkOK`), and one per handler, which
`NextOK` collects. It rests on `ConstantsAssumption` only.

Two more theorems relate the rows to Octavia's records, with any set of failing calls
still:

* `NoDeletedPool`: `Spec => []DeletedPoolForgotten`;
* `StatusesBelong`: `Spec => []MemberStatusBelongs`.

Both are about what a deletion leaves behind, and both need to know where a name may
stand at all: `KInv` (`KnownInvariance`) adds to `IInv` that the rows of an ACTIVE load
balancer mention pools and members that Octavia has, and that a member has a status only
in a row with a key of its pool. A deletion that fails breaks this, and the load balancer
is then in ERROR.

`OvnLoadBalancerServiceProofs` proves, for `Failures = {}`:

* `VipsStayFresh`: `Spec => []VipsFresh`;
* `NothingElseServed`: `Spec => []ServedIsConfigured`.

`VipsFresh` is not inductive: that a handler may leave `vips` alone depends on what keys
and statuses there can be, so that `SInv` (`ServiceInvariance`) joins it with the agreement
of keys and admin states with the records. The hypothesis on failures is necessary: a
failed second transaction of `member_update` leaves `vips` stale (`helper.py:2812`).

`OvnLoadBalancerCoverageProofs` proves the converse, for `Failures = {}` and as long as the usual
order is kept:

* `EverythingServed`: `HSpec => []UsuallyServed`.

The invariant is `SInv`, whatever was done, and `CInv` while `usual` is true. `CInv` adds to `SInv` that, while the load balancer is ACTIVE and no request is
unanswered, every listener, pool and member Octavia knows has its key in a row, under the
suffix and with the default pool its record asks for (`Coverage`), and that what does not
exist is not enabled (`Settled`). That a key stands in one row only is `OneKey`. The hypothesis
on failures and both halves of `usual` each exclude a behaviour in which traffic is lost
for good, listed under "What the passing runs leave out on purpose".

`AssociationProofs` proves, for any number of load balancers, switches, routers and
members, any number of events that wait, and any interleaving the worlds allow:

* `AssociationTypes`: `Spec => []TypeOK`, so that no count of references goes below zero;
* `ReferencesCount`: `Spec => []RefsCount`;
* `AttachedStays`: `Spec => []StaysAssociated`;
* `RoutersAgree`: `Spec => []RouterRefsAgree`;
* `RoutersCovered`: `Spec => []RouterCovered`;
* `RoutersNeeded`: `Spec => []RouterNeeded`.

The properties hold at quiet moments; three invariants, each of which contains the one
before, say what is true between them. `AInv` (`CountInvariance`): the counts of a row
differ from what its VIP and members need by what the API worker has still to write, and
what it prepared is still right at the commit, because the agent writes no `ls_refs`.
`BInv` (`ColumnInvariance`): a prepared transaction is what the database calls for (in a
busy world, apart from routers); what the agent has listed to remove spares the switches
in use; `lr_ref` names no router the row is not on. `DInv` (`PlaceInvariance`), about
compact rows in a calm world: while an event waits, they are where the ports before it
put them; once the agent has looked at it, each is in its place or has exactly one step
listed, whose transaction brings it there; and what the API worker adds goes nowhere
but to the switch of the VIP and its router. That the agent lists one step for a row
needs that an order of a set names each element once (`OrderOnce`). It rests on
`AssociationAssumption` only. TLC checked each of these invariants on the instance of its
run before it was proved.

`RequestPipelineProofs` proves, for any number of processes, pools and members, any length of
queues and any number of attempts, with refused statuses and restarts:

* `DatabaseFollows`: `Spec => []InSync`;
* `HandlersAlone`: `Spec => []OneHandlerAtATime`, if in every deployment with two
  processes that take calls each call has one status (`Separate`);
* `Refinement`: `Spec => Promise!Init /\ [][Promise!Next]_Promise!vars`, the safety
  part of `KeepsPromise`;
* `PipelineTypes`: `Spec => []TypeOK`;
* `SyncedWhenIdle`: `Spec => [](OneStatus \/ OneProcess => SyncWhenIdle)`, where in
  `OneProcess` one process takes calls, of every kind, and nothing is refused or restarted.

`InSync` says nothing of the moments when the load balancer is locked. What carries it
through them is `PInv` (`Invariance`), for deployments whose calls have one status
each: at most one request with a status is anywhere, in a queue or under way, and none
while calls are taken (`Alone`); and the row, `vips` and the member statuses lag behind
Octavia's records by what the phase of that request says (`PhaseOK`), so that what was
read at its start is still true when it is written back. `HandlersAlone` adds that a
process that takes no calls has nothing to do. For `Refinement` one more thing has to be
known: after a loss nothing with a status is left (`Stuck`), so that `Abandon` is
the last step of the promise. Each of `CreateMember`, `DeleteMember`, `Begin`, `Write`,
`Send`, `SendFails` and `Restart` is then matched with `Accept`, `Apply`, `Answer`,
`Abandon` or a stutter (`StepRefines`). It rests on `PipelineAssumption` only.

`SyncWhenIdle` with every call needs another argument: a deletion of a pool or a batch
queues one request for each member, the status of the first lets the next call in, and that
call adds to a queue that is not empty. `SInv` says what makes up for each difference
(`Due`): a member of Octavia's that is not listed has its creation waiting, or a deletion
of it or of its pool; a creation that waits is of a member Octavia has, unless its pool has
lost its key, and then it is dropped; and no creation of a member waits behind its
deletion (`Ordered`), because ids are new and nobody wants a member that is to be
deleted. A pool without a key that Octavia still knows is the one whose deletion is being
reported (`Keyed`), so that what is dropped meanwhile goes with it. When nothing waits,
nothing is due. With two processes the row a handler read may be old
(`PipelineBatch`), and with a restart the rest of a call is gone while the load balancer
takes calls: both halves of `OneProcess` are needed. TLC checked `SInv` with three members in two
pools and six requests before it was proved. `TypeOK` is not inductive alone: a job never counts
as many attempts as there are, and only requests for members record a status (`InPhase`).
`Deletions` gives the list of requests element by element, because the result of
`FlattenSeq` on a list of any length cannot be proved (induction over data).

`VirtualIpProofs` proves, for any number of rows, monitors, floating IPs, agents and
notifications that wait:

* `AddressTypes`: `Spec => []TypeOK`, in every world;
* `PortsFollow`: `Spec => []PortsFollowLb`, for any interleaving and any failure but
  `"copied"`, with which it does not hold;
* `FipsServed`: `Spec => []FipServed`;
* `ChecksFollowFips`: `Spec => []ChecksFollow`, if no row has two monitors (`OneMonitor`),
  without which it does not hold.

The last two are for `Races = {}` and no `"copied"` in `Failures` (`Serial`), the world of the
run. They speak of moments when no agent has anything to do. What is true between them is
`FInv` (`ToldInvariance`): there is a sequence of assignments of floating IPs to ports, each
of which the next change in the inbox leads to the following one, that ends with what Neutron
has now; and for every row one that begins with what the row says, along the requests
in the queue, and ends where the first one begins (`Told`). A notification extends the first
sequence; hearing it moves a step from the first to the second of every row, for which the
requests must name each row once; a commit takes a step off the second of one row. Stated so,
no function has to be folded over a queue, and no induction over one is needed.
`GInv` adds that the checks of a row are none, or those of its monitor for the addresses
the row knows. It rests on `VirtualIpAssumption` only.

`HealthMonitorProofs` proves, for any number of pools, members, addresses, subnets and
events that wait, for any failures and any updates:

* `HealthTypes`: `Spec => []TypeOK`, in every world;
* `EveryMemberHasAnEntry`: `Spec => []StatusComplete`, in every world;
* `ProbedStay`: `Spec => ProbedStays`, in every world;
* `TopFollowsMembers`: `Spec => []NeverTooGood`, for `Overlap = FALSE` (`Serial`);
* `StatusesFollowProbes`: `Spec => []HealthFollowed`, for `Overlap = FALSE` and one member at each
  address and port, found in its text by that address only (`OneEach`).

The first three assume nothing but `HealthAssumption`: handlers of the two processes interleave at
every step, members share addresses and subnets, any call fails. What the second and the
third except is in the properties: a write of the map from a stale copy (`crossed`), and,
of a member that was probed, the end of its monitor and the deletion of a member at its IP
address. TLC refutes the properties without any of the three. Nor can the hypotheses
of the last two go: TLC refutes both with `Overlap = TRUE`, and `HealthFollowed` with two members
at one address and port, or a member whose text names the address of another.

`EInv` says what a request and the agent have in hand. In every world each entry still to be
written fits the members listed (`BInv`). Until `crossed`, whoever is about to write the map
has read it as it is (`Fresh`), the agent writes the entry of a member that is listed, or whose
deletion has still to write (`Hears`), and only the entry of a member that is being created or
deleted can be missing or left over (`Complete`). The second half of `Hears` is where a
deletion comes between an event and its write: the agent then brings the entry back, and the
deletion takes it away once more.

`ProbedStays` hangs on the map in one place: `_clean_ip_port_mappings` keeps the mapping of
an address when another pool has a member there whose status is not NO_MONITOR. `PInv` says
that in a pool with a health check no member has that status (`Awake`): `hm_create` writes
ONLINE of each before it adds the check, and only `hm_delete` of that pool writes
NO_MONITOR back; and that a monitor is ACTIVE only with its check (`Kept`). The port of a
subnet stays because some mapping of the subnet does.

With `Overlap = FALSE` the map is never crossed (`SInv`). `GInv` adds that the status of the load
balancer fits whenever the next report will not mend it: `hm_delete` does not report it, and
writes `NO_MONITOR` only. `HInv` says that a member's last event waits, or the agent
is about to write what it says, or it is written (`Heard`); a request that overwrites the
entry does so for a member whose probing it starts, so that a result after the start waits
behind it (`Starts`), or stops (`Stops`). That nothing was heard before the start follows from
`CaughtUp`: a request begins when ovn-northd keeps no `Service_Monitor` row too many, and
until its last change takes no probing away. TLC checked these invariants, `EInv` and `PInv` with
interleaved handlers, before they were proved. It rests on `HealthAssumption` only.

`DbSyncProofs` proves, for any number of rows, protocols, listeners, pools and members, any
failing handlers, any losses of the database and a tool that stops anywhere:

* `SyncTypes`: `SyncSpec => []SyncTypeOK`;
* `TwiceServes`: `SyncSpec => []SyncServes`;
* `OnceKeepsServing`: `SyncSpec => SyncKeepsServing`.

`IInv` is of no use here: the tool gives a listener a second key and two rows one protocol.
`BInv` asks less of the rows, and every handler, every loss and every step of the tool keeps
it: a key of a pool lists members of that pool only, and none where the row has no such key,
and a record of what does not exist says nothing. `SyncInv` follows the tool through a row
(`AtRow`). A listener that was treated has its key and, in it, the pool Octavia names
(`ListenersIn`), which `pool_sync` can only confirm, because the listener that is named for
a pool is one it is the default of. Pools and members that were treated have their keys and
`NO_MONITOR` (`PoolsIn`). A member that was treated is in `vips` of the listeners it is due to
(`MembersServed`), unless it was stored OFFLINE when `member_sync` refreshed them, which
only what comes after corrects. Members and listeners that need no correction (`Fine`) are
those a row served or would have served when the run began (`KeptOK`), and all of them in
the second run, because the first leaves nothing OFFLINE that should be served (`AllFit`):
that is why `SyncServes` counts two runs. `member_sync` refreshes for every enabled member,
so a later one takes nothing of an earlier one away. Rows behind the tool stay as they were
left (`RowsBefore`). TLC checked `SyncInv` before it was proved.

For load balancers whose listeners and pools have one protocol (`OneProtocol`), any number
of them, it proves further

* `NothingComesBack`: `OneProtocol => (SyncSpec => []SyncForgets)`.

The hypothesis is needed: with two protocols there are two rows, `listener_sync` writes
every listener into both and gives both one protocol, and the deletion of a listener of the
other protocol then finds neither (TLC shows it with two listeners, 27 states deep). With one protocol there is one row, and
every request finds it (`FindAll`). What that row mentions has not been deleted, as far as
Octavia's state allows deletions to have failed (`KnownInv`): while the load balancer is
ACTIVE, its keys of enabled listeners and pools are known; while it takes calls, so is every
member it lists; and a key of an existing pool never lists a deleted member. The
tool works with records that exist (`ToolKnown`), because no call is taken while it runs. `vips`
alone may mention what was deleted, until something refreshes them: from the first listener
the tool treats (`Refreshed`) they mention what the keys do (`VipsInv`). `ForgetInv`
is the conjunction; it is inductive beside `SyncInv`.

Every invariant and action property of the passing runs but those of `HmPort` is thus stated by a
theorem, that one for one protocol. `HmPort` is model-checked only. Liveness (`Answered`, `DownIsTold`, `FipReachesRow`, the fairness of
`KeepsPromise`) is beyond the proof system.

## Not modelled

* `handle_member_dvr`: it reads and writes NAT rows of Neutron and plugs ports, reports no
  status and touches nothing a property is about; the pipeline has its request.
* `hm_sync`, `_sync_lbhc` and `hm_purge`, `_fip_sync`, and the associations `lb_sync`
  and `member_sync` restore: `DbSync` has the rows only.
* Several load balancers in `HealthMonitor`, which has one row; `HmPort` has several, with one
  monitor and one member each, no agent and no statuses. There `hm_delete` removes mappings and
  health check in one step, which no other load balancer can tell from two, and the
  deletion of a member never fails.
* The periodic task of `maintenance.py`: a one-off change of the owner of ports, under a
  database lock, that no handler reads.
* The branch of `_create_neutron_port` that finds a port of the same name after a
  conflict, and calls to Neutron that time out after they took effect.
* A failure of the write in `_update_external_ids_member_status`, which it swallows
  (`helper.py:2543`).
* IP versions and addresses, options, selection fields, and everything that formats
  or parses a value no property distinguishes.
* Validation, configuration, clients, constants: no state over time.

## Plan

On disk: everything under "Modules". What would add most, in this order:

1. `SourceExists` and `NoLeftover` proved for any number of load balancers, and `hm_sync`
   beside the handlers of `HealthMonitor`.
2. `DbSync` with the steps of the tool interleaved with those of a request.
3. An abstract VIP service (the backends of each listener, changed by one call at a
   time), implemented by `OvnLoadBalancer` in the usual order of creation.
