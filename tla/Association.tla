---------------------------- MODULE Association ----------------------------
(***************************************************************************)
(* Where a load balancer is attached.  A row of Load_Balancer takes effect *)
(* on the logical switches and routers whose load_balancer column names it. *)
(* It belongs on the switch of its VIP, on the switches of its members, on *)
(* the router of those, and on every switch of such a router.              *)
(*                                                                         *)
(* Two processes maintain this.  An Octavia API worker ("api") handles the *)
(* requests of users; the driver agent ("agent") handles the router ports  *)
(* that Neutron creates and deletes, one event at a time and some time     *)
(* after the fact.  Each handler is a sequence of transactions, and each    *)
(* transaction is prepared from what the database showed before it: the    *)
(* commands write the ls_refs and lr_ref texts of external_ids as a whole. *)
(*                                                                         *)
(* A load balancer is one row here, and a switch has at most one router    *)
(* besides external gateways.                                              *)
(***************************************************************************)
EXTENDS Naturals, FiniteSets, Sequences, SequencesExt

CONSTANTS
    Lb, Switch, Router, Member,
    External,      \* switches of provider networks: their ports are gateways
    VipSwitch,     \* switch of the VIP of a load balancer
    LbOf, SwitchOf,  \* load balancer and switch of a member
    MaxEvents,     \* bound on the events the agent has not handled
    Detaches,      \* whether router ports are deleted
    Deletes,       \* whether load balancers are deleted
    Worlds         \* "calm": nothing moves while a handler is at work; "busy":
                   \* everything but the deletion of router ports does

ASSUME AssociationAssumption ==
    /\ External \subseteq Switch
    /\ VipSwitch \in [Lb -> Switch]
    /\ LbOf \in [Member -> Lb] /\ SwitchOf \in [Member -> Switch \ External]
    /\ MaxEvents \in Nat
    /\ Detaches \in BOOLEAN /\ Deletes \in BOOLEAN
    /\ Worlds \subseteq {"calm", "busy"}

Process == {"api", "agent"}

VARIABLES
    world,    \* one of Worlds, for ever
    port,     \* Neutron: <<router, switch>> of the router ports there are
    live,     \* Load_Balancer rows there are
    members,  \* members that were added and not removed
    lsLb,     \* load_balancer column of a switch
    lrLb,     \* load_balancer column of a router
    lsRefs,   \* 'ls_refs' of a row: references to each switch
    lrRef,    \* 'lr_ref' of a row: its routers
    events,   \* port events the agent has not handled
    todo,     \* what is left of the handler of each process
    txn       \* the transaction each process has prepared, if any

nb   == <<live, lsLb, lrLb, lsRefs, lrRef>>
vars == <<world, port, members, nb, events, todo, txn>>

NoTxn == [lb |-> "none"]
NoRefs == [s \in Switch |-> 0]

Ports(r) == {s \in Switch : <<r, s>> \in port}

\* _find_ls_for_lr leaves out gateway ports, _find_lr_of_ls never sees them.
SwitchesOf(r) == Ports(r) \ External
RoutersOf(s) == IF s \in External THEN {} ELSE {r \in Router : <<r, s>> \in port}

Init ==
    /\ world \in Worlds
    /\ port = {} /\ live = {} /\ members = {}
    /\ lsLb = [s \in Switch |-> {}] /\ lrLb = [r \in Router |-> {}]
    /\ lsRefs = [lb \in Lb |-> NoRefs]
    /\ lrRef = [lb \in Lb |-> {}]
    /\ events = <<>>
    /\ todo = [p \in Process |-> <<>>]
    /\ txn = [p \in Process |-> NoTxn]

-----------------------------------------------------------------------------
(* Transactions.  A transaction adds the row to switches and routers (ls,   *)
(* lr), removes it from others (noLs, noLr), and may rewrite ls_refs and   *)
(* lr_ref; {} stands for a text that is not written.                       *)

Txn(lb) == [lb |-> lb, ls |-> {}, noLs |-> {}, lr |-> {}, noLr |-> {},
            lsRefs |-> {}, lrRef |-> {}, drop |-> FALSE]

\* _get_lb_to_ls_association_commands, associating.  A switch that is already
\* referenced only gains a reference.
LsAdd(lb, s, writeRefs) ==
    LET refs == lsRefs[lb]
        first == refs[s] = 0
    IN  [Txn(lb) EXCEPT
            !.ls = IF first THEN {s} ELSE {},
            !.lsRefs = IF writeRefs THEN {[refs EXCEPT ![s] = @ + 1]} ELSE {}]

\* Mutated: the last reference is never taken out of the text.
LsDelKept(lb, s, writeRefs) ==
    LET refs == lsRefs[lb]
    IN  [Txn(lb) EXCEPT
            !.noLs = IF refs[s] <= 1 THEN {s} ELSE {},
            !.lsRefs = IF writeRefs /\ refs[s] > 1
                       THEN {[refs EXCEPT ![s] = @ - 1]} ELSE {}]

\* Mutated: the row leaves the switch whatever references remain.
LsDelAlways(lb, s, writeRefs) ==
    LET refs == lsRefs[lb]
    IN  [Txn(lb) EXCEPT
            !.noLs = {s},
            !.lsRefs = IF writeRefs /\ refs[s] > 0
                       THEN {[refs EXCEPT ![s] = @ - 1]} ELSE {}]

\* Mutated: a reference is taken whoever asks, and whether or not there is one.
LsDelNegative(lb, s, writeRefs) ==
    [Txn(lb) EXCEPT !.noLs = {s}, !.lsRefs = {[lsRefs[lb] EXCEPT ![s] = @ - 1]}]

\* The same, disassociating: the row leaves the switch with its last reference.
LsDel(lb, s, writeRefs) ==
    LET refs == lsRefs[lb]
    IN  [Txn(lb) EXCEPT
            !.noLs = IF refs[s] <= 1 THEN {s} ELSE {},
            !.lsRefs = IF writeRefs /\ refs[s] > 0
                       THEN {[refs EXCEPT ![s] = @ - 1]} ELSE {}]

\* Mutated: the switches of the router are forgotten.
LrAddRouter(lb, r) ==
    [Txn(lb) EXCEPT !.lr = {r},
                    !.lrRef = IF r \in lrRef[lb] THEN {} ELSE {lrRef[lb] \cup {r}}]

\* Mutated: a second router is not noted.
LrAddFirst(lb, r) ==
    [Txn(lb) EXCEPT !.lr = {r}, !.ls = SwitchesOf(r),
                    !.lrRef = IF lrRef[lb] # {} THEN {} ELSE {{r}}]

\* _add_lb_to_lr_association
LrAdd(lb, r) ==
    [Txn(lb) EXCEPT !.lr = {r}, !.ls = SwitchesOf(r),
                    !.lrRef = IF r \in lrRef[lb] THEN {} ELSE {lrRef[lb] \cup {r}}]

\* Mutated: the row stays on the router.
LrDelSwitches(lb, r) ==
    [Txn(lb) EXCEPT !.noLs = SwitchesOf(r),
                    !.lrRef = IF lrRef[lb] = {} THEN {} ELSE {lrRef[lb] \ {r}}]

\* _del_lb_to_lr_association
LrDel(lb, r) ==
    [Txn(lb) EXCEPT !.noLr = IF lrRef[lb] = {} THEN {} ELSE {r},
                    !.noLs = SwitchesOf(r),
                    !.lrRef = IF lrRef[lb] = {} THEN {} ELSE {lrRef[lb] \ {r}}]

\* _lb_delete takes the row from the columns it can see; as they refer to it
\* weakly, the database takes it from the others.
LbDrop(lb) == [Txn(lb) EXCEPT !.noLs = Switch, !.noLr = Router, !.drop = TRUE]

Written(opt, old) == IF opt = {} THEN old ELSE CHOOSE x \in opt : TRUE

Apply(t) ==
    /\ live' = IF t.drop THEN live \ {t.lb} ELSE live
    /\ lsLb' = [s \in Switch |-> (lsLb[s] \ (IF s \in t.noLs THEN {t.lb} ELSE {}))
                                 \cup (IF s \in t.ls THEN {t.lb} ELSE {})]
    /\ lrLb' = [r \in Router |-> (lrLb[r] \ (IF r \in t.noLr THEN {t.lb} ELSE {}))
                                 \cup (IF r \in t.lr THEN {t.lb} ELSE {})]
    /\ lsRefs' = [lsRefs EXCEPT ![t.lb] =
                     IF t.drop THEN NoRefs ELSE Written(t.lsRefs, @)]
    /\ lrRef' = [lrRef EXCEPT ![t.lb] =
                     IF t.drop THEN {} ELSE Written(t.lrRef, @)]

-----------------------------------------------------------------------------
(* Steps of the handlers                                                   *)

Busy(p) == todo[p] # <<>> \/ txn[p] # NoTxn

Steps(p, steps) == todo' = [todo EXCEPT ![p] = steps \o Tail(@)]

\* The commands of the next transaction are collected.
Prepare(p) ==
    LET step == Head(todo[p])
        t == CASE step.do = "ls_add" -> LsAdd(step.lb, step.s, step.write)
               [] step.do = "ls_del" -> LsDel(step.lb, step.s, step.write)
               [] step.do = "lr_add" -> LrAdd(step.lb, step.r)
               [] step.do = "lr_del" -> LrDel(step.lb, step.r)
               [] step.do = "lb_del" -> LbDrop(step.lb)
    IN  /\ txn[p] = NoTxn
        /\ todo[p] # <<>>
        /\ step.do \in {"ls_add", "ls_del", "lr_add", "lr_del", "lb_del"}
        /\ txn' = [txn EXCEPT ![p] = t]
        /\ UNCHANGED <<port, members, nb, events, todo>>

\* A transaction on a row that is gone fails with RowNotFound.  On a switch that
\* is caught and the handler goes on; on a router it ends the handler.
Commit(p) ==
    LET t == txn[p]
    IN  /\ t # NoTxn
        /\ txn' = [txn EXCEPT ![p] = NoTxn]
        /\ \/ /\ t.lb \in live
              /\ Apply(t)
              /\ Steps(p, <<>>)
           \/ /\ t.lb \notin live
              /\ todo' = [todo EXCEPT ![p] =
                    IF Head(@).do \in {"ls_add", "ls_del"} THEN Tail(@) ELSE <<>>]
              /\ UNCHANGED nb
        /\ UNCHANGED <<port, members, events>>

LrAddStep(lb, r)    == [do |-> "lr_add", lb |-> lb, r |-> r]
LrDelStep(lb, r)    == [do |-> "lr_del", lb |-> lb, r |-> r]
LsAddStep(lb, s, w) == [do |-> "ls_add", lb |-> lb, s |-> s, write |-> w]
LsDelStep(lb, s, w) == [do |-> "ls_del", lb |-> lb, s |-> s, write |-> w]
ForEach(set, Op(_)) == {[i \in DOMAIN q |-> Op(q[i])] : q \in SetToSeqs(set)}

\* _find_lr_of_ls: the router of the switch, if it has one.
FindRouter(p) ==
    LET step == Head(todo[p])
        routers == RoutersOf(step.s)
    IN  /\ txn[p] = NoTxn
        /\ todo[p] # <<>>
        /\ step.do = "find_lr"
        /\ \/ routers = {} /\ Steps(p, <<>>)
           \/ \E r \in routers : Steps(p, <<LrAddStep(step.lb, r)>>)
        /\ UNCHANGED <<port, members, nb, events, txn>>

\* lb_create_lrp_assoc reads both columns and adds what is missing in each; the
\* switch of a gateway port gets nothing.
LrpCreated ==
    LET step == Head(todo["agent"])
        onRouter == lrLb[step.r]
        onSwitch == lsLb[step.s]
        toSwitch == IF step.s \in External THEN {} ELSE onRouter \ onSwitch
    IN  /\ txn["agent"] = NoTxn
        /\ todo["agent"] # <<>>
        /\ step.do = "lrp_created"
        /\ \E lrs \in ForEach(onSwitch \ onRouter, LAMBDA lb : LrAddStep(lb, step.r)),
              lss \in ForEach(toSwitch, LAMBDA lb : LsAddStep(lb, step.s, FALSE)) :
              Steps("agent", lrs \o lss)
        /\ UNCHANGED <<port, members, nb, events, txn>>

\* lb_delete_lrp_assoc: rows with a reference to the switch leave the router,
\* the others of the router leave the switch.
LrpDeleted ==
    LET step == Head(todo["agent"])
        ofSwitch == {lb \in lsLb[step.s] : lsRefs[lb][step.s] > 0}
    IN  /\ txn["agent"] = NoTxn
        /\ todo["agent"] # <<>>
        /\ step.do = "lrp_deleted"
        /\ \E lrs \in ForEach(ofSwitch, LAMBDA lb : LrDelStep(lb, step.r)),
              lss \in ForEach(lrLb[step.r] \ ofSwitch,
                              LAMBDA lb : LsDelStep(lb, step.s, FALSE)) :
              Steps("agent", lrs \o lss)
        /\ UNCHANGED <<port, members, nb, events, txn>>

\* The agent takes the next event.
TakeEvent ==
    /\ ~Busy("agent")
    /\ events # <<>>
    /\ todo' = [todo EXCEPT !["agent"] = <<Head(events)>>]
    /\ events' = Tail(events)
    /\ UNCHANGED <<port, members, nb, txn>>

-----------------------------------------------------------------------------
(* What starts a handler                                                   *)

Quiet == events = <<>> /\ \A p \in Process : ~Busy(p)
MayMove == world = "busy" \/ Quiet

Request(steps) ==
    /\ MayMove
    /\ ~Busy("api")
    /\ todo' = [todo EXCEPT !["api"] = steps]
    /\ UNCHANGED <<port, events, txn>>

\* lb_create: the row, its switch unless that is a provider network's, and the
\* router of that switch.
LbCreate(lb) ==
    LET s == VipSwitch[lb]
        steps == <<[do |-> "find_lr", lb |-> lb, s |-> s]>>
    IN  /\ lb \notin live
        /\ ~Busy("agent") \/ \A i \in DOMAIN todo["agent"] :   \* a new _uuid
              todo["agent"][i].do \in {"lr_add", "lr_del", "ls_add", "ls_del"} =>
                  todo["agent"][i].lb # lb
        /\ Request(IF s \in External THEN steps
                   ELSE <<LsAddStep(lb, s, TRUE)>> \o steps)
        /\ live' = live \cup {lb}
        /\ UNCHANGED <<members, lsLb, lrLb, lsRefs, lrRef>>

LbDelete(lb) ==
    /\ Deletes
    /\ lb \in live
    /\ \A m \in members : LbOf[m] # lb
    /\ Request(<<[do |-> "lb_del", lb |-> lb]>>)
    /\ UNCHANGED <<members, nb>>

\* The association part of _add_member and _remove_member.
MemberAdd(m) ==
    /\ m \notin members /\ LbOf[m] \in live
    /\ Request(<<LsAddStep(LbOf[m], SwitchOf[m], TRUE),
                 [do |-> "find_lr", lb |-> LbOf[m], s |-> SwitchOf[m]]>>)
    /\ members' = members \cup {m}
    /\ UNCHANGED nb

MemberRemove(m) ==
    /\ m \in members
    /\ Request(<<LsDelStep(LbOf[m], SwitchOf[m], TRUE)>>)
    /\ members' = members \ {m}
    /\ UNCHANGED nb

\* Neutron adds and removes router ports, and the agent hears of it.
PortCreate(r, s) ==
    /\ MayMove
    /\ <<r, s>> \notin port
    /\ s \notin External => RoutersOf(s) = {}
    /\ Len(events) < MaxEvents
    /\ port' = port \cup {<<r, s>>}
    /\ events' = Append(events, [do |-> "lrp_created", r |-> r, s |-> s])
    /\ UNCHANGED <<members, nb, todo, txn>>

PortDelete(r, s) ==
    /\ Detaches
    /\ world = "calm" /\ Quiet
    /\ <<r, s>> \in port
    /\ Len(events) < MaxEvents
    /\ port' = port \ {<<r, s>>}
    /\ events' = Append(events, [do |-> "lrp_deleted", r |-> r, s |-> s])
    /\ UNCHANGED <<members, nb, todo, txn>>

Next ==
    /\ \/ \E p \in Process : Prepare(p) \/ Commit(p) \/ FindRouter(p)
       \/ TakeEvent \/ LrpCreated \/ LrpDeleted
       \/ \E lb \in Lb : LbCreate(lb) \/ LbDelete(lb)
       \/ \E m \in Member : MemberAdd(m) \/ MemberRemove(m)
       \/ \E r \in Router, s \in Switch : PortCreate(r, s) \/ PortDelete(r, s)
    /\ UNCHANGED world

Spec == Init /\ [][Next]_vars

-----------------------------------------------------------------------------
(* Properties.  Most speak of the quiet moments, when every handler is done *)
(* and the agent has handled every event.                                   *)

\* Every variable keeps its type: references count, columns hold rows.
TypeOK ==
    /\ world \in Worlds /\ port \subseteq Router \X Switch
    /\ live \subseteq Lb /\ members \subseteq Member
    /\ lsLb \in [Switch -> SUBSET Lb] /\ lrLb \in [Router -> SUBSET Lb]
    /\ lsRefs \in [Lb -> [Switch -> Nat]]
    /\ lrRef \in [Lb -> SUBSET Router]
    /\ Len(events) <= MaxEvents
    /\ \A p \in Process : txn[p] = NoTxn \/ txn[p].lb \in Lb

\* ls_refs counts the VIP and the members of each switch, whatever the agent did
\* in between: a count too low takes the row off a switch in use, one too high
\* leaves it there (_get_lb_to_ls_association_commands).
RefsCount ==
    Quiet => \A lb \in live, s \in Switch :
        lsRefs[lb][s] =
            Cardinality({m \in members : LbOf[m] = lb /\ SwitchOf[m] = s})
            + (IF VipSwitch[lb] = s /\ s \notin External THEN 1 ELSE 0)

\* lr_ref and the routers' columns agree: _lb_delete and the agent look at one
\* or the other.  In a busy world two handlers that each add a router write lr_ref
\* as they read it and one router is lost; but none is named that the row is not on.
RouterRefsAgree ==
    Quiet => \A lb \in live :
        LET on == {r \in Router : lb \in lrLb[r]}
        IN  lrRef[lb] \subseteq on /\ (world = "calm" => lrRef[lb] = on)

\* A row is on every switch it has a reference to: there its VIP answers.
ReferencedIsAssociated ==
    Quiet => \A lb \in live, s \in Switch : lsRefs[lb][s] > 0 => lb \in lsLb[s]

\* Load balancers whose members share the switch of their VIP.
Compact == {lb \in Lb : \A m \in Member : LbOf[m] = lb => SwitchOf[m] = VipSwitch[lb]}

\* The same of a compact load balancer, whatever router ports come and go and
\* whatever other load balancers have members on its switch (lb_delete_lrp_assoc
\* leaves it where it answers); and, while router ports are only created, of every
\* load balancer, however the handlers interleave.
StaysAssociated ==
    Quiet => \A lb \in live, s \in Switch :
        (lb \in Compact \/ world = "busy") /\ lsRefs[lb][s] > 0 => lb \in lsLb[s]

\* "Associate the load balancer L1 with all those networks which have an
\* interface on the router R1": the router of the VIP's switch has the row, and
\* so has every switch of that router (lb_create and lb_create_lrp_assoc).
RouterCovered ==
    Quiet /\ world = "calm" =>
        \A lb \in live \cap Compact : \A r \in RoutersOf(VipSwitch[lb]) :
            lb \in lrLb[r] /\ \A s \in SwitchesOf(r) : lb \in lsLb[s]

\* A compact load balancer is on a router only while that serves its switch
\* (lb_delete_lrp_assoc, _lb_delete).
RouterNeeded ==
    Quiet /\ world = "calm" =>
        \A lb \in live \cap Compact, r \in Router : lb \in lrLb[r] =>
            \E s \in SwitchesOf(r) : lsRefs[lb][s] > 0
=============================================================================
