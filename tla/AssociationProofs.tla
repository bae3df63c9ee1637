------------------------- MODULE AssociationProofs -------------------------
(***************************************************************************)
(* What holds of associations for any load balancers, switches, routers    *)
(* and members, in calm and busy worlds.  The properties speak of the      *)
(* quiet moments; three invariants say what is true between them.          *)
(*                                                                         *)
(* AInv is about the counts.  Those of a row are short of, or over, what   *)
(* its members need by what the handler of the API worker has still to     *)
(* write; and what it prepared is still right when it commits, because     *)
(* the agent, whatever it does in between, writes no ls_refs: each text    *)
(* belongs to one process.                                                 *)
(*                                                                         *)
(* BInv is about the columns.  In a calm world one handler is at work at a *)
(* time, so that a prepared transaction is still what the database calls   *)
(* for when it is committed, and what the agent has listed to remove still *)
(* spares the switches in use.  In a busy world a transaction on routers   *)
(* may be out of date; but nothing there takes a row off a router, and off *)
(* a switch nothing but its last reference does.                           *)
(*                                                                         *)
(* DInv is about the places of compact rows in a calm world: the router of *)
(* the VIP's switch and every switch of it.  While an event waits, rows    *)
(* are where the ports before it put them; once the agent has looked at it *)
(* each row is in its place or has one step listed, whose transaction      *)
(* brings it there; and a row the API worker adds is nowhere else.         *)
(***************************************************************************)
EXTENDS Association, FiniteSetTheorems, SequenceTheorems, TLAPS

\* The steps of each process.  Those of the agent never write ls_refs.
PortEvent == [do : {"lrp_created", "lrp_deleted"}, r : Router, s : Switch]
SwitchStep(writes) ==
    [do : {"ls_add", "ls_del"}, lb : Lb, s : Switch, write : {writes}]
AgentStep == PortEvent \cup SwitchStep(FALSE)
             \cup [do : {"lr_add", "lr_del"}, lb : Lb, r : Router]
ApiStep   == SwitchStep(TRUE) \cup [do : {"find_lr"}, lb : Lb, s : Switch]
             \cup [do : {"lr_add"}, lb : Lb, r : Router]
             \cup [do : {"lb_del"}, lb : Lb]

Transaction ==
    [lb : Lb, ls : SUBSET Switch, noLs : SUBSET Switch, lr : SUBSET Router,
     noLr : SUBSET Router, lsRefs : SUBSET [Switch -> Nat],
     lrRef : SUBSET SUBSET Router, drop : BOOLEAN]

TodoTypes ==
    /\ events \in Seq(PortEvent)
    /\ todo \in [Process -> Seq(AgentStep \cup ApiStep)]
    /\ todo["agent"] \in Seq(AgentStep)
    /\ todo["api"] \in Seq(ApiStep)
    /\ txn \in [Process -> {NoTxn} \cup Transaction]

\* Load balancers and members are added one by one.
Finite ==
    /\ IsFiniteSet(members)
    /\ \A s \in Switch : IsFiniteSet(lsLb[s])
    /\ \A r \in Router : IsFiniteSet(lrLb[r])

\* At most two steps are left to the API worker, all on one of its rows.
ApiHandler ==
    LET steps == todo["api"]
    IN  /\ Len(steps) <= 2
        /\ Len(steps) = 2 => steps[1].do = "ls_add" /\ steps[2].do = "find_lr"
        /\ \A i \in 1..Len(steps) : steps[i].lb \in live

\* A transaction is that of the first step.
Prepared(p) ==
    txn[p] # NoTxn =>
        /\ todo[p] # <<>>
        /\ Head(todo[p]).do \in {"ls_add", "ls_del", "lr_add", "lr_del", "lb_del"}
        /\ txn[p].lb = Head(todo[p]).lb

\* The text of ls_refs a step of the API worker writes.
Texts(step) ==
    CASE step.do = "ls_add" -> {[lsRefs[step.lb] EXCEPT ![step.s] = @ + 1]}
      [] step.do = "ls_del" -> IF lsRefs[step.lb][step.s] > 0
                               THEN {[lsRefs[step.lb] EXCEPT ![step.s] = @ - 1]}
                               ELSE {}
      [] OTHER -> {}

AgentWrites == txn["agent"] # NoTxn => /\ txn["agent"].lsRefs = {}
                                        /\ txn["agent"].drop = FALSE

ApiWrites ==
    txn["api"] # NoTxn =>
        LET step == Head(todo["api"])
        IN  /\ txn["api"].lsRefs = Texts(step)
            /\ txn["api"].drop = (step.do = "lb_del")

\* The references a switch should have in a row.
Users(lb, s) == {m \in members : LbOf[m] = lb /\ SwitchOf[m] = s}
Needed(lb, s) ==
    Cardinality(Users(lb, s)) + (IF VipSwitch[lb] = s /\ s \notin External THEN 1 ELSE 0)

\* What the API worker is about to write.
Due(do, lb, s) ==
    IF todo["api"] # <<>> /\ Head(todo["api"]).do = do
       /\ Head(todo["api"]).lb = lb /\ Head(todo["api"]).s = s THEN 1 ELSE 0

Counts ==
    \A lb \in live, s \in Switch :
        lsRefs[lb][s] + Due("ls_add", lb, s) = Needed(lb, s) + Due("ls_del", lb, s)

\* A row that is gone, or going, has no members.
Memberless(lb) == \A m \in members : LbOf[m] # lb
Gone ==
    /\ \A lb \in Lb \ live : lsRefs[lb] = NoRefs /\ Memberless(lb)
    /\ todo["api"] # <<>> /\ Head(todo["api"]).do = "lb_del" =>
           Memberless(Head(todo["api"]).lb)

AInv ==
    /\ TypeOK /\ TodoTypes /\ Finite
    /\ Prepared("agent") /\ AgentWrites
    /\ ApiHandler /\ Prepared("api") /\ ApiWrites /\ Counts /\ Gone

-----------------------------------------------------------------------------
(* Sequences and transactions                                              *)

LEMMA FirstStep ==
    ASSUME NEW S, NEW q \in Seq(S), q # <<>>
    PROVE  /\ Head(q) \in S /\ Head(q) = q[1]
           /\ Tail(q) \in Seq(S) /\ Len(q) \in Nat \ {0} /\ Len(Tail(q)) = Len(q) - 1
           /\ \A i \in 1..Len(Tail(q)) : Tail(q)[i] = q[i + 1]
           /\ <<>> \o Tail(q) = Tail(q)
<1>1. Tail(q) \in Seq(S)
  BY HeadTailProperties
<1>. QED  BY <1>1, HeadTailProperties, ConcatEmptySeq, EmptySeq, LenProperties

LEMMA OrderIsSeq ==
    ASSUME NEW S, IsFiniteSet(S), NEW q \in SetToSeqs(S)
    PROVE  /\ q \in Seq(S)
           /\ DOMAIN q = 1..Len(q) /\ Len(q) \in Nat
           /\ \A i \in DOMAIN q : q[i] \in S
<1>1. Cardinality(S) \in Nat
  BY FS_CardinalityType
<1>2. q \in [1..Cardinality(S) -> S]
  BY DEF SetToSeqs
<1>3. q \in Seq(S)
  BY <1>1, <1>2
<1>. QED  BY <1>3, LenProperties, ElementOfSeq

LEMMA Pair == \A x, y : <<x>> \o <<y>> = <<x, y>>
<1>. TAKE x, y
<1>. DEFINE S == {x, y}
<1>1. <<x>> \in Seq(S) /\ <<y>> \in Seq(S) /\ <<x, y>> \in Seq(S)
  OBVIOUS
<1>2. <<x>> \o <<y>> \in Seq(S) /\ Len(<<x>> \o <<y>>) = 2
      /\ \A i \in 1..2 : (<<x>> \o <<y>>)[i] = IF i <= 1 THEN <<x>>[i] ELSE <<y>>[i - 1]
  BY <1>1, ConcatProperties
<1>3. (<<x>> \o <<y>>)[1] = x /\ (<<x>> \o <<y>>)[2] = y
  BY <1>2
<1>. DEFINE a == <<x>> \o <<y>>
            b == <<x, y>>
<1>4. a \in Seq(S) /\ b \in Seq(S) /\ Len(a) = 2 /\ Len(b) = 2
      /\ a[1] = b[1] /\ a[2] = b[2]
  BY <1>1, <1>2, <1>3
<1>. HIDE DEF a, b, S
<1>5. \A i \in 1..Len(a) : a[i] = b[i]
  BY <1>4
<1>6. a = b
  BY <1>4, <1>5, SeqEqual
<1>. QED  BY <1>6 DEF a, b

\* The transactions of switches: what they write into ls_refs.
LEMMA SwitchTxn ==
    ASSUME TypeOK, NEW lb \in Lb, NEW s \in Switch, NEW w \in BOOLEAN
    PROVE  /\ LsAdd(lb, s, w) \in Transaction /\ LsDel(lb, s, w) \in Transaction
           /\ LsAdd(lb, s, w).lb = lb /\ LsDel(lb, s, w).lb = lb
           /\ LsAdd(lb, s, w).drop = FALSE /\ LsDel(lb, s, w).drop = FALSE
           /\ LsAdd(lb, s, w).lsRefs =
                 IF w = TRUE THEN {[lsRefs[lb] EXCEPT ![s] = @ + 1]} ELSE {}
           /\ LsDel(lb, s, w).lsRefs =
                 IF w = TRUE /\ lsRefs[lb][s] > 0 THEN {[lsRefs[lb] EXCEPT ![s] = @ - 1]}
                 ELSE {}
<1>1. /\ lsRefs[lb] \in [Switch -> Nat]
      /\ [lsRefs[lb] EXCEPT ![s] = @ + 1] \in [Switch -> Nat]
      /\ lsRefs[lb][s] > 0 => [lsRefs[lb] EXCEPT ![s] = @ - 1] \in [Switch -> Nat]
  BY DEF TypeOK
<1>2. /\ LsAdd(lb, s, w).lb = lb /\ LsDel(lb, s, w).lb = lb
      /\ LsAdd(lb, s, w).drop = FALSE /\ LsDel(lb, s, w).drop = FALSE
      /\ LsAdd(lb, s, w).lsRefs =
            IF w = TRUE THEN {[lsRefs[lb] EXCEPT ![s] = @ + 1]} ELSE {}
      /\ LsDel(lb, s, w).lsRefs =
            IF w = TRUE /\ lsRefs[lb][s] > 0 THEN {[lsRefs[lb] EXCEPT ![s] = @ - 1]}
            ELSE {}
  BY DEF LsAdd, LsDel, Txn
<1>3. LsAdd(lb, s, w) \in Transaction /\ LsDel(lb, s, w) \in Transaction
  BY <1>1 DEF LsAdd, LsDel, Txn, Transaction
<1>. QED  BY <1>2, <1>3

LEMMA SilentTxn ==
    ASSUME TypeOK, NEW lb \in Lb, NEW s \in Switch
    PROVE  /\ LsAdd(lb, s, FALSE) \in Transaction /\ LsDel(lb, s, FALSE) \in Transaction
           /\ LsAdd(lb, s, FALSE).lb = lb /\ LsDel(lb, s, FALSE).lb = lb
           /\ LsAdd(lb, s, FALSE).drop = FALSE /\ LsDel(lb, s, FALSE).drop = FALSE
           /\ LsAdd(lb, s, FALSE).lsRefs = {} /\ LsDel(lb, s, FALSE).lsRefs = {}
BY DEF LsAdd, LsDel, Txn, Transaction

\* Those of routers and the deletion of a row write no reference.
LEMMA RouterTxn ==
    ASSUME TypeOK, NEW lb \in Lb, NEW r \in Router
    PROVE  /\ LrAdd(lb, r) \in Transaction /\ LrDel(lb, r) \in Transaction
           /\ LrAdd(lb, r).lb = lb /\ LrDel(lb, r).lb = lb
           /\ LrAdd(lb, r).drop = FALSE /\ LrDel(lb, r).drop = FALSE
           /\ LrAdd(lb, r).lsRefs = {} /\ LrDel(lb, r).lsRefs = {}
<1>1. lrRef[lb] \subseteq Router /\ SwitchesOf(r) \subseteq Switch
  BY DEF TypeOK, SwitchesOf, Ports
<1>. QED  BY <1>1 DEF LrAdd, LrDel, Txn, Transaction

LEMMA DropTxn ==
    ASSUME NEW lb \in Lb
    PROVE  /\ LbDrop(lb) \in Transaction /\ LbDrop(lb).lb = lb
           /\ LbDrop(lb).drop = TRUE /\ LbDrop(lb).lsRefs = {}
BY DEF LbDrop, Txn, Transaction

LEMMA WrittenOnce ==
    /\ \A x, old : Written({x}, old) = x
    /\ \A old : Written({}, old) = old
BY DEF Written

LEMMA WrittenIn ==
    ASSUME NEW S, NEW opt \in SUBSET S, NEW old \in S
    PROVE  Written(opt, old) \in S
BY DEF Written

\* What a transaction leaves of the types.
LEMMA ApplyTypes ==
    ASSUME TypeOK, Finite, NEW t \in Transaction, Apply(t)
    PROVE  /\ live' \subseteq Lb
           /\ lsLb' \in [Switch -> SUBSET Lb] /\ lrLb' \in [Router -> SUBSET Lb]
           /\ lsRefs' \in [Lb -> [Switch -> Nat]] /\ lrRef' \in [Lb -> SUBSET Router]
           /\ \A s \in Switch : IsFiniteSet(lsLb'[s])
           /\ \A r \in Router : IsFiniteSet(lrLb'[r])
<1>1. t.lb \in Lb /\ live' \subseteq Lb
  BY DEF Apply, TypeOK, Transaction
<1>2. lsLb' \in [Switch -> SUBSET Lb] /\ lrLb' \in [Router -> SUBSET Lb]
  BY <1>1 DEF Apply, TypeOK
<1>3. lsRefs' \in [Lb -> [Switch -> Nat]]
  <2>1. NoRefs \in [Switch -> Nat]
    BY DEF NoRefs
  <2>2. lsRefs[t.lb] \in [Switch -> Nat] /\ t.lsRefs \subseteq [Switch -> Nat]
    BY <1>1 DEF TypeOK, Transaction
  <2>3. Written(t.lsRefs, lsRefs[t.lb]) \in [Switch -> Nat]
    BY <2>2, WrittenIn
  <2>. QED  BY <1>1, <2>1, <2>3 DEF Apply, TypeOK
<1>4. lrRef' \in [Lb -> SUBSET Router]
  <2>1. lrRef[t.lb] \in SUBSET Router /\ t.lrRef \subseteq SUBSET Router
    BY <1>1 DEF TypeOK, Transaction
  <2>2. Written(t.lrRef, lrRef[t.lb]) \in SUBSET Router
    BY <2>1, WrittenIn
  <2>. QED  BY <1>1, <2>2 DEF Apply, TypeOK
<1>5. ASSUME NEW A, IsFiniteSet(A), NEW B, NEW C \in {{}, {t.lb}}
      PROVE  IsFiniteSet((A \ B) \cup C)
  <2>1. IsFiniteSet(A \ B)
    BY <1>5, FS_Subset
  <2>2. CASE C = {}
    <3>1. (A \ B) \cup C = A \ B
      BY <2>2
    <3>. QED  BY <2>1, <3>1
  <2>3. CASE C = {t.lb}
    BY <2>1, <2>3, FS_AddElement
  <2>. QED  BY <2>2, <2>3
<1>6. \A s \in Switch : IsFiniteSet(lsLb'[s])
  <2>. TAKE s \in Switch
  <2>. DEFINE B == IF s \in t.noLs THEN {t.lb} ELSE {}
              C == IF s \in t.ls THEN {t.lb} ELSE {}
  <2>1. lsLb'[s] = (lsLb[s] \ B) \cup C
    BY DEF Apply
  <2>2. IsFiniteSet(lsLb[s])
    BY DEF Finite
  <2>3. C \in {{}, {t.lb}}
    OBVIOUS
  <2>4. IsFiniteSet((lsLb[s] \ B) \cup C)
    <3>. HIDE DEF B, C
    <3>. QED  BY <1>5, <2>2, <2>3
  <2>. QED  BY <2>1, <2>4, Zenon
<1>7. \A r \in Router : IsFiniteSet(lrLb'[r])
  <2>. TAKE r \in Router
  <2>. DEFINE B == IF r \in t.noLr THEN {t.lb} ELSE {}
              C == IF r \in t.lr THEN {t.lb} ELSE {}
  <2>1. lrLb'[r] = (lrLb[r] \ B) \cup C
    BY DEF Apply
  <2>2. IsFiniteSet(lrLb[r])
    BY DEF Finite
  <2>3. C \in {{}, {t.lb}}
    OBVIOUS
  <2>4. IsFiniteSet((lrLb[r] \ B) \cup C)
    <3>. HIDE DEF B, C
    <3>. QED  BY <1>5, <2>2, <2>3
  <2>. QED  BY <2>1, <2>4, Zenon
<1>. QED  BY <1>1, <1>2, <1>3, <1>4, <1>6, <1>7

-----------------------------------------------------------------------------
(* What one process leaves alone                                           *)

\* No step of the agent touches what is said of the API worker.
LEMMA ApiFrame ==
    ASSUME AInv, live' = live, members' = members, lsRefs' = lsRefs,
           todo'["api"] = todo["api"], txn'["api"] = txn["api"]
    PROVE  ApiHandler' /\ Prepared("api")' /\ ApiWrites' /\ Counts' /\ Gone'
<1>1. ApiHandler' /\ Prepared("api")'
  BY DEF AInv, ApiHandler, Prepared
<1>2. ApiWrites'
  BY DEF AInv, ApiWrites, Texts
<1>3. Counts'
  BY DEF AInv, Counts, Due, Needed, Users
<1>4. Gone'
  BY DEF AInv, Gone, Memberless
<1>. QED  BY <1>1, <1>2, <1>3, <1>4

LEMMA AgentFrame ==
    ASSUME AInv, todo'["agent"] = todo["agent"], txn'["agent"] = txn["agent"]
    PROVE  Prepared("agent")' /\ AgentWrites'
BY DEF AInv, Prepared, AgentWrites

\* TypeOK where the database stays as it is.
LEMMA NbFrame ==
    ASSUME AInv, UNCHANGED <<world, nb>>, members' \subseteq Member,
           port' \subseteq Router \X Switch, Len(events') <= MaxEvents, TodoTypes',
           live' \subseteq Lb, IsFiniteSet(members')
    PROVE  TypeOK' /\ Finite'
<1>1. Finite'
  BY DEF AInv, Finite, nb
<1>2. \A p \in Process : txn'[p] = NoTxn \/ txn'[p].lb \in Lb
  BY DEF TodoTypes, Transaction
<1>. QED  BY <1>1, <1>2 DEF AInv, TypeOK, nb

-----------------------------------------------------------------------------
(* The agent                                                               *)

\* The steps it has left are steps of the agent, and the transaction it prepared
\* is that of the first.
LEMMA AgentSteps ==
    ASSUME AInv, UNCHANGED <<world, members, nb>>, port' \subseteq Router \X Switch,
           NEW q \in Seq(AgentStep), todo' = [todo EXCEPT !["agent"] = q],
           events' \in Seq(PortEvent), Len(events') <= MaxEvents,
           txn' = txn, txn["agent"] = NoTxn
    PROVE  AInv'
<1>1. TodoTypes'
  BY DEF AInv, TodoTypes, Process
<1>2. TypeOK' /\ Finite'
  BY <1>1, NbFrame DEF AInv, TypeOK, nb, Finite
<1>3. todo'["api"] = todo["api"] /\ todo'["agent"] = q
  BY DEF AInv, TodoTypes, Process
<1>4. ApiHandler' /\ Prepared("api")' /\ ApiWrites' /\ Counts' /\ Gone'
  BY <1>3, ApiFrame DEF nb
<1>5. Prepared("agent")' /\ AgentWrites'
  BY DEF Prepared, AgentWrites
<1>. QED  BY <1>1, <1>2, <1>4, <1>5 DEF AInv

LEMMA TakeEventOK ==
    ASSUME AInv, UNCHANGED world, TakeEvent
    PROVE  AInv'
<1>. DEFINE q == <<Head(events)>>
<1>1. events \in Seq(PortEvent) /\ events # <<>>
  BY DEF AInv, TodoTypes, TakeEvent
<1>2. Head(events) \in PortEvent /\ Tail(events) \in Seq(PortEvent)
      /\ Len(Tail(events)) <= Len(events) /\ Len(events) \in Nat
      /\ Len(Tail(events)) \in Nat
  BY <1>1, FirstStep, LenProperties
<1>3. q \in Seq(AgentStep)
  <2>1. Head(events) \in AgentStep
    BY <1>2 DEF AgentStep
  <2>. QED  BY <2>1
<1>4. txn["agent"] = NoTxn
  BY DEF TakeEvent, Busy
<1>5. Len(Tail(events)) <= MaxEvents
  BY <1>2, AssociationAssumption DEF AInv, TypeOK
<1>6. /\ events' = Tail(events) /\ todo' = [todo EXCEPT !["agent"] = q]
      /\ UNCHANGED <<port, members, nb, txn>>
  BY DEF TakeEvent
<1>. HIDE DEF q
<1>. QED  BY <1>2, <1>3, <1>4, <1>5, <1>6, AgentSteps DEF AInv, TypeOK

\* What lb_create_lrp_assoc and lb_delete_lrp_assoc find to do.
LEMMA RowsOfColumns ==
    ASSUME AInv, NEW s \in Switch, NEW r \in Router, NEW A \in SUBSET lsLb[s],
           NEW B \in SUBSET lrLb[r]
    PROVE  /\ A \subseteq Lb /\ B \subseteq Lb
           /\ IsFiniteSet(A) /\ IsFiniteSet(B)
BY FS_Subset DEF AInv, TypeOK, Finite

LEMMA Enumerated ==
    ASSUME NEW S, NEW n \in Nat, NEW f \in [1..n -> S]
    PROVE  f \in Seq(S)
OBVIOUS

LEMMA ForEachSteps ==
    ASSUME NEW S \in SUBSET Lb, IsFiniteSet(S), NEW r \in Router, NEW s \in Switch
    PROVE  /\ ForEach(S, LAMBDA lb : LrAddStep(lb, r)) \subseteq Seq(AgentStep)
           /\ ForEach(S, LAMBDA lb : LrDelStep(lb, r)) \subseteq Seq(AgentStep)
           /\ ForEach(S, LAMBDA lb : LsAddStep(lb, s, FALSE)) \subseteq Seq(AgentStep)
           /\ ForEach(S, LAMBDA lb : LsDelStep(lb, s, FALSE)) \subseteq Seq(AgentStep)
<1>1. \A q \in SetToSeqs(S) :
         DOMAIN q = 1..Len(q) /\ Len(q) \in Nat /\ \A i \in DOMAIN q : q[i] \in Lb
  BY OrderIsSeq
<1>2. \A lb \in Lb : /\ LrAddStep(lb, r) \in AgentStep
                     /\ LrDelStep(lb, r) \in AgentStep
                     /\ LsAddStep(lb, s, FALSE) \in AgentStep
                     /\ LsDelStep(lb, s, FALSE) \in AgentStep
  BY DEF AgentStep, SwitchStep, LrAddStep, LrDelStep, LsAddStep, LsDelStep
<1>3. ASSUME NEW q \in SetToSeqs(S)
      PROVE  /\ [i \in DOMAIN q |-> LrAddStep(q[i], r)] \in Seq(AgentStep)
             /\ [i \in DOMAIN q |-> LrDelStep(q[i], r)] \in Seq(AgentStep)
             /\ [i \in DOMAIN q |-> LsAddStep(q[i], s, FALSE)] \in Seq(AgentStep)
             /\ [i \in DOMAIN q |-> LsDelStep(q[i], s, FALSE)] \in Seq(AgentStep)
  <2>1. [i \in DOMAIN q |-> LrAddStep(q[i], r)] \in [1..Len(q) -> AgentStep]
    BY <1>1, <1>2
  <2>2. [i \in DOMAIN q |-> LrDelStep(q[i], r)] \in [1..Len(q) -> AgentStep]
    BY <1>1, <1>2
  <2>3. [i \in DOMAIN q |-> LsAddStep(q[i], s, FALSE)] \in [1..Len(q) -> AgentStep]
    BY <1>1, <1>2
  <2>4. [i \in DOMAIN q |-> LsDelStep(q[i], s, FALSE)] \in [1..Len(q) -> AgentStep]
    BY <1>1, <1>2
  <2>. QED  BY <1>1, <2>1, <2>2, <2>3, <2>4, Enumerated
<1>. QED  BY <1>3 DEF ForEach

LEMMA LrpCreatedOK ==
    ASSUME AInv, UNCHANGED world, LrpCreated
    PROVE  AInv'
<1>. DEFINE step == Head(todo["agent"])
            A == lsLb[step.s] \ lrLb[step.r]
            B == IF step.s \in External THEN {} ELSE lrLb[step.r] \ lsLb[step.s]
<1>1. /\ todo["agent"] # <<>> /\ txn["agent"] = NoTxn /\ step.do = "lrp_created"
      /\ UNCHANGED <<port, members, nb, events, txn>>
  BY DEF LrpCreated
<1>2. step \in AgentStep /\ Tail(todo["agent"]) \in Seq(AgentStep)
  BY <1>1, FirstStep DEF AInv, TodoTypes
<1>3. step.s \in Switch /\ step.r \in Router
  <2>. HIDE DEF step
  <2>. QED  BY <1>1, <1>2 DEF AgentStep, PortEvent, SwitchStep
<1>4. /\ A \subseteq Lb /\ IsFiniteSet(A)
      /\ B \subseteq Lb /\ IsFiniteSet(B)
  <2>1. A \subseteq lsLb[step.s] /\ B \subseteq lrLb[step.r]
    OBVIOUS
  <2>. HIDE DEF A, B, step
  <2>. QED  BY <1>3, <2>1, RowsOfColumns
<1>5. PICK a \in ForEach(A, LAMBDA lb : LrAddStep(lb, step.r)),
            b \in ForEach(B, LAMBDA lb : LsAddStep(lb, step.s, FALSE)) :
         Steps("agent", a \o b)
  BY DEF LrpCreated
<1>. DEFINE q == (a \o b) \o Tail(todo["agent"])
<1>6. q \in Seq(AgentStep)
  <2>1. a \in Seq(AgentStep) /\ b \in Seq(AgentStep)
    <3>. HIDE DEF A, B, step
    <3>. QED  BY <1>3, <1>4, ForEachSteps
  <2>. QED  BY <1>2, <2>1, ConcatProperties
<1>7. todo' = [todo EXCEPT !["agent"] = q]
  BY <1>5 DEF Steps, AInv, TodoTypes, Process
<1>. HIDE DEF q
<1>. QED  BY <1>1, <1>6, <1>7, AgentSteps DEF AInv, TypeOK, TodoTypes

LEMMA LrpDeletedOK ==
    ASSUME AInv, UNCHANGED world, LrpDeleted
    PROVE  AInv'
<1>. DEFINE step == Head(todo["agent"])
            A == {lb \in lsLb[step.s] : lsRefs[lb][step.s] > 0}
            B == lrLb[step.r] \ A
<1>1. /\ todo["agent"] # <<>> /\ txn["agent"] = NoTxn /\ step.do = "lrp_deleted"
      /\ UNCHANGED <<port, members, nb, events, txn>>
  BY DEF LrpDeleted
<1>2. step \in AgentStep /\ Tail(todo["agent"]) \in Seq(AgentStep)
  BY <1>1, FirstStep DEF AInv, TodoTypes
<1>3. step.s \in Switch /\ step.r \in Router
  <2>. HIDE DEF step
  <2>. QED  BY <1>1, <1>2 DEF AgentStep, PortEvent, SwitchStep
<1>4. /\ A \subseteq Lb /\ IsFiniteSet(A)
      /\ B \subseteq Lb /\ IsFiniteSet(B)
  <2>1. A \subseteq lsLb[step.s] /\ B \subseteq lrLb[step.r]
    OBVIOUS
  <2>. HIDE DEF A, B, step
  <2>. QED  BY <1>3, <2>1, RowsOfColumns
<1>5. PICK a \in ForEach(A, LAMBDA lb : LrDelStep(lb, step.r)),
            b \in ForEach(B, LAMBDA lb : LsDelStep(lb, step.s, FALSE)) :
         Steps("agent", a \o b)
  BY DEF LrpDeleted
<1>. DEFINE q == (a \o b) \o Tail(todo["agent"])
<1>6. q \in Seq(AgentStep)
  <2>1. a \in Seq(AgentStep) /\ b \in Seq(AgentStep)
    <3>. HIDE DEF A, B, step
    <3>. QED  BY <1>3, <1>4, ForEachSteps
  <2>. QED  BY <1>2, <2>1, ConcatProperties
<1>7. todo' = [todo EXCEPT !["agent"] = q]
  BY <1>5 DEF Steps, AInv, TodoTypes, Process
<1>. HIDE DEF q
<1>. QED  BY <1>1, <1>6, <1>7, AgentSteps DEF AInv, TypeOK, TodoTypes

LEMMA PrepareAgent ==
    ASSUME AInv, UNCHANGED world, Prepare("agent")
    PROVE  AInv'
<1>. DEFINE step == Head(todo["agent"])
<1>1. /\ todo["agent"] # <<>> /\ txn["agent"] = NoTxn
      /\ step.do \in {"ls_add", "ls_del", "lr_add", "lr_del", "lb_del"}
      /\ UNCHANGED <<port, members, nb, events, todo>>
  BY DEF Prepare
<1>2. step \in AgentStep
  BY <1>1, FirstStep DEF AInv, TodoTypes
<1>3. PICK t : txn' = [txn EXCEPT !["agent"] = t]
               /\ t = CASE step.do = "ls_add" -> LsAdd(step.lb, step.s, step.write)
                        [] step.do = "ls_del" -> LsDel(step.lb, step.s, step.write)
                        [] step.do = "lr_add" -> LrAdd(step.lb, step.r)
                        [] step.do = "lr_del" -> LrDel(step.lb, step.r)
                        [] step.do = "lb_del" -> LbDrop(step.lb)
  BY DEF Prepare
<1>4. t \in Transaction /\ t.lb = step.lb /\ t.lsRefs = {} /\ t.drop = FALSE
  <2>. HIDE DEF step
  <2>1. CASE step.do \in {"ls_add", "ls_del"}
    <3>1. step.lb \in Lb /\ step.s \in Switch /\ step.write = FALSE
      BY <1>2, <2>1 DEF AgentStep, PortEvent, SwitchStep
    <3>2. /\ LsAdd(step.lb, step.s, step.write) = LsAdd(step.lb, step.s, FALSE)
          /\ LsDel(step.lb, step.s, step.write) = LsDel(step.lb, step.s, FALSE)
      BY <3>1
    <3>3. t \in {LsAdd(step.lb, step.s, FALSE), LsDel(step.lb, step.s, FALSE)}
      <4>1. t \in {LsAdd(step.lb, step.s, step.write), LsDel(step.lb, step.s, step.write)}
        BY <1>3, <2>1
      <4>. QED  BY <3>2, <4>1
    <3>4. step.lb \in Lb /\ step.s \in Switch /\ TypeOK
      BY <3>1 DEF AInv
    <3>5. CASE t = LsAdd(step.lb, step.s, FALSE)
      BY <3>4, <3>5, SilentTxn, Zenon
    <3>6. CASE t = LsDel(step.lb, step.s, FALSE)
      BY <3>4, <3>6, SilentTxn, Zenon
    <3>. QED  BY <3>3, <3>5, <3>6
  <2>2. CASE step.do \in {"lr_add", "lr_del"}
    <3>1. step.lb \in Lb /\ step.r \in Router
      BY <1>2, <2>2 DEF AgentStep, PortEvent, SwitchStep
    <3>. QED  BY <1>3, <2>2, <3>1, RouterTxn DEF AInv
  <2>3. step.do # "lb_del"
    BY <1>2 DEF AgentStep, PortEvent, SwitchStep
  <2>. QED  BY <1>1, <2>1, <2>2, <2>3
<1>5. TodoTypes'
  BY <1>1, <1>3, <1>4 DEF AInv, TodoTypes, Process
<1>6. TypeOK' /\ Finite'
  BY <1>1, <1>5, NbFrame DEF AInv, TypeOK, nb, Finite
<1>7. txn'["api"] = txn["api"] /\ txn'["agent"] = t
  BY <1>3 DEF AInv, TodoTypes, Process
<1>8. Prepared("agent")' /\ AgentWrites'
  BY <1>1, <1>4, <1>7 DEF Prepared, AgentWrites
<1>. QED  BY <1>1, <1>5, <1>6, <1>7, <1>8, ApiFrame DEF AInv, nb

LEMMA CommitAgent ==
    ASSUME AInv, UNCHANGED world, Commit("agent")
    PROVE  AInv'
<1>. DEFINE t == txn["agent"]
<1>1. t # NoTxn /\ txn' = [txn EXCEPT !["agent"] = NoTxn]
      /\ UNCHANGED <<port, members, events>>
  BY DEF Commit
<1>2. t \in Transaction /\ t.lsRefs = {} /\ t.drop = FALSE /\ todo["agent"] # <<>>
  BY <1>1 DEF AInv, TodoTypes, Process, AgentWrites, Prepared
<1>3. PICK q \in Seq(AgentStep) : todo' = [todo EXCEPT !["agent"] = q]
  <2>1. Tail(todo["agent"]) \in Seq(AgentStep) /\ <<>> \in Seq(AgentStep)
        /\ <<>> \o Tail(todo["agent"]) = Tail(todo["agent"])
    BY <1>2, FirstStep DEF AInv, TodoTypes
  <2>2. \/ todo' = [todo EXCEPT !["agent"] = Tail(todo["agent"])]
        \/ todo' = [todo EXCEPT !["agent"] = <<>>]
    BY <2>1 DEF Commit, Steps
  <2>. QED  BY <2>1, <2>2
<1>4. TodoTypes'
  BY <1>1, <1>3 DEF AInv, TodoTypes, Process
<1>5. /\ live' = live /\ lsRefs' = lsRefs /\ TypeOK' /\ Finite'
  <2>1. CASE Apply(t)
    <3>1. live' = live
      BY <1>2, <2>1 DEF Apply
    <3>2. lsRefs' = lsRefs
      BY <1>2, <2>1, WrittenOnce DEF Apply, AInv, TypeOK
    <3>. HIDE DEF t
    <3>3. /\ live' \subseteq Lb
          /\ lsLb' \in [Switch -> SUBSET Lb] /\ lrLb' \in [Router -> SUBSET Lb]
          /\ lsRefs' \in [Lb -> [Switch -> Nat]] /\ lrRef' \in [Lb -> SUBSET Router]
          /\ \A s \in Switch : IsFiniteSet(lsLb'[s])
          /\ \A r \in Router : IsFiniteSet(lrLb'[r])
      BY <1>2, <2>1, ApplyTypes DEF AInv
    <3>4. \A p \in Process : txn'[p] = NoTxn \/ txn'[p].lb \in Lb
      BY <1>4 DEF TodoTypes, Transaction
    <3>. QED  BY <1>1, <3>1, <3>2, <3>3, <3>4 DEF AInv, TypeOK, Finite
  <2>2. CASE UNCHANGED nb
    BY <1>1, <1>4, <2>2, NbFrame DEF AInv, TypeOK, nb, Finite
  <2>. QED  BY <2>1, <2>2 DEF Commit
<1>6. /\ txn'["api"] = txn["api"] /\ txn'["agent"] = NoTxn
      /\ todo'["api"] = todo["api"]
  BY <1>1, <1>3 DEF AInv, TodoTypes, Process
<1>7. Prepared("agent")' /\ AgentWrites'
  BY <1>6 DEF Prepared, AgentWrites
<1>. QED  BY <1>1, <1>4, <1>5, <1>6, <1>7, ApiFrame DEF AInv

LEMMA FindRouterAgent == AInv => ~FindRouter("agent")
<1>. SUFFICES ASSUME AInv, FindRouter("agent") PROVE FALSE
  OBVIOUS
<1>1. todo["agent"] # <<>> /\ Head(todo["agent"]).do = "find_lr"
  BY DEF FindRouter
<1>2. Head(todo["agent"]) \in AgentStep
  BY <1>1, FirstStep DEF AInv, TodoTypes
<1>. QED  BY <1>1, <1>2 DEF AgentStep, PortEvent, SwitchStep

\* Neutron changes router ports; nothing of the provider is touched.
LEMMA PortsOK ==
    ASSUME AInv, UNCHANGED world, NEW r \in Router, NEW s \in Switch,
           PortCreate(r, s) \/ PortDelete(r, s)
    PROVE  AInv'
<1>1. /\ UNCHANGED <<members, nb, todo, txn>>
      /\ Len(events) < MaxEvents
      /\ port' \in {port \cup {<<r, s>>}, port \ {<<r, s>>}}
  BY DEF PortCreate, PortDelete
<1>2. PICK e \in PortEvent : events' = Append(events, e)
  BY DEF PortCreate, PortDelete, PortEvent
<1>3. events' \in Seq(PortEvent) /\ Len(events') = Len(events) + 1
      /\ Len(events) \in Nat
  BY <1>2, AppendProperties, LenProperties DEF AInv, TodoTypes
<1>4. Len(events') <= MaxEvents
  BY <1>1, <1>3, AssociationAssumption
<1>5. TodoTypes'
  BY <1>1, <1>3 DEF AInv, TodoTypes
<1>6. port' \subseteq Router \X Switch
  BY <1>1 DEF AInv, TypeOK
<1>7. TypeOK' /\ Finite'
  BY <1>1, <1>4, <1>5, <1>6, NbFrame DEF AInv, TypeOK, nb, Finite
<1>. QED  BY <1>1, <1>5, <1>7, ApiFrame, AgentFrame DEF AInv, nb

-----------------------------------------------------------------------------
(* The API worker                                                          *)

LEMMA PrepareApi ==
    ASSUME AInv, UNCHANGED world, Prepare("api")
    PROVE  AInv'
<1>. DEFINE step == Head(todo["api"])
<1>1. /\ todo["api"] # <<>> /\ txn["api"] = NoTxn
      /\ step.do \in {"ls_add", "ls_del", "lr_add", "lr_del", "lb_del"}
      /\ UNCHANGED <<port, members, nb, events, todo>>
  BY DEF Prepare
<1>2. step \in ApiStep
  BY <1>1, FirstStep DEF AInv, TodoTypes
<1>3. PICK t : txn' = [txn EXCEPT !["api"] = t]
               /\ t = CASE step.do = "ls_add" -> LsAdd(step.lb, step.s, step.write)
                        [] step.do = "ls_del" -> LsDel(step.lb, step.s, step.write)
                        [] step.do = "lr_add" -> LrAdd(step.lb, step.r)
                        [] step.do = "lr_del" -> LrDel(step.lb, step.r)
                        [] step.do = "lb_del" -> LbDrop(step.lb)
  BY DEF Prepare
<1>4. t \in Transaction /\ t.lb = step.lb /\ t.lsRefs = Texts(step)
      /\ t.drop = (step.do = "lb_del")
  <2>. HIDE DEF step
  <2>1. CASE step.do \in {"ls_add", "ls_del"}
    <3>1. step.lb \in Lb /\ step.s \in Switch /\ step.write = TRUE
      BY <1>2, <2>1 DEF ApiStep, SwitchStep
    <3>2. CASE step.do = "ls_add"
      BY <1>3, <3>1, <3>2, SwitchTxn DEF AInv, Texts
    <3>3. CASE step.do = "ls_del"
      BY <1>3, <3>1, <3>3, SwitchTxn DEF AInv, Texts
    <3>. QED  BY <2>1, <3>2, <3>3
  <2>2. CASE step.do = "lr_add"
    <3>1. step.lb \in Lb /\ step.r \in Router
      BY <1>2, <2>2 DEF ApiStep, SwitchStep
    <3>. QED  BY <1>3, <2>2, <3>1, RouterTxn DEF AInv, Texts
  <2>3. CASE step.do = "lb_del"
    <3>1. step.lb \in Lb
      BY <1>2, <2>3 DEF ApiStep, SwitchStep
    <3>. QED  BY <1>3, <2>3, <3>1, DropTxn DEF Texts
  <2>4. step.do # "lr_del"
    BY <1>2 DEF ApiStep, SwitchStep
  <2>. QED  BY <1>1, <2>1, <2>2, <2>3, <2>4
<1>5. TodoTypes'
  BY <1>1, <1>3, <1>4 DEF AInv, TodoTypes, Process
<1>6. TypeOK' /\ Finite'
  BY <1>1, <1>5, NbFrame DEF AInv, TypeOK, nb, Finite
<1>7. txn'["api"] = t /\ txn'["agent"] = txn["agent"]
  BY <1>3 DEF AInv, TodoTypes, Process
<1>8. Prepared("api")' /\ ApiWrites'
  <2>1. Texts(step)' = Texts(step)
    BY <1>1 DEF Texts, nb
  <2>. QED  BY <1>1, <1>4, <1>7, <2>1 DEF Prepared, ApiWrites
<1>9. ApiHandler' /\ Counts' /\ Gone'
  BY <1>1 DEF AInv, ApiHandler, Counts, Due, Needed, Users, Gone, Memberless, nb
<1>. QED  BY <1>1, <1>5, <1>6, <1>7, <1>8, <1>9, AgentFrame DEF AInv

\* The API worker goes on to other steps: on a row that is there, and of which the
\* first alone writes a reference.
LEMMA StepsLeft ==
    ASSUME AInv, UNCHANGED <<world, port, events, txn>>,
           NEW q \in Seq(ApiStep), todo'["api"] = q, todo'["agent"] = todo["agent"],
           todo' \in [Process -> Seq(AgentStep \cup ApiStep)], txn["api"] = NoTxn,
           UNCHANGED <<lsLb, lrLb, lsRefs, lrRef>>,
           live \subseteq live', live' \subseteq Lb,
           members' \subseteq Member, IsFiniteSet(members'),
           Len(q) <= 2, Len(q) = 2 => q[1].do = "ls_add" /\ q[2].do = "find_lr",
           \A i \in 1..Len(q) : q[i].lb \in live'
    PROVE  /\ TypeOK' /\ TodoTypes' /\ Finite' /\ Prepared("agent")' /\ AgentWrites'
           /\ ApiHandler' /\ Prepared("api")' /\ ApiWrites'
<1>1. TodoTypes'
  BY DEF AInv, TodoTypes, Process
<1>2. TypeOK' /\ Finite'
  BY DEF AInv, TypeOK, Finite
<1>3. Prepared("api")' /\ ApiWrites'
  BY DEF Prepared, ApiWrites
<1>4. ApiHandler'
  BY DEF ApiHandler
<1>. QED  BY <1>1, <1>2, <1>3, <1>4, AgentFrame

\* The first step of what the API worker has to do says what is due.
LEMMA DueIs ==
    ASSUME NEW q, todo["api"] = q, NEW lb, NEW s
    PROVE  /\ q = <<>> => Due("ls_add", lb, s) = 0 /\ Due("ls_del", lb, s) = 0
           /\ \A step : q # <<>> /\ Head(q) = step =>
                 /\ Due("ls_add", lb, s) =
                       IF step.do = "ls_add" /\ step.lb = lb /\ step.s = s THEN 1 ELSE 0
                 /\ Due("ls_del", lb, s) =
                       IF step.do = "ls_del" /\ step.lb = lb /\ step.s = s THEN 1 ELSE 0
BY DEF Due

LEMMA DueNext ==
    ASSUME NEW q, todo'["api"] = q, NEW lb, NEW s
    PROVE  /\ q = <<>> => Due("ls_add", lb, s)' = 0 /\ Due("ls_del", lb, s)' = 0
           /\ \A step : q # <<>> /\ Head(q) = step =>
                 /\ Due("ls_add", lb, s)' =
                       IF step.do = "ls_add" /\ step.lb = lb /\ step.s = s THEN 1 ELSE 0
                 /\ Due("ls_del", lb, s)' =
                       IF step.do = "ls_del" /\ step.lb = lb /\ step.s = s THEN 1 ELSE 0
BY DEF Due

LEMMA NeededNat ==
    ASSUME AInv, NEW lb, NEW s
    PROVE  Needed(lb, s) \in Nat
<1>1. IsFiniteSet(Users(lb, s))
  BY FS_Subset DEF AInv, Finite, Users
<1>2. Cardinality(Users(lb, s)) \in Nat
  BY <1>1, FS_CardinalityType
<1>. QED  BY <1>2 DEF Needed

\* The counts while nothing is due.
LEMMA IdleCounts ==
    ASSUME AInv, todo["api"] = <<>>, NEW lb \in live, NEW s \in Switch
    PROVE  lsRefs[lb][s] = Needed(lb, s) /\ lsRefs[lb][s] \in Nat
<1>1. lsRefs[lb][s] \in Nat
  BY DEF AInv, TypeOK
<1>2. lsRefs[lb][s] + Due("ls_add", lb, s) = Needed(lb, s) + Due("ls_del", lb, s)
  BY DEF AInv, Counts
<1>3. Needed(lb, s) \in Nat
  BY NeededNat
<1>. QED  BY <1>1, <1>2, <1>3, DueIs

LEMMA LbDeleteOK ==
    ASSUME AInv, UNCHANGED world, NEW lb \in Lb, LbDelete(lb)
    PROVE  AInv'
<1>. DEFINE step == [do |-> "lb_del", lb |-> lb]
            q == <<step>>
<1>1. /\ lb \in live /\ Memberless(lb) /\ ~Busy("api")
      /\ todo' = [todo EXCEPT !["api"] = q]
      /\ UNCHANGED <<port, events, txn, members, nb>>
  BY DEF LbDelete, Request, Memberless
<1>2. step \in ApiStep /\ step.do = "lb_del" /\ step.lb = lb
  BY DEF ApiStep
<1>3. q \in Seq(ApiStep) /\ Len(q) = 1 /\ q[1] = step /\ Head(q) = step /\ q # <<>>
  <2>. HIDE DEF step
  <2>. QED  BY <1>2
<1>4. \A i \in 1..Len(q) : q[i].lb \in live'
  <2>. HIDE DEF step, q
  <2>1. \A i \in 1..Len(q) : q[i] = step
    BY <1>3
  <2>. QED  BY <1>1, <1>2, <2>1 DEF nb
<1>. HIDE DEF q, step
<1>5. /\ TypeOK' /\ TodoTypes' /\ Finite' /\ Prepared("agent")' /\ AgentWrites'
      /\ ApiHandler' /\ Prepared("api")' /\ ApiWrites'
      /\ todo'["api"] = q /\ todo["api"] = <<>>
  <2>1. UNCHANGED <<world, port, events, txn>> /\ UNCHANGED <<lsLb, lrLb, lsRefs, lrRef>>
    BY <1>1 DEF nb
  <2>2. live \subseteq live' /\ live' \subseteq Lb
        /\ members' \subseteq Member /\ IsFiniteSet(members')
    BY <1>1 DEF AInv, TypeOK, Finite, nb
  <2>3. /\ todo'["api"] = q /\ todo'["agent"] = todo["agent"]
        /\ todo' \in [Process -> Seq(AgentStep \cup ApiStep)]
    BY <1>1, <1>3, <1>4 DEF AInv, TodoTypes, Process
  <2>4. Len(q) <= 2 /\ (Len(q) = 2 => q[1].do = "ls_add" /\ q[2].do = "find_lr")
    BY <1>3, <1>4
  <2>5. AInv /\ q \in Seq(ApiStep) /\ txn["api"] = NoTxn /\ todo["api"] = <<>>
    BY <1>1, <1>3, <1>4 DEF Busy
  <2>. QED  BY <1>4, <2>1, <2>2, <2>3, <2>4, <2>5, StepsLeft, Zenon
<1>6. Counts'
  <2>. SUFFICES ASSUME NEW b \in live, NEW s \in Switch
                PROVE  lsRefs'[b][s] + Due("ls_add", b, s)'
                          = Needed(b, s)' + Due("ls_del", b, s)'
    BY <1>1 DEF Counts, nb
  <2>1. Due("ls_add", b, s)' = 0 /\ Due("ls_del", b, s)' = 0
    BY <1>2, <1>3, <1>5, DueNext
  <2>2. Needed(b, s)' = Needed(b, s) /\ lsRefs' = lsRefs
    BY <1>1 DEF Needed, Users, nb
  <2>. QED  BY <1>5, <2>1, <2>2, IdleCounts
<1>7. Gone'
  BY <1>1, <1>2, <1>3, <1>5 DEF AInv, Gone, Memberless, nb
<1>. QED  BY <1>5, <1>6, <1>7 DEF AInv

\* A member more or less, for the counts.
LEMMA CountMembers ==
    ASSUME AInv, NEW m \in Member, NEW lb \in Lb, NEW s \in Switch
    PROVE  /\ members' = members \cup {m} /\ m \notin members =>
                Needed(lb, s)' = Needed(lb, s)
                                 + (IF LbOf[m] = lb /\ SwitchOf[m] = s THEN 1 ELSE 0)
           /\ members' = members \ {m} /\ m \in members =>
                Needed(lb, s) = Needed(lb, s)'
                                + (IF LbOf[m] = lb /\ SwitchOf[m] = s THEN 1 ELSE 0)
<1>1. IsFiniteSet(Users(lb, s))
  BY FS_Subset DEF AInv, Finite, Users
<1>2. Cardinality(Users(lb, s)) \in Nat
  BY <1>1, FS_CardinalityType
<1>3. ASSUME members' = members \cup {m}, m \notin members
      PROVE  Needed(lb, s)' = Needed(lb, s)
                              + (IF LbOf[m] = lb /\ SwitchOf[m] = s THEN 1 ELSE 0)
  <2>1. CASE LbOf[m] = lb /\ SwitchOf[m] = s
    <3>1. Users(lb, s)' = Users(lb, s) \cup {m} /\ m \notin Users(lb, s)
      BY <1>3, <2>1 DEF Users
    <3>2. Cardinality(Users(lb, s)') = Cardinality(Users(lb, s)) + 1
      BY <1>1, <3>1, FS_AddElement
    <3>. QED  BY <1>2, <2>1, <3>2 DEF Needed
  <2>2. CASE ~(LbOf[m] = lb /\ SwitchOf[m] = s)
    <3>1. Users(lb, s)' = Users(lb, s)
      BY <1>3, <2>2 DEF Users
    <3>. QED  BY <1>2, <2>2, <3>1 DEF Needed
  <2>. QED  BY <2>1, <2>2
<1>4. ASSUME members' = members \ {m}, m \in members
      PROVE  Needed(lb, s) = Needed(lb, s)'
                             + (IF LbOf[m] = lb /\ SwitchOf[m] = s THEN 1 ELSE 0)
  <2>1. CASE LbOf[m] = lb /\ SwitchOf[m] = s
    <3>1. Users(lb, s)' = Users(lb, s) \ {m} /\ m \in Users(lb, s)
      BY <1>4, <2>1 DEF Users
    <3>2. Cardinality(Users(lb, s)') = Cardinality(Users(lb, s)) - 1
      BY <1>1, <3>1, FS_RemoveElement
    <3>. QED  BY <1>2, <2>1, <3>2 DEF Needed
  <2>2. CASE ~(LbOf[m] = lb /\ SwitchOf[m] = s)
    <3>1. Users(lb, s)' = Users(lb, s)
      BY <1>4, <2>2 DEF Users
    <3>. QED  BY <1>2, <2>2, <3>1 DEF Needed
  <2>. QED  BY <2>1, <2>2
<1>. QED  BY <1>3, <1>4

LEMMA MemberAddOK ==
    ASSUME AInv, UNCHANGED world, NEW m \in Member, MemberAdd(m)
    PROVE  AInv'
<1>. DEFINE first == LsAddStep(LbOf[m], SwitchOf[m], TRUE)
            second == [do |-> "find_lr", lb |-> LbOf[m], s |-> SwitchOf[m]]
            q == <<first, second>>
<1>1. /\ m \notin members /\ LbOf[m] \in live /\ ~Busy("api")
      /\ members' = members \cup {m}
      /\ todo' = [todo EXCEPT !["api"] = q]
      /\ UNCHANGED <<port, events, txn, nb>>
  BY DEF MemberAdd, Request
<1>2. LbOf[m] \in Lb /\ SwitchOf[m] \in Switch
  BY AssociationAssumption
<1>3. /\ first \in ApiStep /\ second \in ApiStep
      /\ first.do = "ls_add" /\ first.lb = LbOf[m] /\ first.s = SwitchOf[m]
      /\ second.do = "find_lr" /\ second.lb = LbOf[m]
  BY <1>2 DEF ApiStep, SwitchStep, LsAddStep
<1>4. /\ q \in Seq(ApiStep) /\ Len(q) = 2 /\ q[1] = first /\ q[2] = second
      /\ Head(q) = first /\ q # <<>>
  <2>. HIDE DEF first, second
  <2>. QED  BY <1>3
<1>. HIDE DEF q, first, second
<1>5. \A i \in 1..Len(q) : q[i].lb \in live'
  <2>1. \A i \in 1..Len(q) : q[i] = first \/ q[i] = second
    BY <1>4
  <2>. QED  BY <1>1, <1>3, <2>1 DEF nb
<1>6. members' \subseteq Member /\ IsFiniteSet(members')
  BY <1>1, FS_AddElement DEF AInv, TypeOK, Finite
<1>7. /\ TypeOK' /\ TodoTypes' /\ Finite' /\ Prepared("agent")' /\ AgentWrites'
      /\ ApiHandler' /\ Prepared("api")' /\ ApiWrites'
      /\ todo'["api"] = q /\ todo["api"] = <<>>
  <2>1. UNCHANGED <<world, port, events, txn>> /\ UNCHANGED <<lsLb, lrLb, lsRefs, lrRef>>
    BY <1>1 DEF nb
  <2>2. live \subseteq live' /\ live' \subseteq Lb
    BY <1>1 DEF AInv, TypeOK, nb
  <2>3. /\ todo'["api"] = q /\ todo'["agent"] = todo["agent"]
        /\ todo' \in [Process -> Seq(AgentStep \cup ApiStep)]
    BY <1>1, <1>3, <1>4 DEF AInv, TodoTypes, Process
  <2>4. Len(q) <= 2 /\ (Len(q) = 2 => q[1].do = "ls_add" /\ q[2].do = "find_lr")
    BY <1>3, <1>4
  <2>5. AInv /\ q \in Seq(ApiStep) /\ txn["api"] = NoTxn /\ todo["api"] = <<>>
    BY <1>1, <1>3, <1>4 DEF Busy
  <2>. QED  BY <1>5, <1>6, <2>1, <2>2, <2>3, <2>4, <2>5, StepsLeft, Zenon
<1>8. Counts'
  <2>. SUFFICES ASSUME NEW b \in live, NEW s \in Switch
                PROVE  lsRefs'[b][s] + Due("ls_add", b, s)'
                          = Needed(b, s)' + Due("ls_del", b, s)'
    BY <1>1 DEF Counts, nb
  <2>1. Due("ls_add", b, s)' = (IF LbOf[m] = b /\ SwitchOf[m] = s THEN 1 ELSE 0)
        /\ Due("ls_del", b, s)' = 0
    BY <1>3, <1>4, <1>7, DueNext
  <2>2. Needed(b, s)' = Needed(b, s)
                        + (IF LbOf[m] = b /\ SwitchOf[m] = s THEN 1 ELSE 0)
    BY <1>1, CountMembers DEF AInv, TypeOK
  <2>3. lsRefs' = lsRefs
    BY <1>1 DEF nb
  <2>. QED  BY <1>7, <2>1, <2>2, <2>3, IdleCounts
<1>9. Gone'
  BY <1>1, <1>3, <1>4, <1>7 DEF AInv, Gone, Memberless, nb
<1>. QED  BY <1>7, <1>8, <1>9 DEF AInv

LEMMA MemberRemoveOK ==
    ASSUME AInv, UNCHANGED world, NEW m \in Member, MemberRemove(m)
    PROVE  AInv'
<1>. DEFINE step == LsDelStep(LbOf[m], SwitchOf[m], TRUE)
            q == <<step>>
<1>1. /\ m \in members /\ ~Busy("api")
      /\ members' = members \ {m}
      /\ todo' = [todo EXCEPT !["api"] = q]
      /\ UNCHANGED <<port, events, txn, nb>>
  BY DEF MemberRemove, Request
<1>2. LbOf[m] \in Lb /\ SwitchOf[m] \in Switch /\ LbOf[m] \in live
  BY <1>1, AssociationAssumption DEF AInv, Gone, Memberless
<1>3. /\ step \in ApiStep
      /\ step.do = "ls_del" /\ step.lb = LbOf[m] /\ step.s = SwitchOf[m]
  BY <1>2 DEF ApiStep, SwitchStep, LsDelStep
<1>4. q \in Seq(ApiStep) /\ Len(q) = 1 /\ q[1] = step /\ Head(q) = step /\ q # <<>>
  <2>. HIDE DEF step
  <2>. QED  BY <1>3
<1>. HIDE DEF q, step
<1>5. \A i \in 1..Len(q) : q[i].lb \in live'
  <2>1. \A i \in 1..Len(q) : q[i] = step
    BY <1>4
  <2>. QED  BY <1>2, <1>1, <1>3, <2>1 DEF nb
<1>6. members' \subseteq Member /\ IsFiniteSet(members')
  BY <1>1, FS_Subset DEF AInv, TypeOK, Finite
<1>7. /\ TypeOK' /\ TodoTypes' /\ Finite' /\ Prepared("agent")' /\ AgentWrites'
      /\ ApiHandler' /\ Prepared("api")' /\ ApiWrites'
      /\ todo'["api"] = q /\ todo["api"] = <<>>
  <2>1. UNCHANGED <<world, port, events, txn>> /\ UNCHANGED <<lsLb, lrLb, lsRefs, lrRef>>
    BY <1>1 DEF nb
  <2>2. live \subseteq live' /\ live' \subseteq Lb
    BY <1>1 DEF AInv, TypeOK, nb
  <2>3. /\ todo'["api"] = q /\ todo'["agent"] = todo["agent"]
        /\ todo' \in [Process -> Seq(AgentStep \cup ApiStep)]
    BY <1>1, <1>3, <1>4 DEF AInv, TodoTypes, Process
  <2>4. Len(q) <= 2 /\ (Len(q) = 2 => q[1].do = "ls_add" /\ q[2].do = "find_lr")
    BY <1>3, <1>4
  <2>5. AInv /\ q \in Seq(ApiStep) /\ txn["api"] = NoTxn /\ todo["api"] = <<>>
    BY <1>1, <1>3, <1>4 DEF Busy
  <2>. QED  BY <1>5, <1>6, <2>1, <2>2, <2>3, <2>4, <2>5, StepsLeft, Zenon
<1>8. Counts'
  <2>. SUFFICES ASSUME NEW b \in live, NEW s \in Switch
                PROVE  lsRefs'[b][s] + Due("ls_add", b, s)'
                          = Needed(b, s)' + Due("ls_del", b, s)'
    BY <1>1 DEF Counts, nb
  <2>1. Due("ls_del", b, s)' = (IF LbOf[m] = b /\ SwitchOf[m] = s THEN 1 ELSE 0)
        /\ Due("ls_add", b, s)' = 0
    BY <1>3, <1>4, <1>7, DueNext
  <2>2. Needed(b, s) = Needed(b, s)'
                       + (IF LbOf[m] = b /\ SwitchOf[m] = s THEN 1 ELSE 0)
    BY <1>1, CountMembers DEF AInv, TypeOK
  <2>3. lsRefs' = lsRefs
    BY <1>1 DEF nb
  <2>. QED  BY <1>7, <2>1, <2>2, <2>3, IdleCounts
<1>9. Gone'
  BY <1>1, <1>3, <1>4, <1>7 DEF AInv, Gone, Memberless, nb
<1>. QED  BY <1>7, <1>8, <1>9 DEF AInv

LEMMA LbCreateOK ==
    ASSUME AInv, UNCHANGED world, NEW lb \in Lb, LbCreate(lb)
    PROVE  AInv'
<1>. DEFINE sw == VipSwitch[lb]
            find == [do |-> "find_lr", lb |-> lb, s |-> sw]
            add == LsAddStep(lb, sw, TRUE)
            q == IF sw \in External THEN <<find>> ELSE <<add, find>>
<1>1. /\ lb \notin live /\ live' = live \cup {lb} /\ ~Busy("api")
      /\ UNCHANGED <<port, events, txn, members, lsLb, lrLb, lsRefs, lrRef>>
  BY DEF LbCreate, Request
<1>2. todo' = [todo EXCEPT !["api"] = q]
  <2>1. todo' = [todo EXCEPT !["api"] = IF sw \in External THEN <<find>>
                                        ELSE <<add>> \o <<find>>]
    BY DEF LbCreate, Request
  <2>. HIDE DEF sw, find, add
  <2>. QED  BY <2>1, Pair
<1>3. /\ sw \in Switch /\ find \in ApiStep /\ add \in ApiStep
      /\ find.do = "find_lr" /\ find.lb = lb
      /\ add.do = "ls_add" /\ add.lb = lb /\ add.s = sw
  BY AssociationAssumption DEF ApiStep, SwitchStep, LsAddStep
<1>. HIDE DEF find, add, sw
<1>4. /\ q \in Seq(ApiStep) /\ q # <<>>
      /\ sw \in External => Len(q) = 1 /\ q[1] = find /\ Head(q) = find
      /\ sw \notin External =>
            Len(q) = 2 /\ q[1] = add /\ q[2] = find /\ Head(q) = add
  BY <1>3
<1>. HIDE DEF q
<1>5. \A i \in 1..Len(q) : q[i].lb \in live'
  <2>1. \A i \in 1..Len(q) : q[i] = add \/ q[i] = find
    BY <1>4
  <2>. QED  BY <1>1, <1>3, <2>1
<1>6. /\ TypeOK' /\ TodoTypes' /\ Finite' /\ Prepared("agent")' /\ AgentWrites'
      /\ ApiHandler' /\ Prepared("api")' /\ ApiWrites'
      /\ todo'["api"] = q /\ todo["api"] = <<>>
  <2>1. UNCHANGED <<world, port, events, txn>> /\ UNCHANGED <<lsLb, lrLb, lsRefs, lrRef>>
    BY <1>1
  <2>2. live \subseteq live' /\ live' \subseteq Lb
        /\ members' \subseteq Member /\ IsFiniteSet(members')
    BY <1>1 DEF AInv, TypeOK, Finite
  <2>3. /\ todo'["api"] = q /\ todo'["agent"] = todo["agent"]
        /\ todo' \in [Process -> Seq(AgentStep \cup ApiStep)]
    BY <1>2, <1>4 DEF AInv, TodoTypes, Process
  <2>4. Len(q) <= 2 /\ (Len(q) = 2 => q[1].do = "ls_add" /\ q[2].do = "find_lr")
    <3>1. CASE sw \in External
      BY <1>4, <3>1
    <3>2. CASE sw \notin External
      <4>1. Len(q) = 2 /\ q[1] = add /\ q[2] = find
        BY <1>4, <3>2
      <4>. QED  BY <1>3, <4>1
    <3>. QED  BY <3>1, <3>2
  <2>5. AInv /\ q \in Seq(ApiStep) /\ txn["api"] = NoTxn /\ todo["api"] = <<>>
    BY <1>1, <1>4 DEF Busy
  <2>. QED  BY <1>5, <2>1, <2>2, <2>3, <2>4, <2>5, StepsLeft, Zenon
<1>7. Counts'
  <2>. SUFFICES ASSUME NEW b \in live', NEW s \in Switch
                PROVE  lsRefs'[b][s] + Due("ls_add", b, s)'
                          = Needed(b, s)' + Due("ls_del", b, s)'
    BY DEF Counts
  <2>1. Due("ls_add", b, s)' = (IF b = lb /\ s = sw /\ sw \notin External
                                THEN 1 ELSE 0)
        /\ Due("ls_del", b, s)' = 0
    BY <1>3, <1>4, <1>6, DueNext
  <2>2. Needed(b, s)' = Needed(b, s) /\ lsRefs' = lsRefs
    BY <1>1 DEF Needed, Users
  <2>3. CASE b \in live
    <3>1. b # lb
      BY <1>1, <2>3
    <3>. QED  BY <1>6, <2>1, <2>2, <2>3, <3>1, IdleCounts
  <2>4. CASE b = lb
    <3>1. lsRefs[lb] = NoRefs /\ Users(lb, s) = {}
      BY <1>1 DEF AInv, Gone, Memberless, Users
    <3>2. lsRefs[lb][s] = 0 /\ Cardinality(Users(lb, s)) = 0
      BY <3>1, FS_EmptySet DEF NoRefs
    <3>3. Needed(lb, s) = IF s = sw /\ sw \notin External THEN 1 ELSE 0
      BY <3>2 DEF Needed, sw
    <3>. QED  BY <2>1, <2>2, <2>4, <3>2, <3>3
  <2>. QED  BY <1>1, <2>3, <2>4
<1>8. Gone'
  <2>1. Head(q).do # "lb_del"
    BY <1>3, <1>4
  <2>. QED  BY <1>1, <1>6, <2>1 DEF AInv, Gone, Memberless
<1>. QED  BY <1>6, <1>7, <1>8 DEF AInv

LEMMA FindRouterApi ==
    ASSUME AInv, UNCHANGED world, FindRouter("api")
    PROVE  AInv'
<1>. DEFINE step == Head(todo["api"])
<1>1. /\ todo["api"] # <<>> /\ step.do = "find_lr" /\ txn["api"] = NoTxn
      /\ UNCHANGED <<port, members, nb, events, txn>>
  BY DEF FindRouter
<1>2. /\ step \in ApiStep /\ step = todo["api"][1]
      /\ Tail(todo["api"]) \in Seq(ApiStep)
      /\ Len(Tail(todo["api"])) = Len(todo["api"]) - 1
      /\ Len(todo["api"]) \in Nat \ {0}
      /\ <<>> \o Tail(todo["api"]) = Tail(todo["api"])
  BY <1>1, FirstStep DEF AInv, TodoTypes
<1>3. Len(todo["api"]) = 1 /\ step.lb \in live
  <2>1. /\ Len(todo["api"]) <= 2
        /\ Len(todo["api"]) = 2 => step.do = "ls_add"
        /\ \A i \in 1..Len(todo["api"]) : todo["api"][i].lb \in live
    BY <1>2 DEF AInv, ApiHandler
  <2>2. Len(todo["api"]) = 1
    <3>1. step.do # "ls_add"
      BY <1>1
    <3>. DEFINE n == Len(todo["api"])
    <3>2. n # 2
      BY <2>1, <3>1
    <3>3. n \in Nat \ {0} /\ n <= 2
      BY <1>2, <2>1
    <3>. HIDE DEF n
    <3>4. n = 1
      BY <3>2, <3>3
    <3>. QED  BY <3>4 DEF n
  <2>. QED  BY <1>2, <2>1, <2>2
<1>4. Tail(todo["api"]) = <<>>
  <2>1. Len(Tail(todo["api"])) = 0
    BY <1>2, <1>3
  <2>. QED  BY <1>2, <2>1, EmptySeq
<1>5. PICK q \in Seq(ApiStep) :
         /\ todo' = [todo EXCEPT !["api"] = q] /\ Len(q) <= 1
         /\ \A i \in 1..Len(q) : q[i].lb \in live /\ q[i].do = "lr_add"
  <2>1. CASE Steps("api", <<>>)
    <3>1. todo' = [todo EXCEPT !["api"] = <<>>]
      BY <1>2, <1>4, <2>1 DEF Steps
    <3>2. <<>> \in Seq(ApiStep) /\ Len(<<>>) = 0 /\ 1..0 = {}
      OBVIOUS
    <3>. WITNESS <<>> \in Seq(ApiStep)
    <3>. QED  BY <3>1, <3>2
  <2>2. ASSUME NEW r \in RoutersOf(step.s), Steps("api", <<LrAddStep(step.lb, r)>>)
        PROVE  \E q \in Seq(ApiStep) :
                  /\ todo' = [todo EXCEPT !["api"] = q] /\ Len(q) <= 1
                  /\ \A i \in 1..Len(q) : q[i].lb \in live /\ q[i].do = "lr_add"
    <3>. DEFINE new == LrAddStep(step.lb, r)
    <3>1. new \in ApiStep /\ new.lb \in live /\ new.do = "lr_add"
      <4>1. r \in Router /\ step.lb \in Lb
        BY <1>3 DEF RoutersOf, AInv, TypeOK
      <4>. QED  BY <1>3, <4>1 DEF LrAddStep, ApiStep, SwitchStep
    <3>2. todo' = [todo EXCEPT !["api"] = <<new>> \o <<>>]
      BY <1>4, <2>2 DEF Steps
    <3>. HIDE DEF new
    <3>3. <<new>> \o <<>> = <<new>> /\ <<new>> \in Seq(ApiStep) /\ Len(<<new>>) = 1
          /\ <<new>>[1] = new
      BY <3>1, ConcatEmptySeq
    <3>4. \A i \in 1..Len(<<new>>) : <<new>>[i] = new
      BY <3>3
    <3>. USE <3>3
    <3>. WITNESS <<new>> \in Seq(ApiStep)
    <3>. QED  BY <3>1, <3>2, <3>3, <3>4
  <2>. QED  BY <2>1, <2>2 DEF FindRouter
<1>6. /\ TypeOK' /\ TodoTypes' /\ Finite' /\ Prepared("agent")' /\ AgentWrites'
      /\ ApiHandler' /\ Prepared("api")' /\ ApiWrites' /\ todo'["api"] = q
  <2>1. UNCHANGED <<world, port, events, txn>> /\ UNCHANGED <<lsLb, lrLb, lsRefs, lrRef>>
    BY <1>1 DEF nb
  <2>2. /\ live \subseteq live' /\ live' \subseteq Lb
        /\ members' \subseteq Member /\ IsFiniteSet(members')
        /\ \A i \in 1..Len(q) : q[i].lb \in live'
    BY <1>1, <1>5 DEF AInv, TypeOK, Finite, nb
  <2>3. /\ todo'["api"] = q /\ todo'["agent"] = todo["agent"]
        /\ todo' \in [Process -> Seq(AgentStep \cup ApiStep)]
    BY <1>5 DEF AInv, TodoTypes, Process
  <2>4. Len(q) <= 2 /\ (Len(q) = 2 => q[1].do = "ls_add" /\ q[2].do = "find_lr")
    BY <1>5
  <2>5. AInv /\ q \in Seq(ApiStep) /\ txn["api"] = NoTxn
    BY <1>1, <1>5
  <2>. QED  BY <2>1, <2>2, <2>3, <2>4, <2>5, StepsLeft, Zenon
<1>7. q # <<>> => Head(q).do = "lr_add"
  BY <1>5, FirstStep
<1>8. Counts'
  <2>. SUFFICES ASSUME NEW b \in live, NEW s \in Switch
                PROVE  lsRefs'[b][s] + Due("ls_add", b, s)'
                          = Needed(b, s)' + Due("ls_del", b, s)'
    BY <1>1 DEF Counts, nb
  <2>1. Due("ls_add", b, s)' = 0 /\ Due("ls_del", b, s)' = 0
    BY <1>6, <1>7, DueNext
  <2>2. Due("ls_add", b, s) = 0 /\ Due("ls_del", b, s) = 0
    BY <1>1, DueIs
  <2>3. Needed(b, s)' = Needed(b, s) /\ lsRefs' = lsRefs
    BY <1>1 DEF Needed, Users, nb
  <2>. QED  BY <2>1, <2>2, <2>3 DEF AInv, Counts
<1>9. Gone'
  BY <1>1, <1>6, <1>7 DEF AInv, Gone, Memberless, nb
<1>. QED  BY <1>6, <1>8, <1>9 DEF AInv

\* The first step is done, and what is left writes no reference.
LEMMA ApiRest ==
    ASSUME AInv, todo["api"] # <<>>
    PROVE  LET step == Head(todo["api"])
               rest == Tail(todo["api"])
           IN  /\ step \in ApiStep /\ step.lb \in live
               /\ rest \in Seq(ApiStep) /\ Len(rest) <= 1
               /\ rest # <<>> => /\ Head(rest).do = "find_lr" /\ step.do = "ls_add"
                                 /\ Len(rest) = 1 /\ rest[1] = Head(rest)
                                 /\ Head(rest).lb \in live
               /\ <<>> \o rest = rest
<1>. DEFINE q == todo["api"]
            n == Len(q)
            rest == Tail(q)
<1>1. /\ Head(q) \in ApiStep /\ Head(q) = q[1]
      /\ rest \in Seq(ApiStep) /\ n \in Nat \ {0} /\ Len(rest) = n - 1
      /\ \A i \in 1..Len(rest) : rest[i] = q[i + 1]
      /\ <<>> \o rest = rest
  BY FirstStep DEF AInv, TodoTypes
<1>2. /\ n <= 2 /\ (n = 2 => q[1].do = "ls_add" /\ q[2].do = "find_lr")
      /\ \A i \in 1..n : q[i].lb \in live
  BY DEF AInv, ApiHandler
<1>3. q[1].lb \in live
  <2>. HIDE DEF q, n
  <2>. QED  BY <1>1, <1>2
<1>4. ASSUME rest # <<>>
      PROVE  /\ Head(rest).do = "find_lr" /\ q[1].do = "ls_add"
             /\ Len(rest) = 1 /\ rest[1] = Head(rest) /\ Head(rest).lb \in live
  <2>1. Len(rest) \in Nat \ {0} /\ Head(rest) = rest[1]
    BY <1>1, <1>4, FirstStep
  <2>. HIDE DEF q, n, rest
  <2>2. n = 2
    BY <1>1, <1>2, <2>1
  <2>3. rest[1] = q[2]
    BY <1>1, <2>2
  <2>. QED  BY <1>1, <1>2, <2>1, <2>2, <2>3
<1>5. Len(rest) <= 1
  <2>. HIDE DEF q, n, rest
  <2>. QED  BY <1>1, <1>2
<1>. QED  BY <1>1, <1>3, <1>4, <1>5

LEMMA CommitApi ==
    ASSUME AInv, UNCHANGED world, Commit("api")
    PROVE  AInv'
<1>. DEFINE t == txn["api"]
            step == Head(todo["api"])
            rest == Tail(todo["api"])
<1>1. t # NoTxn /\ txn' = [txn EXCEPT !["api"] = NoTxn]
      /\ UNCHANGED <<port, members, events>>
  BY DEF Commit
<1>2. /\ todo["api"] # <<>> /\ t \in Transaction /\ t.lb = step.lb
      /\ step.do \in {"ls_add", "ls_del", "lr_add", "lr_del", "lb_del"}
      /\ t.lsRefs = Texts(step) /\ t.drop = (step.do = "lb_del")
  BY <1>1 DEF AInv, TodoTypes, Process, Prepared, ApiWrites
<1>3. /\ step \in ApiStep /\ step.lb \in live
      /\ rest \in Seq(ApiStep) /\ Len(rest) <= 1
      /\ rest # <<>> => /\ Head(rest).do = "find_lr" /\ step.do = "ls_add"
                        /\ Len(rest) = 1 /\ rest[1] = Head(rest)
                        /\ Head(rest).lb \in live
      /\ <<>> \o rest = rest
  BY <1>2, ApiRest
<1>4. Apply(t) /\ todo' = [todo EXCEPT !["api"] = rest]
  BY <1>2, <1>3 DEF Commit, Steps
<1>5. /\ todo'["api"] = rest /\ todo'["agent"] = todo["agent"]
      /\ txn'["api"] = NoTxn /\ txn'["agent"] = txn["agent"]
      /\ TodoTypes'
  <2>. HIDE DEF rest
  <2>. QED  BY <1>1, <1>3, <1>4 DEF AInv, TodoTypes, Process
<1>6. Prepared("agent")' /\ AgentWrites' /\ Prepared("api")' /\ ApiWrites'
  BY <1>5, AgentFrame DEF Prepared, ApiWrites
<1>7. step.lb \in Lb /\ live \subseteq Lb /\ lsRefs \in [Lb -> [Switch -> Nat]]
  BY <1>3 DEF AInv, TypeOK
<1>8. TypeOK' /\ Finite'
  <2>. HIDE DEF t, step, rest
  <2>1. /\ live' \subseteq Lb
        /\ lsLb' \in [Switch -> SUBSET Lb] /\ lrLb' \in [Router -> SUBSET Lb]
        /\ lsRefs' \in [Lb -> [Switch -> Nat]] /\ lrRef' \in [Lb -> SUBSET Router]
        /\ \A s \in Switch : IsFiniteSet(lsLb'[s])
        /\ \A r \in Router : IsFiniteSet(lrLb'[r])
    BY <1>2, <1>4, ApplyTypes DEF AInv
  <2>2. \A p \in Process : txn'[p] = NoTxn \/ txn'[p].lb \in Lb
    BY <1>5 DEF TodoTypes, Transaction
  <2>. QED  BY <1>1, <2>1, <2>2 DEF AInv, TypeOK, Finite
<1>9. \A b, s : Needed(b, s)' = Needed(b, s)
  BY <1>1 DEF Needed, Users
<1>10. \A b, s : Due("ls_add", b, s)' = 0 /\ Due("ls_del", b, s)' = 0
  <2>. HIDE DEF rest, step
  <2>. QED  BY <1>3, <1>5, DueNext
<1>11. rest # <<>> => Head(rest).do # "lb_del"
  BY <1>3
\* The row goes; it had no members.
<1>12. CASE step.do = "lb_del"
  <2>1. /\ live' = live \ {step.lb} /\ rest = <<>>
        /\ lsRefs' = [lsRefs EXCEPT ![step.lb] = NoRefs]
    BY <1>2, <1>3, <1>4, <1>12 DEF Apply
  <2>2. Memberless(step.lb)
    BY <1>2, <1>12 DEF AInv, Gone
  <2>3. ApiHandler'
    <3>. HIDE DEF rest
    <3>. QED  BY <1>5, <2>1 DEF ApiHandler
  <2>4. Counts'
    <3>. SUFFICES ASSUME NEW b \in live', NEW s \in Switch
                  PROVE  lsRefs'[b][s] + Due("ls_add", b, s)'
                            = Needed(b, s)' + Due("ls_del", b, s)'
      BY DEF Counts
    <3>1. b \in live /\ lsRefs'[b] = lsRefs[b]
      BY <1>7, <2>1
    <3>2. Due("ls_add", b, s) = 0 /\ Due("ls_del", b, s) = 0
      BY <1>2, <1>12, DueIs
    <3>. QED  BY <1>9, <1>10, <3>1, <3>2 DEF AInv, Counts
  <2>5. Gone'
    <3>1. \A b \in Lb \ live' : lsRefs'[b] = NoRefs /\ Memberless(b)
      BY <1>7, <2>1, <2>2 DEF AInv, Gone
    <3>. QED  BY <1>1, <1>5, <2>1, <3>1 DEF Gone, Memberless
  <2>. QED  BY <1>5, <1>6, <1>8, <2>3, <2>4, <2>5 DEF AInv
\* A reference comes or goes, or none is touched.
<1>13. CASE step.do # "lb_del"
  <2>1. live' = live
    BY <1>2, <1>4, <1>13 DEF Apply
  <2>2. ApiHandler'
    <3>. HIDE DEF step, rest
    <3>1. CASE rest = <<>>
      BY <1>5, <3>1 DEF ApiHandler
    <3>2. CASE rest # <<>>
      BY <1>3, <1>5, <2>1, <3>2 DEF ApiHandler
    <3>. QED  BY <3>1, <3>2
  <2>3. lsRefs' = [lsRefs EXCEPT ![step.lb] = Written(Texts(step), lsRefs[step.lb])]
    BY <1>2, <1>4, <1>13 DEF Apply
  <2>4. Counts'
    <3>. SUFFICES ASSUME NEW b \in live, NEW s \in Switch
                  PROVE  lsRefs'[b][s] = Needed(b, s)
      BY <1>8, <1>9, <1>10, <2>1 DEF Counts, AInv, TypeOK
    <3>1. b \in Lb /\ lsRefs[b][s] \in Nat /\ lsRefs[step.lb] \in [Switch -> Nat]
      BY <1>7
    <3>2. Needed(b, s) \in Nat
      BY NeededNat
    <3>3. lsRefs[b][s] + Due("ls_add", b, s) = Needed(b, s) + Due("ls_del", b, s)
      BY DEF AInv, Counts
    <3>4. /\ Due("ls_add", b, s) =
                IF step.do = "ls_add" /\ step.lb = b /\ step.s = s THEN 1 ELSE 0
          /\ Due("ls_del", b, s) =
                IF step.do = "ls_del" /\ step.lb = b /\ step.s = s THEN 1 ELSE 0
      BY <1>2, DueIs
    <3>. HIDE DEF step
    <3>5. CASE step.do = "ls_add"
      <4>1. step.s \in Switch
        BY <1>3, <3>5 DEF ApiStep, SwitchStep
      <4>2. lsRefs'[step.lb] = [lsRefs[step.lb] EXCEPT ![step.s] = @ + 1]
        BY <1>7, <2>3, <3>5, WrittenOnce DEF Texts
      <4>3. CASE step.lb = b
        BY <3>1, <3>2, <3>3, <3>4, <3>5, <4>1, <4>2, <4>3
      <4>4. CASE step.lb # b
        BY <1>7, <2>3, <3>1, <3>2, <3>3, <3>4, <3>5, <4>4
      <4>. QED  BY <4>3, <4>4
    <3>6. CASE step.do = "ls_del"
      <4>1. step.s \in Switch
        BY <1>3, <3>6 DEF ApiStep, SwitchStep
      <4>2. CASE step.lb = b
        <5>1. CASE lsRefs[b][step.s] > 0
          <6>1. lsRefs'[b] = [lsRefs[b] EXCEPT ![step.s] = @ - 1]
            BY <1>7, <2>3, <3>6, <4>2, <5>1, WrittenOnce DEF Texts
          <6>. QED  BY <3>1, <3>2, <3>3, <3>4, <3>6, <4>1, <4>2, <6>1
        <5>2. CASE ~(lsRefs[b][step.s] > 0)
          <6>1. lsRefs'[b] = lsRefs[b]
            BY <1>7, <2>3, <3>6, <4>2, <5>2, WrittenOnce DEF Texts
          <6>2. s # step.s
            BY <3>1, <3>2, <3>3, <3>4, <3>6, <4>2, <5>2
          <6>. QED  BY <3>1, <3>2, <3>3, <3>4, <3>6, <6>1, <6>2
        <5>. QED  BY <5>1, <5>2
      <4>3. CASE step.lb # b
        BY <1>7, <2>3, <3>1, <3>2, <3>3, <3>4, <3>6, <4>3
      <4>. QED  BY <4>2, <4>3
    <3>7. CASE step.do \notin {"ls_add", "ls_del"}
      <4>1. lsRefs'[b] = lsRefs[b]
        BY <1>7, <2>3, <3>1, <3>7, WrittenOnce DEF Texts
      <4>. QED  BY <3>1, <3>2, <3>3, <3>4, <3>7, <4>1
    <3>. QED  BY <3>5, <3>6, <3>7
  <2>5. Gone'
    <3>1. \A b \in Lb \ live : lsRefs'[b] = lsRefs[b]
      BY <1>3, <1>7, <2>3
    <3>2. \A b \in Lb \ live' : lsRefs'[b] = NoRefs /\ Memberless(b)
      BY <2>1, <3>1 DEF AInv, Gone
    <3>. QED  BY <1>1, <1>5, <1>11, <3>2 DEF Gone, Memberless
  <2>. QED  BY <1>5, <1>6, <1>8, <2>2, <2>4, <2>5 DEF AInv
<1>. QED  BY <1>12, <1>13

-----------------------------------------------------------------------------
(* The theorems                                                            *)

LEMMA InitCounts == Init => AInv
<1>. SUFFICES ASSUME Init PROVE AInv
  OBVIOUS
<1>1. TypeOK
  BY AssociationAssumption DEF Init, TypeOK, NoRefs, Process
<1>2. TodoTypes /\ Finite
  BY FS_EmptySet DEF Init, TodoTypes, Finite, Process
<1>3. Prepared("agent") /\ AgentWrites /\ Prepared("api") /\ ApiWrites
  BY DEF Init, Prepared, AgentWrites, ApiWrites, Process
<1>4. ApiHandler /\ Counts /\ Gone
  BY DEF Init, ApiHandler, Counts, Gone, Memberless, Process
<1>. QED  BY <1>1, <1>2, <1>3, <1>4 DEF AInv

LEMMA NextCounts ==
    ASSUME AInv, [Next]_vars
    PROVE  AInv'
<1>1. CASE Next
  <2>1. UNCHANGED world
    BY <1>1 DEF Next
  <2>2. ASSUME NEW p \in Process, Prepare(p) \/ Commit(p) \/ FindRouter(p)
        PROVE  AInv'
    BY <2>1, <2>2, PrepareAgent, PrepareApi, CommitAgent, CommitApi, FindRouterAgent,
       FindRouterApi DEF Process
  <2>3. ASSUME TakeEvent \/ LrpCreated \/ LrpDeleted
        PROVE  AInv'
    BY <2>1, <2>3, TakeEventOK, LrpCreatedOK, LrpDeletedOK
  <2>4. ASSUME NEW lb \in Lb, LbCreate(lb) \/ LbDelete(lb)
        PROVE  AInv'
    BY <2>1, <2>4, LbCreateOK, LbDeleteOK
  <2>5. ASSUME NEW m \in Member, MemberAdd(m) \/ MemberRemove(m)
        PROVE  AInv'
    BY <2>1, <2>5, MemberAddOK, MemberRemoveOK
  <2>6. ASSUME NEW r \in Router, NEW s \in Switch, PortCreate(r, s) \/ PortDelete(r, s)
        PROVE  AInv'
    BY <2>1, <2>6, PortsOK
  <2>. QED  BY <1>1, <2>2, <2>3, <2>4, <2>5, <2>6 DEF Next
<1>2. CASE UNCHANGED vars
  BY <1>2 DEF vars, nb, AInv, TypeOK, TodoTypes, Finite, Prepared, AgentWrites,
              ApiHandler, ApiWrites, Texts, Counts, Due, Needed, Users, Gone, Memberless
<1>. QED  BY <1>1, <1>2

\* Counts, and what they rest on, between any two steps of the handlers.
THEOREM CountInvariance == Spec => []AInv
<1>. QED  BY InitCounts, NextCounts, PTL DEF Spec

\* The texts and columns of associations keep their shape: no count goes below zero,
\* whatever _get_lb_to_ls_association_commands is asked to take away.
THEOREM AssociationTypes == Spec => []TypeOK
<1>1. AInv => TypeOK
  BY DEF AInv
<1>. QED  BY <1>1, CountInvariance, PTL

\* At every quiet moment ls_refs counts the VIP and the members of each switch, for
\* any network and however the API worker and the agent interleaved before: of the
\* handlers that call _get_lb_to_ls_association_commands only those of the API
\* worker write a count, one at a time.
THEOREM ReferencesCount == Spec => []RefsCount
<1>1. ASSUME AInv PROVE RefsCount
  <2>. SUFFICES ASSUME Quiet, NEW lb \in live, NEW s \in Switch
                PROVE  lsRefs[lb][s] = Needed(lb, s)
    BY DEF RefsCount, Needed, Users
  <2>1. todo["api"] = <<>>
    BY DEF Quiet, Busy, Process
  <2>. QED  BY <1>1, <2>1, IdleCounts
<1>. QED  BY <1>1, CountInvariance, PTL

-----------------------------------------------------------------------------
(* The columns                                                             *)

\* The routers that have a row.
On(lb) == {r \in Router : lb \in lrLb[r]}

\* The transaction of a step, from what the database shows now.
TxnOf(step) ==
    CASE step.do = "ls_add" -> LsAdd(step.lb, step.s, step.write)
      [] step.do = "ls_del" -> LsDel(step.lb, step.s, step.write)
      [] step.do = "lr_add" -> LrAdd(step.lb, step.r)
      [] step.do = "lr_del" -> LrDel(step.lb, step.r)
      [] step.do = "lb_del" -> LbDrop(step.lb)

\* In a calm world the handlers take turns.
Turns ==
    world = "calm" =>
        /\ Busy("api") => ~Busy("agent") /\ events = <<>>
        /\ Busy("agent") => events = <<>>
        /\ Len(events) <= 1

\* What is prepared is still right, as far as the world allows.
Exact(p) ==
    txn[p] # NoTxn =>
        LET step == Head(todo[p])
        IN  /\ world = "calm" => txn[p] = TxnOf(step)
            /\ p = "api" /\ step.do # "lr_add" => txn[p] = TxnOf(step)
            /\ step.do \in {"ls_add", "lr_add"} => txn[p].noLs = {} /\ txn[p].noLr = {}

\* Steps and events that take a row away.
Removal(step) == step.do \in {"lr_del", "ls_del", "lrp_deleted"}

\* The agent takes no compact row off a switch it has a reference to.
Spared(step) ==
    CASE step.do = "lrp_deleted" -> <<step.r, step.s>> \notin port
      [] step.do = "ls_del" -> step.lb \in Compact => lsRefs[step.lb][step.s] = 0
      [] step.do = "lr_del" ->
             step.lb \in Compact => \A s \in SwitchesOf(step.r) : lsRefs[step.lb][s] = 0
      [] OTHER -> TRUE

Careful ==
    /\ \A i \in 1..Len(events) : /\ Spared(events[i])
                                 /\ world = "busy" => ~Removal(events[i])
    /\ \A i \in 1..Len(todo["agent"]) : /\ Spared(todo["agent"][i])
                                        /\ world = "busy" => ~Removal(todo["agent"][i])

\* The texts of lr_ref name no router the row is not on.
RouterTexts ==
    /\ \A lb \in Lb \ live : lrRef[lb] = {} /\ On(lb) = {}
    /\ \A lb \in live : lrRef[lb] \subseteq On(lb)
                        /\ (world = "calm" => lrRef[lb] = On(lb))
    /\ \A p \in Process : txn[p] # NoTxn /\ txn[p].lb \in live =>
          \A text \in txn[p].lrRef : text \subseteq On(txn[p].lb) \cup txn[p].lr

\* The property, between the quiet moments too.
Attached ==
    \A lb \in live, s \in Switch :
        (lb \in Compact \/ world = "busy") /\ lsRefs[lb][s] > 0 => lb \in lsLb[s]

Columns ==
    /\ Turns /\ Exact("api") /\ Exact("agent")
    /\ Careful /\ RouterTexts /\ Attached

BInv == AInv /\ Columns

-----------------------------------------------------------------------------
(* Elements of what is left to do, and transactions of steps               *)

LEMMA ConcatElements ==
    ASSUME NEW S, NEW a \in Seq(S), NEW b \in Seq(S), NEW i \in 1..Len(a \o b)
    PROVE  \/ \E j \in 1..Len(a) : (a \o b)[i] = a[j]
           \/ \E j \in 1..Len(b) : (a \o b)[i] = b[j]
<1>1. Len(a) \in Nat /\ Len(b) \in Nat
  BY LenProperties
<1>2. Len(a \o b) = Len(a) + Len(b)
      /\ (a \o b)[i] = IF i <= Len(a) THEN a[i] ELSE b[i - Len(a)]
  BY ConcatProperties
<1>3. CASE i <= Len(a)
  BY <1>1, <1>2, <1>3
<1>4. CASE ~(i <= Len(a))
  <2>1. i - Len(a) \in 1..Len(b) /\ (a \o b)[i] = b[i - Len(a)]
    BY <1>1, <1>2, <1>4
  <2>. QED  BY <2>1
<1>. QED  BY <1>3, <1>4

LEMMA TailElements ==
    ASSUME NEW S, NEW q \in Seq(S), q # <<>>, NEW i \in 1..Len(Tail(q))
    PROVE  \E j \in 1..Len(q) : Tail(q)[i] = q[j]
<1>1. Len(q) \in Nat \ {0} /\ Len(Tail(q)) = Len(q) - 1 /\ Tail(q)[i] = q[i + 1]
  BY FirstStep
<1>2. i + 1 \in 1..Len(q)
  BY <1>1
<1>. QED  BY <1>1, <1>2

LEMMA FirstElement ==
    ASSUME NEW S, NEW q \in Seq(S), q # <<>>
    PROVE  1 \in 1..Len(q) /\ Head(q) = q[1]
BY FirstStep

\* The transaction of a step follows from the row it is about and from the ports.
LEMMA TxnOfFrame ==
    ASSUME NEW step, lsRefs' = lsRefs, lrRef' = lrRef, port' = port
    PROVE  TxnOf(step)' = TxnOf(step)
BY DEF TxnOf, LsAdd, LsDel, LrAdd, LrDel, LbDrop, SwitchesOf, Ports

LEMMA TxnOfSwitch ==
    ASSUME NEW step, step.do \in {"ls_add", "ls_del", "lb_del"}, lsRefs' = lsRefs
    PROVE  TxnOf(step)' = TxnOf(step)
BY DEF TxnOf, LsAdd, LsDel, LbDrop

\* Nothing but removals has to spare anything.
LEMMA SparedUnless == \A step : ~Removal(step) => Spared(step)
BY DEF Removal, Spared

LEMMA SparedNext == \A step : ~Removal(step) => Spared(step)'
BY DEF Removal, Spared

LEMMA SparedFrame ==
    ASSUME NEW step, lsRefs' = lsRefs, port' = port
    PROVE  Spared(step)' = Spared(step)
BY DEF Spared, SwitchesOf, Ports

\* What Columns says in a world where nothing moves at the agent's side.
LEMMA CarefulFrame ==
    ASSUME BInv, UNCHANGED world, events' = events, todo'["agent"] = todo["agent"],
           port' = port, lsRefs' = lsRefs
    PROVE  Careful'
BY SparedFrame DEF BInv, Columns, Careful, Removal

LEMMA Busiest ==
    ASSUME BInv, world = "busy"
    PROVE  /\ \A i \in 1..Len(events) : ~Removal(events[i])
           /\ \A i \in 1..Len(todo["agent"]) : ~Removal(todo["agent"][i])
BY DEF BInv, Columns, Careful

LEMMA Worldly == AInv => world \in {"calm", "busy"}
BY AssociationAssumption DEF AInv, TypeOK

-----------------------------------------------------------------------------
(* The requests of users                                                   *)

LEMMA ExactFrame ==
    ASSUME NEW p \in Process, Exact(p), UNCHANGED <<world, port, lsRefs, lrRef>>,
           txn'[p] = txn[p], todo'[p] = todo[p]
    PROVE  Exact(p)'
<1>1. \A step : TxnOf(step)' = TxnOf(step)
  BY TxnOfFrame
<1>. QED  BY <1>1 DEF Exact

\* Handlers that change neither the database nor a transaction.
LEMMA RoutersFrame ==
    ASSUME BInv, UNCHANGED <<world, nb, txn>>
    PROVE  RouterTexts' /\ Attached'
<1>1. \A lb : On(lb)' = On(lb)
  BY DEF On, nb
<1>2. RouterTexts'
  BY <1>1 DEF BInv, Columns, RouterTexts, nb
<1>3. Attached'
  BY DEF BInv, Columns, Attached, nb
<1>. QED  BY <1>2, <1>3

\* The API worker starts on a request, or goes on: the columns are as they were.
LEMMA RequestColumns ==
    ASSUME BInv, UNCHANGED <<world, port, events, txn, lsLb, lrLb, lsRefs, lrRef>>,
           txn["api"] = NoTxn, todo'["agent"] = todo["agent"],
           world = "calm" => events = <<>> /\ ~Busy("agent"),
           live \subseteq live', live' \subseteq Lb,
           txn["agent"] # NoTxn =>
               txn["agent"].lb \in live \/ txn["agent"].lb \notin live'
    PROVE  Columns'
<1>1. Turns'
  <2>1. Busy("agent")' = Busy("agent")
    BY DEF Busy
  <2>2. Len(<<>>) = 0
    OBVIOUS
  <2>. QED  BY <2>1, <2>2 DEF Turns
<1>2. Exact("api")'
  BY DEF Exact
<1>3. Exact("agent")'
  BY ExactFrame DEF BInv, Columns, Process
<1>4. Careful'
  BY CarefulFrame
<1>5. RouterTexts'
  <2>1. \A lb : On(lb)' = On(lb)
    BY DEF On
  <2>2. \A p \in Process : txn[p] # NoTxn => p = "agent"
    BY DEF Process
  <2>. QED  BY <2>1, <2>2 DEF BInv, Columns, RouterTexts
<1>6. Attached'
  <2>. SUFFICES ASSUME NEW lb \in live', NEW s \in Switch,
                       lb \in Compact \/ world = "busy", lsRefs[lb][s] > 0
                PROVE  lb \in lsLb[s]
    BY DEF Attached, Compact
  <2>1. lb \in live
    <3>. SUFFICES ASSUME lb \notin live PROVE FALSE
      OBVIOUS
    <3>1. lsRefs[lb] = NoRefs
      BY DEF BInv, AInv, Gone
    <3>2. lsRefs[lb][s] = 0
      BY <3>1 DEF NoRefs
    <3>. QED  BY <3>2
  <2>. QED  BY <2>1 DEF BInv, Columns, Attached
<1>. QED  BY <1>1, <1>2, <1>3, <1>4, <1>5, <1>6 DEF Columns

LEMMA MayMoveCalm ==
    MayMove /\ world = "calm" => events = <<>> /\ \A p \in Process : ~Busy(p)
BY DEF MayMove, Quiet

LEMMA RequestsColumns ==
    ASSUME BInv, UNCHANGED world, NEW q, Request(q), UNCHANGED nb
    PROVE  Columns'
<1>1. /\ MayMove /\ txn["api"] = NoTxn /\ UNCHANGED <<port, events, txn>>
      /\ todo'["agent"] = todo["agent"]
  BY DEF Request, Busy, BInv, AInv, TodoTypes, Process
<1>2. world = "calm" => events = <<>> /\ ~Busy("agent")
  BY <1>1, MayMoveCalm DEF Process
<1>. QED  BY <1>1, <1>2, RequestColumns DEF nb, BInv, AInv, TypeOK

LEMMA CreateColumns ==
    ASSUME BInv, UNCHANGED world, NEW lb \in Lb, LbCreate(lb)
    PROVE  Columns'
<1>1. /\ MayMove /\ txn["api"] = NoTxn /\ UNCHANGED <<port, events, txn>>
      /\ todo'["agent"] = todo["agent"] /\ lb \notin live /\ live' = live \cup {lb}
      /\ UNCHANGED <<lsLb, lrLb, lsRefs, lrRef>>
  BY DEF LbCreate, Request, Busy, BInv, AInv, TodoTypes, Process
<1>2. world = "calm" => events = <<>> /\ ~Busy("agent")
  BY <1>1, MayMoveCalm DEF Process
<1>3. txn["agent"] # NoTxn => txn["agent"].lb # lb
  <2>. SUFFICES ASSUME txn["agent"] # NoTxn PROVE txn["agent"].lb # lb
    OBVIOUS
  <2>1. /\ todo["agent"] # <<>> /\ txn["agent"].lb = Head(todo["agent"]).lb
        /\ Head(todo["agent"]).do \in {"ls_add", "ls_del", "lr_add", "lr_del", "lb_del"}
    BY DEF BInv, AInv, Prepared
  <2>2. Head(todo["agent"]) \in AgentStep /\ 1 \in DOMAIN todo["agent"]
        /\ Head(todo["agent"]) = todo["agent"][1]
    <3>1. todo["agent"] \in Seq(AgentStep)
      BY DEF BInv, AInv, TodoTypes
    <3>2. 1 \in 1..Len(todo["agent"])
      BY <2>1, <3>1, FirstElement
    <3>3. DOMAIN todo["agent"] = 1..Len(todo["agent"])
      BY <3>1, LenProperties
    <3>. QED  BY <2>1, <3>1, <3>2, <3>3, FirstStep
  <2>3. Head(todo["agent"]).do # "lb_del"
    BY <2>2 DEF AgentStep, PortEvent, SwitchStep
  <2>4. \A i \in DOMAIN todo["agent"] :
           todo["agent"][i].do \in {"lr_add", "lr_del", "ls_add", "ls_del"} =>
               todo["agent"][i].lb # lb
    BY <2>1 DEF LbCreate, Busy
  <2>. QED  BY <2>1, <2>2, <2>3, <2>4
<1>. QED  BY <1>1, <1>2, <1>3, RequestColumns DEF BInv, AInv, TypeOK

LEMMA FindColumns ==
    ASSUME BInv, UNCHANGED world, FindRouter("api")
    PROVE  Columns'
<1>1. /\ txn["api"] = NoTxn /\ UNCHANGED <<port, events, txn, nb>>
      /\ todo["api"] # <<>>
  BY DEF FindRouter
<1>2. todo'["agent"] = todo["agent"]
  BY DEF FindRouter, Steps, BInv, AInv, TodoTypes, Process
<1>3. Busy("api")
  BY <1>1 DEF Busy
<1>4. world = "calm" => events = <<>> /\ ~Busy("agent")
  BY <1>3 DEF BInv, Columns, Turns
<1>. QED  BY <1>1, <1>2, <1>4, RequestColumns DEF nb, BInv, AInv, TypeOK

-----------------------------------------------------------------------------
(* Router ports, and the events the agent takes                            *)

LEMMA PortCreateColumns ==
    ASSUME BInv, UNCHANGED world, NEW r \in Router, NEW s \in Switch, PortCreate(r, s)
    PROVE  Columns'
<1>. DEFINE e == [do |-> "lrp_created", r |-> r, s |-> s]
<1>1. /\ MayMove /\ UNCHANGED <<members, nb, todo, txn>>
      /\ events' = Append(events, e)
  BY DEF PortCreate
<1>2. ~Removal(e)
  BY DEF Removal
<1>. HIDE DEF e
<1>3. world = "calm" => /\ events = <<>> /\ Len(events') = 1
                        /\ ~Busy("api") /\ ~Busy("agent")
                        /\ todo["agent"] = <<>>
                        /\ txn["api"] = NoTxn /\ txn["agent"] = NoTxn
  <2>. SUFFICES ASSUME world = "calm"
                PROVE  /\ events = <<>> /\ Len(events') = 1
                        /\ ~Busy("api") /\ ~Busy("agent")
                        /\ todo["agent"] = <<>>
                        /\ txn["api"] = NoTxn /\ txn["agent"] = NoTxn
    OBVIOUS
  <2>1. events = <<>> /\ ~Busy("api") /\ ~Busy("agent")
    BY <1>1, MayMoveCalm DEF Process
  <2>2. Len(Append(<<>>, e)) = 1
    OBVIOUS
  <2>. QED  BY <1>1, <2>1, <2>2 DEF Busy
<1>4. Turns'
  BY <1>1, <1>3 DEF Turns, Busy
<1>5. ASSUME NEW p \in Process
      PROVE  Exact(p)'
  <2>1. CASE world = "calm"
    BY <1>1, <1>3, <2>1 DEF Exact, Process
  <2>2. CASE world # "calm"
    <3>1. PICK step : step = Head(todo[p])
      OBVIOUS
    <3>2. ASSUME txn[p] # NoTxn, p = "api", step.do # "lr_add"
          PROVE  TxnOf(step)' = TxnOf(step)
      <4>1. /\ step \in ApiStep
            /\ step.do \in {"ls_add", "ls_del", "lr_add", "lr_del", "lb_del"}
        BY <3>1, <3>2, FirstStep DEF BInv, AInv, TodoTypes, Prepared
      <4>2. step.do \in {"ls_add", "ls_del", "lb_del"}
        BY <3>2, <4>1 DEF ApiStep, SwitchStep
      <4>. QED  BY <1>1, <4>2, TxnOfSwitch DEF nb
    <3>. QED  BY <1>1, <1>5, <2>2, <3>1, <3>2 DEF Exact, BInv, Columns, Process
  <2>. QED  BY <2>1, <2>2
<1>6. Careful'
  <2>1. events \in Seq(PortEvent) /\ e \in PortEvent /\ Len(events) \in Nat
    BY LenProperties DEF BInv, AInv, TodoTypes, PortEvent, e
  <2>2. \A i \in 1..Len(events') : \/ \E j \in 1..Len(events) : events'[i] = events[j]
                                   \/ events'[i] = e
    BY <1>1, <2>1, AppendProperties
  <2>3. \A step : ~Removal(step) => Spared(step)'
    BY SparedNext
  <2>4. CASE world = "calm"
    <3>1. \A i \in 1..Len(events') : events'[i] = e
      BY <1>3, <2>2, <2>4
    <3>2. Len(todo'["agent"]) = 0
      <4>1. todo'["agent"] = <<>>
        BY <1>1, <1>3, <2>4
      <4>. QED  BY <4>1
    <3>. QED  BY <1>2, <2>3, <2>4, <3>1, <3>2 DEF Careful, Removal
  <2>5. CASE world = "busy"
    <3>1. /\ \A i \in 1..Len(events) : ~Removal(events[i])
          /\ \A i \in 1..Len(todo["agent"]) : ~Removal(todo["agent"][i])
      BY <2>5, Busiest
    <3>2. /\ \A i \in 1..Len(events') : ~Removal(events'[i])
          /\ \A i \in 1..Len(todo'["agent"]) : ~Removal(todo'["agent"][i])
      BY <1>1, <1>2, <2>2, <3>1
    <3>. QED  BY <2>3, <3>2 DEF Careful, Removal
  <2>. QED  BY <2>4, <2>5, Worldly DEF BInv
<1>7. RouterTexts' /\ Attached'
  BY <1>1, RoutersFrame
<1>. QED  BY <1>4, <1>5, <1>6, <1>7 DEF Columns, Process

LEMMA PortDeleteColumns ==
    ASSUME BInv, UNCHANGED world, NEW r \in Router, NEW s \in Switch, PortDelete(r, s)
    PROVE  Columns'
<1>. DEFINE e == [do |-> "lrp_deleted", r |-> r, s |-> s]
<1>1. /\ UNCHANGED <<members, nb, todo, txn>> /\ events' = Append(events, e)
      /\ events = <<>> /\ \A p \in Process : ~Busy(p)
      /\ <<r, s>> \notin port' /\ world = "calm"
  BY DEF PortDelete, Quiet
<1>2. Spared(e)'
  BY <1>1 DEF Spared
<1>. HIDE DEF e
<1>3. /\ Len(events') = 1 /\ events'[1] = e
  <2>1. Len(Append(<<>>, e)) = 1 /\ Append(<<>>, e)[1] = e
    OBVIOUS
  <2>. QED  BY <1>1, <2>1
<1>4. /\ todo["agent"] = <<>> /\ txn["api"] = NoTxn /\ txn["agent"] = NoTxn
      /\ ~Busy("api")' /\ ~Busy("agent")'
  BY <1>1 DEF Busy, Process
<1>5. Turns'
  BY <1>1, <1>3, <1>4 DEF Turns
<1>6. Exact("api")' /\ Exact("agent")'
  BY <1>1, <1>4 DEF Exact
<1>7. Careful'
  <2>1. Len(todo'["agent"]) = 0
    <3>1. todo'["agent"] = <<>>
      BY <1>1, <1>4
    <3>. QED  BY <3>1
  <2>. QED  BY <1>1, <1>2, <1>3, <2>1 DEF Careful
<1>8. RouterTexts' /\ Attached'
  BY <1>1, RoutersFrame
<1>. QED  BY <1>5, <1>6, <1>7, <1>8 DEF Columns

\* The agent has other steps to do, and none takes a row it should not.
LEMMA AgentColumns ==
    ASSUME BInv, UNCHANGED <<world, port, nb, txn>>, txn["agent"] = NoTxn,
           todo'["api"] = todo["api"], NEW q, todo'["agent"] = q, NEW evs, events' = evs,
           world = "calm" => ~Busy("api") /\ evs = <<>>,
           \A i \in 1..Len(q) : Spared(q[i]) /\ (world = "busy" => ~Removal(q[i])),
           \A i \in 1..Len(evs) :
              Spared(evs[i]) /\ (world = "busy" => ~Removal(evs[i]))
    PROVE  Columns'
<1>1. Turns'
  <2>1. Busy("api")' = Busy("api")
    BY DEF Busy
  <2>2. Len(<<>>) = 0
    OBVIOUS
  <2>. QED  BY <2>1, <2>2 DEF Turns
<1>2. Exact("agent")'
  BY DEF Exact
<1>3. Exact("api")'
  BY ExactFrame DEF BInv, Columns, Process, nb
<1>4. Careful'
  <2>1. lsRefs' = lsRefs
    BY DEF nb
  <2>2. \A step : Spared(step)' = Spared(step)
    BY <2>1, SparedFrame
  <2>3. \A step : Removal(step)' = Removal(step)
    BY DEF Removal
  <2>. QED  BY <2>2, <2>3 DEF Careful
<1>5. RouterTexts' /\ Attached'
  BY RoutersFrame
<1>. QED  BY <1>1, <1>2, <1>3, <1>4, <1>5 DEF Columns

LEMMA TakeEventColumns ==
    ASSUME BInv, UNCHANGED world, TakeEvent
    PROVE  Columns'
<1>. DEFINE q == <<Head(events)>>
<1>1. /\ events # <<>> /\ events \in Seq(PortEvent) /\ txn["agent"] = NoTxn
      /\ UNCHANGED <<port, nb, txn>> /\ events' = Tail(events)
      /\ todo'["api"] = todo["api"] /\ todo'["agent"] = q
  BY DEF TakeEvent, Busy, BInv, AInv, TodoTypes, Process
<1>2. world = "calm" => ~Busy("api") /\ Tail(events) = <<>>
  <2>. SUFFICES ASSUME world = "calm" PROVE ~Busy("api") /\ Tail(events) = <<>>
    OBVIOUS
  <2>1. ~Busy("api") /\ Len(events) <= 1
    BY <1>1 DEF BInv, Columns, Turns
  <2>2. Len(Tail(events)) = Len(events) - 1 /\ Len(events) \in Nat \ {0}
        /\ Tail(events) \in Seq(PortEvent)
    BY <1>1, FirstStep
  <2>3. Len(Tail(events)) = 0
    BY <2>1, <2>2
  <2>. QED  BY <2>1, <2>2, <2>3, EmptySeq
<1>3. \A i \in 1..Len(events) :
         Spared(events[i]) /\ (world = "busy" => ~Removal(events[i]))
  BY DEF BInv, Columns, Careful
<1>4. \A i \in 1..Len(q) : Spared(q[i]) /\ (world = "busy" => ~Removal(q[i]))
  <2>1. Len(q) = 1 /\ q[1] = Head(events)
    OBVIOUS
  <2>2. Head(events) = events[1] /\ 1 \in 1..Len(events)
    BY <1>1, FirstElement
  <2>. HIDE DEF q
  <2>3. \A i \in 1..Len(q) : q[i] = events[1]
    BY <2>1, <2>2
  <2>. QED  BY <1>3, <2>2, <2>3
<1>5. \A i \in 1..Len(Tail(events)) :
         Spared(Tail(events)[i]) /\ (world = "busy" => ~Removal(Tail(events)[i]))
  <2>. TAKE i \in 1..Len(Tail(events))
  <2>1. PICK j \in 1..Len(events) : Tail(events)[i] = events[j]
    BY <1>1, TailElements
  <2>. QED  BY <1>3, <2>1
<1>. HIDE DEF q
<1>. QED  BY <1>1, <1>2, <1>4, <1>5, AgentColumns

-----------------------------------------------------------------------------
(* What the agent finds to do about a port                                 *)

\* What is left after a handler of the agent has listed its steps.
LEMMA ListedElements ==
    ASSUME NEW a \in Seq(AgentStep), NEW b \in Seq(AgentStep), NEW c \in Seq(AgentStep),
           NEW i \in 1..Len((a \o b) \o c)
    PROVE  \/ \E j \in 1..Len(a) : ((a \o b) \o c)[i] = a[j]
           \/ \E j \in 1..Len(b) : ((a \o b) \o c)[i] = b[j]
           \/ \E j \in 1..Len(c) : ((a \o b) \o c)[i] = c[j]
<1>. DEFINE u == a \o b
<1>1. u \in Seq(AgentStep)
  BY ConcatProperties
<1>2. \A j \in 1..Len(u) : \/ \E k \in 1..Len(a) : u[j] = a[k]
                           \/ \E k \in 1..Len(b) : u[j] = b[k]
  BY ConcatElements
<1>. HIDE DEF u
<1>3. i \in 1..Len(u \o c)
  BY DEF u
<1>4. \/ \E j \in 1..Len(u) : (u \o c)[i] = u[j]
      \/ \E j \in 1..Len(c) : (u \o c)[i] = c[j]
  BY <1>1, <1>3, ConcatElements
<1>5. \/ \E j \in 1..Len(a) : (u \o c)[i] = a[j]
      \/ \E j \in 1..Len(b) : (u \o c)[i] = b[j]
      \/ \E j \in 1..Len(c) : (u \o c)[i] = c[j]
  BY <1>2, <1>4
<1>. QED  BY <1>5 DEF u

LEMMA LrpCreatedColumns ==
    ASSUME BInv, UNCHANGED world, LrpCreated
    PROVE  Columns'
<1>. DEFINE step == Head(todo["agent"])
            rest == Tail(todo["agent"])
            A == lsLb[step.s] \ lrLb[step.r]
            B == IF step.s \in External THEN {} ELSE lrLb[step.r] \ lsLb[step.s]
<1>0. AInv
  BY DEF BInv
<1>1. /\ todo["agent"] # <<>> /\ txn["agent"] = NoTxn /\ step.do = "lrp_created"
      /\ UNCHANGED <<port, members, nb, events, txn>>
  BY DEF LrpCreated
<1>2. /\ todo["agent"] \in Seq(AgentStep) /\ step \in AgentStep
      /\ rest \in Seq(AgentStep)
  BY <1>0, <1>1, FirstStep DEF AInv, TodoTypes
<1>3. step.s \in Switch /\ step.r \in Router
  <2>. HIDE DEF step
  <2>. QED  BY <1>1, <1>2 DEF AgentStep, PortEvent, SwitchStep
<1>4. /\ A \in SUBSET Lb /\ IsFiniteSet(A)
      /\ B \in SUBSET Lb /\ IsFiniteSet(B)
  <2>1. A \subseteq lsLb[step.s] /\ B \subseteq lrLb[step.r]
    OBVIOUS
  <2>. HIDE DEF A, B, step
  <2>. QED  BY <1>0, <1>3, <2>1, RowsOfColumns
<1>5. PICK a \in ForEach(A, LAMBDA lb : LrAddStep(lb, step.r)),
            b \in ForEach(B, LAMBDA lb : LsAddStep(lb, step.s, FALSE)) :
         Steps("agent", a \o b)
  BY DEF LrpCreated
<1>6. /\ a \in Seq(AgentStep) /\ \A i \in 1..Len(a) : a[i].do = "lr_add"
      /\ b \in Seq(AgentStep) /\ \A i \in 1..Len(b) : b[i].do = "ls_add"
  <2>. HIDE DEF A, B, step
  <2>1. a \in Seq(AgentStep) /\ b \in Seq(AgentStep)
    BY <1>3, <1>4, ForEachSteps
  <2>2. \A i \in 1..Len(a) : a[i].do = "lr_add"
    <3>1. PICK o \in SetToSeqs(A) : a = [i \in DOMAIN o |-> LrAddStep(o[i], step.r)]
      BY DEF ForEach
    <3>. QED  BY <2>1, <3>1, LenProperties DEF LrAddStep
  <2>3. \A i \in 1..Len(b) : b[i].do = "ls_add"
    <3>1. PICK o \in SetToSeqs(B) :
             b = [i \in DOMAIN o |-> LsAddStep(o[i], step.s, FALSE)]
      BY DEF ForEach
    <3>. QED  BY <2>1, <3>1, LenProperties DEF LsAddStep
  <2>. QED  BY <2>1, <2>2, <2>3
<1>. DEFINE q == (a \o b) \o rest
<1>7. todo'["agent"] = q /\ todo'["api"] = todo["api"]
  BY <1>5 DEF Steps, BInv, AInv, TodoTypes, Process
<1>8. \A i \in 1..Len(todo["agent"]) :
         Spared(todo["agent"][i]) /\ (world = "busy" => ~Removal(todo["agent"][i]))
  BY DEF BInv, Columns, Careful
<1>9. \A x : x.do \in {"lr_add", "ls_add"} => Spared(x) /\ ~Removal(x)
  BY SparedUnless DEF Removal
<1>10. \A i \in 1..Len(q) : Spared(q[i]) /\ (world = "busy" => ~Removal(q[i]))
  <2>. SUFFICES ASSUME NEW i \in 1..Len(q)
                PROVE  Spared(q[i]) /\ (world = "busy" => ~Removal(q[i]))
    OBVIOUS
  <2>. HIDE DEF step, rest
  <2>1. \/ \E j \in 1..Len(a) : q[i] = a[j]
        \/ \E j \in 1..Len(b) : q[i] = b[j]
        \/ \E j \in 1..Len(rest) : q[i] = rest[j]
    <3>1. a \in Seq(AgentStep) /\ b \in Seq(AgentStep) /\ rest \in Seq(AgentStep)
      BY <1>2, <1>6
    <3>. QED  BY <3>1, ListedElements
  <2>. HIDE DEF q
  <2>2. CASE q[i].do \in {"lr_add", "ls_add"}
    BY <1>9, <2>2
  <2>3. CASE \E j \in 1..Len(rest) : q[i] = rest[j]
    <3>1. PICK j \in 1..Len(rest) : q[i] = rest[j]
      BY <2>3
    <3>2. PICK k \in 1..Len(todo["agent"]) : rest[j] = todo["agent"][k]
      BY <1>1, <1>2, TailElements DEF rest
    <3>. QED  BY <1>8, <3>1, <3>2
  <2>. QED  BY <1>6, <2>1, <2>2, <2>3
<1>11. world = "calm" => ~Busy("api") /\ events = <<>>
  BY <1>1 DEF BInv, Columns, Turns, Busy
<1>12. \A i \in 1..Len(events) :
         Spared(events[i]) /\ (world = "busy" => ~Removal(events[i]))
  BY DEF BInv, Columns, Careful
<1>. HIDE DEF q, step, rest, A, B
<1>. QED  BY <1>1, <1>7, <1>10, <1>11, <1>12, AgentColumns

\* A compact row has no reference but to the switch of its VIP.
LEMMA CompactReferences ==
    ASSUME AInv, todo["api"] = <<>>, NEW lb \in Compact, NEW s \in Switch,
           lsRefs[lb][s] > 0
    PROVE  lb \in live /\ s = VipSwitch[lb]
<1>1. lb \in live
  <2>. SUFFICES ASSUME lb \notin live PROVE FALSE
    OBVIOUS
  <2>1. lsRefs[lb] = NoRefs
    BY DEF AInv, Gone, Compact
  <2>2. lsRefs[lb][s] = 0
    BY <2>1 DEF NoRefs
  <2>. QED  BY <2>2
<1>2. s = VipSwitch[lb]
  <2>. SUFFICES ASSUME s # VipSwitch[lb] PROVE FALSE
    OBVIOUS
  <2>1. Users(lb, s) = {}
    BY DEF Users, Compact, AInv, TypeOK
  <2>2. Needed(lb, s) = 0
    BY <2>1, FS_EmptySet DEF Needed
  <2>3. lsRefs[lb][s] = Needed(lb, s)
    BY <1>1, IdleCounts
  <2>. QED  BY <2>2, <2>3
<1>. QED  BY <1>1, <1>2

LEMMA LrpDeletedColumns ==
    ASSUME BInv, UNCHANGED world, LrpDeleted
    PROVE  Columns'
<1>. DEFINE step == Head(todo["agent"])
            rest == Tail(todo["agent"])
            A == {lb \in lsLb[step.s] : lsRefs[lb][step.s] > 0}
            B == lrLb[step.r] \ A
<1>0. AInv
  BY DEF BInv
<1>1. /\ todo["agent"] # <<>> /\ txn["agent"] = NoTxn /\ step.do = "lrp_deleted"
      /\ UNCHANGED <<port, members, nb, events, txn>>
  BY DEF LrpDeleted
<1>2. /\ todo["agent"] \in Seq(AgentStep) /\ step \in AgentStep
      /\ rest \in Seq(AgentStep) /\ 1 \in 1..Len(todo["agent"]) /\ step = todo["agent"][1]
  BY <1>0, <1>1, FirstStep, FirstElement DEF AInv, TodoTypes
<1>3. step.s \in Switch /\ step.r \in Router
  <2>. HIDE DEF step
  <2>. QED  BY <1>1, <1>2 DEF AgentStep, PortEvent, SwitchStep
<1>4. /\ A \in SUBSET Lb /\ IsFiniteSet(A)
      /\ B \in SUBSET Lb /\ IsFiniteSet(B)
  <2>1. A \subseteq lsLb[step.s] /\ B \subseteq lrLb[step.r]
    OBVIOUS
  <2>. HIDE DEF A, B, step
  <2>. QED  BY <1>0, <1>3, <2>1, RowsOfColumns
<1>5. PICK a \in ForEach(A, LAMBDA lb : LrDelStep(lb, step.r)),
            b \in ForEach(B, LAMBDA lb : LsDelStep(lb, step.s, FALSE)) :
         Steps("agent", a \o b)
  BY DEF LrpDeleted
<1>6. /\ a \in Seq(AgentStep)
      /\ \A i \in 1..Len(a) : \E lb \in A : a[i] = LrDelStep(lb, step.r)
      /\ b \in Seq(AgentStep)
      /\ \A i \in 1..Len(b) : \E lb \in B : b[i] = LsDelStep(lb, step.s, FALSE)
  <2>. HIDE DEF A, B, step
  <2>1. a \in Seq(AgentStep) /\ b \in Seq(AgentStep)
    BY <1>3, <1>4, ForEachSteps
  <2>2. \A i \in 1..Len(a) : \E lb \in A : a[i] = LrDelStep(lb, step.r)
    <3>1. PICK o \in SetToSeqs(A) : a = [i \in DOMAIN o |-> LrDelStep(o[i], step.r)]
      BY DEF ForEach
    <3>2. \A i \in DOMAIN o : o[i] \in A
      BY <1>4, <3>1, OrderIsSeq
    <3>3. DOMAIN a = 1..Len(a) /\ DOMAIN a = DOMAIN o
      BY <2>1, <3>1, LenProperties
    <3>. QED  BY <3>1, <3>2, <3>3
  <2>3. \A i \in 1..Len(b) : \E lb \in B : b[i] = LsDelStep(lb, step.s, FALSE)
    <3>1. PICK o \in SetToSeqs(B) :
             b = [i \in DOMAIN o |-> LsDelStep(o[i], step.s, FALSE)]
      BY DEF ForEach
    <3>2. \A i \in DOMAIN o : o[i] \in B
      BY <1>4, <3>1, OrderIsSeq
    <3>3. DOMAIN b = 1..Len(b) /\ DOMAIN b = DOMAIN o
      BY <2>1, <3>1, LenProperties
    <3>. QED  BY <3>1, <3>2, <3>3
  <2>. QED  BY <2>1, <2>2, <2>3
<1>. DEFINE q == (a \o b) \o rest
<1>7. todo'["agent"] = q /\ todo'["api"] = todo["api"]
  BY <1>5 DEF Steps, BInv, AInv, TodoTypes, Process
<1>8. \A i \in 1..Len(todo["agent"]) :
         Spared(todo["agent"][i]) /\ (world = "busy" => ~Removal(todo["agent"][i]))
  BY DEF BInv, Columns, Careful
<1>9. world = "calm"
  <2>1. Removal(step)
    BY <1>1 DEF Removal
  <2>. HIDE DEF step
  <2>. QED  BY <1>0, <1>2, <1>8, <2>1, Worldly
<1>10. ~Busy("api") /\ events = <<>> /\ todo["api"] = <<>>
  BY <1>1, <1>9 DEF BInv, Columns, Turns, Busy
<1>11. step.s \notin SwitchesOf(step.r)
  <2>1. Spared(step)
    <3>. HIDE DEF step
    <3>. QED  BY <1>2, <1>8
  <2>2. <<step.r, step.s>> \notin port
    BY <1>1, <2>1 DEF Spared
  <2>. QED  BY <2>2 DEF SwitchesOf, Ports
<1>. HIDE DEF step
<1>12. \A lb \in A : Spared(LrDelStep(lb, step.r))
  <2>. SUFFICES ASSUME NEW lb \in A, lb \in Compact, NEW s \in SwitchesOf(step.r)
                PROVE  lsRefs[lb][s] = 0
    BY DEF Spared, LrDelStep
  <2>1. lsRefs[lb][step.s] > 0
    OBVIOUS
  <2>2. step.s = VipSwitch[lb]
    BY <1>0, <1>3, <1>10, <2>1, CompactReferences
  <2>3. s \in Switch /\ s # step.s
    BY <1>11 DEF SwitchesOf, Ports
  <2>4. lsRefs[lb][s] \in Nat
    BY <1>0, <2>3 DEF AInv, TypeOK, Compact
  <2>5. ~(lsRefs[lb][s] > 0)
    BY <1>0, <1>10, <2>2, <2>3, CompactReferences
  <2>. QED  BY <2>4, <2>5
<1>13. \A lb \in B : Spared(LsDelStep(lb, step.s, FALSE))
  <2>. SUFFICES ASSUME NEW lb \in B, lb \in Compact
                PROVE  lsRefs[lb][step.s] = 0
    BY DEF Spared, LsDelStep
  <2>1. lsRefs[lb][step.s] \in Nat
    BY <1>0, <1>3 DEF AInv, TypeOK, Compact
  <2>2. ~(lsRefs[lb][step.s] > 0)
    <3>. SUFFICES ASSUME lsRefs[lb][step.s] > 0 PROVE FALSE
      OBVIOUS
    <3>1. lb \in live
      BY <1>0, <1>3, <1>10, CompactReferences
    <3>2. lb \in lsLb[step.s]
      BY <1>3, <3>1 DEF BInv, Columns, Attached
    <3>. QED  BY <3>2
  <2>. QED  BY <2>1, <2>2
<1>14. \A i \in 1..Len(q) : Spared(q[i])
  <2>. SUFFICES ASSUME NEW i \in 1..Len(q) PROVE Spared(q[i])
    OBVIOUS
  <2>. HIDE DEF rest, A, B
  <2>1. \/ \E j \in 1..Len(a) : q[i] = a[j]
        \/ \E j \in 1..Len(b) : q[i] = b[j]
        \/ \E j \in 1..Len(rest) : q[i] = rest[j]
    <3>1. a \in Seq(AgentStep) /\ b \in Seq(AgentStep) /\ rest \in Seq(AgentStep)
      BY <1>2, <1>6
    <3>. QED  BY <3>1, ListedElements
  <2>. HIDE DEF q
  <2>2. CASE \/ \E lb \in A : q[i] = LrDelStep(lb, step.r)
             \/ \E lb \in B : q[i] = LsDelStep(lb, step.s, FALSE)
    BY <1>12, <1>13, <2>2
  <2>3. CASE \E j \in 1..Len(rest) : q[i] = rest[j]
    <3>1. PICK j \in 1..Len(rest) : q[i] = rest[j]
      BY <2>3
    <3>2. PICK k \in 1..Len(todo["agent"]) : rest[j] = todo["agent"][k]
      BY <1>1, <1>2, TailElements DEF rest
    <3>. QED  BY <1>8, <3>1, <3>2
  <2>. QED  BY <1>6, <2>1, <2>2, <2>3
<1>15. \A i \in 1..Len(events) :
         Spared(events[i]) /\ (world = "busy" => ~Removal(events[i]))
  BY DEF BInv, Columns, Careful
<1>. HIDE DEF q, rest, A, B
<1>. QED  BY <1>1, <1>7, <1>9, <1>10, <1>14, <1>15, AgentColumns

-----------------------------------------------------------------------------
(* Collecting the commands of a transaction                                *)

\* What the transaction of each step does to the columns and to lr_ref.
LEMMA TxnShape ==
    ASSUME NEW step
    PROVE  /\ step.do = "ls_add" =>
                 /\ TxnOf(step).noLs = {} /\ TxnOf(step).noLr = {}
                 /\ TxnOf(step).lr = {} /\ TxnOf(step).lrRef = {}
                 /\ TxnOf(step).ls = IF lsRefs[step.lb][step.s] = 0 THEN {step.s} ELSE {}
           /\ step.do = "ls_del" =>
                 /\ TxnOf(step).noLr = {} /\ TxnOf(step).lr = {}
                 /\ TxnOf(step).lrRef = {} /\ TxnOf(step).ls = {}
                 /\ TxnOf(step).noLs =
                       IF lsRefs[step.lb][step.s] <= 1 THEN {step.s} ELSE {}
           /\ step.do = "lr_add" =>
                 /\ TxnOf(step).noLs = {} /\ TxnOf(step).noLr = {}
                 /\ TxnOf(step).lr = {step.r}
                 /\ TxnOf(step).lrRef = IF step.r \in lrRef[step.lb] THEN {}
                                        ELSE {lrRef[step.lb] \cup {step.r}}
           /\ step.do = "lr_del" =>
                 /\ TxnOf(step).lr = {}
                 /\ TxnOf(step).noLr = IF lrRef[step.lb] = {} THEN {} ELSE {step.r}
                 /\ TxnOf(step).noLs = SwitchesOf(step.r)
                 /\ TxnOf(step).lrRef = IF lrRef[step.lb] = {} THEN {}
                                        ELSE {lrRef[step.lb] \ {step.r}}
           /\ step.do = "lb_del" =>
                 /\ TxnOf(step).noLr = Router /\ TxnOf(step).lr = {}
                 /\ TxnOf(step).lrRef = {}
BY DEF TxnOf, LsAdd, LsDel, LrAdd, LrDel, LbDrop, Txn

LEMMA PrepareColumns ==
    ASSUME BInv, UNCHANGED world, NEW p \in Process, Prepare(p)
    PROVE  Columns'
<1>1. PICK step : step = Head(todo[p])
  OBVIOUS
<1>2. PICK t : t = TxnOf(step)
  OBVIOUS
<1>3. /\ txn[p] = NoTxn /\ todo[p] # <<>>
      /\ step.do \in {"ls_add", "ls_del", "lr_add", "lr_del", "lb_del"}
      /\ UNCHANGED <<port, members, nb, events, todo>>
  BY <1>1 DEF Prepare
<1>4. txn' = [txn EXCEPT ![p] = t]
  BY <1>1, <1>2 DEF Prepare, TxnOf
<1>5. /\ txn'[p] = t /\ t.lb = step.lb /\ step.lb \in Lb
      /\ \A o \in Process \ {p} : txn'[o] = txn[o]
  <2>1. step \in AgentStep \cup ApiStep
    BY <1>1, <1>3, FirstStep DEF BInv, AInv, TodoTypes
  <2>2. step.lb \in Lb
    BY <1>3, <2>1 DEF AgentStep, ApiStep, PortEvent, SwitchStep
  <2>3. t.lb = step.lb
    BY <1>2, <1>3 DEF TxnOf, LsAdd, LsDel, LrAdd, LrDel, LbDrop, Txn
  <2>. QED  BY <1>4, <2>2, <2>3 DEF BInv, AInv, TodoTypes
<1>6. Turns'
  <2>1. Busy(p) /\ Busy(p)'
    BY <1>3 DEF Busy
  <2>2. \A o \in Process \ {p} : Busy(o)' = Busy(o)
    BY <1>3, <1>5 DEF Busy
  <2>. QED  BY <1>3, <2>1, <2>2 DEF Turns, Process, BInv, Columns
<1>7. ASSUME NEW o \in Process PROVE Exact(o)'
  <2>1. CASE o = p
    <3>1. TxnOf(step)' = TxnOf(step)
      BY <1>3, TxnOfFrame DEF nb
    <3>2. step.do \in {"ls_add", "lr_add"} => t.noLs = {} /\ t.noLr = {}
      BY <1>2, TxnShape
    <3>. QED  BY <1>1, <1>2, <1>3, <1>5, <2>1, <3>1, <3>2 DEF Exact
  <2>2. CASE o # p
    BY <1>3, <1>5, <2>2, <1>7, ExactFrame DEF BInv, Columns, Process, nb
  <2>. QED  BY <2>1, <2>2
<1>8. Careful'
  BY <1>3, CarefulFrame DEF nb
<1>9. RouterTexts'
  <2>1. \A lb : On(lb)' = On(lb)
    BY <1>3 DEF On, nb
  <2>2. /\ \A lb \in Lb \ live' : lrRef'[lb] = {} /\ On(lb)' = {}
        /\ \A lb \in live' : /\ lrRef'[lb] \subseteq On(lb)'
                             /\ world' = "calm" => lrRef'[lb] = On(lb)'
    BY <1>3, <2>1 DEF BInv, Columns, RouterTexts, nb
  <2>3. ASSUME NEW o \in Process, txn'[o] # NoTxn, txn'[o].lb \in live',
               NEW text \in txn'[o].lrRef
        PROVE  text \subseteq On(txn'[o].lb) \cup txn'[o].lr
    <3>1. CASE o = p
      <4>1. text \in t.lrRef /\ step.lb \in live
        BY <1>3, <1>5, <2>3, <3>1 DEF nb
      <4>2. lrRef[step.lb] \subseteq On(step.lb)
        BY <4>1 DEF BInv, Columns, RouterTexts
      <4>3. text \subseteq On(step.lb) \cup t.lr
        <5>1. CASE step.do = "lr_add"
          <6>1. /\ t.lr = {step.r}
                /\ t.lrRef = IF step.r \in lrRef[step.lb] THEN {}
                             ELSE {lrRef[step.lb] \cup {step.r}}
            BY <1>2, <5>1, TxnShape
          <6>2. text = lrRef[step.lb] \cup {step.r}
            BY <4>1, <6>1
          <6>. QED  BY <4>2, <6>1, <6>2
        <5>2. CASE step.do = "lr_del"
          <6>1. t.lrRef = IF lrRef[step.lb] = {} THEN {}
                          ELSE {lrRef[step.lb] \ {step.r}}
            BY <1>2, <5>2, TxnShape
          <6>2. text = lrRef[step.lb] \ {step.r}
            BY <4>1, <6>1
          <6>. QED  BY <4>2, <6>2
        <5>3. CASE step.do \in {"ls_add", "ls_del", "lb_del"}
          BY <1>2, <4>1, <5>3, TxnShape
        <5>. QED  BY <1>3, <5>1, <5>2, <5>3
      <4>. QED  BY <1>5, <3>1, <4>3
    <3>2. CASE o # p
      BY <1>3, <1>5, <2>3, <3>2 DEF BInv, Columns, RouterTexts, nb
    <3>. QED  BY <3>1, <3>2
  <2>4. \A o \in Process : txn'[o] # NoTxn /\ txn'[o].lb \in live' =>
           \A text \in txn'[o].lrRef : text \subseteq On(txn[o].lb)' \cup txn'[o].lr
    BY <1>3, <2>3 DEF On, nb
  <2>. QED  BY <2>2, <2>4 DEF RouterTexts
<1>10. Attached'
  BY <1>3 DEF BInv, Columns, Attached, nb
<1>. QED  BY <1>6, <1>7, <1>8, <1>9, <1>10 DEF Columns, Process

-----------------------------------------------------------------------------
(* What is committed                                                       *)

LEMMA WrittenIs == \A opt, old : Written(opt, old) \in opt \cup {old}
BY DEF Written

\* A transaction changes one row only.
LEMMA ApplyColumns ==
    ASSUME AInv, NEW t \in Transaction, Apply(t)
    PROVE  /\ \A b \in Lb : b # t.lb =>
                 /\ On(b)' = On(b) /\ lrRef'[b] = lrRef[b] /\ lsRefs'[b] = lsRefs[b]
                 /\ b \in live' <=> b \in live
                 /\ \A s \in Switch : b \in lsLb'[s] <=> b \in lsLb[s]
           /\ t.lb \in Lb
           /\ On(t.lb)' = (On(t.lb) \ t.noLr) \cup t.lr
           /\ \A s \in Switch : t.lb \in lsLb'[s] <=>
                 (t.lb \in lsLb[s] /\ s \notin t.noLs) \/ s \in t.ls
           /\ t.drop = FALSE =>
                 /\ live' = live /\ lrRef'[t.lb] = Written(t.lrRef, lrRef[t.lb])
                 /\ lsRefs'[t.lb] = Written(t.lsRefs, lsRefs[t.lb])
           /\ t.drop = TRUE => live' = live \ {t.lb} /\ lrRef'[t.lb] = {}
<1>1. /\ t.lb \in Lb /\ t.lr \subseteq Router /\ t.drop \in BOOLEAN
      /\ lsRefs \in [Lb -> [Switch -> Nat]] /\ lrRef \in [Lb -> SUBSET Router]
      /\ live \subseteq Lb
  BY DEF AInv, TypeOK, Transaction
<1>2. /\ \A r \in Router : \A b : b \in lrLb'[r] <=>
            (b \in lrLb[r] /\ ~(r \in t.noLr /\ b = t.lb)) \/ (r \in t.lr /\ b = t.lb)
      /\ \A s \in Switch : \A b : b \in lsLb'[s] <=>
            (b \in lsLb[s] /\ ~(s \in t.noLs /\ b = t.lb)) \/ (s \in t.ls /\ b = t.lb)
  BY DEF Apply
<1>3. \A b \in Lb : b # t.lb =>
         /\ On(b)' = On(b)
         /\ \A s \in Switch : b \in lsLb'[s] <=> b \in lsLb[s]
  BY <1>2 DEF On
<1>4. \A b \in Lb : b # t.lb =>
         /\ lrRef'[b] = lrRef[b] /\ lsRefs'[b] = lsRefs[b]
         /\ b \in live' <=> b \in live
  BY <1>1 DEF Apply
<1>5. On(t.lb)' = (On(t.lb) \ t.noLr) \cup t.lr
  BY <1>1, <1>2 DEF On
<1>6. \A s \in Switch : t.lb \in lsLb'[s] <=>
         (t.lb \in lsLb[s] /\ s \notin t.noLs) \/ s \in t.ls
  BY <1>2
<1>7. t.drop = FALSE =>
         /\ live' = live /\ lrRef'[t.lb] = Written(t.lrRef, lrRef[t.lb])
         /\ lsRefs'[t.lb] = Written(t.lsRefs, lsRefs[t.lb])
  BY <1>1 DEF Apply
<1>8. t.drop = TRUE => live' = live \ {t.lb} /\ lrRef'[t.lb] = {}
  BY <1>1 DEF Apply
<1>. QED  BY <1>1, <1>3, <1>4, <1>5, <1>6, <1>7, <1>8

\* What is known of a transaction when it is committed.
Committed(p, step, t) ==
    /\ t \in Transaction /\ t.lb = step.lb /\ t.lb \in Lb
    /\ step.do \in {"ls_add", "ls_del", "lr_add", "lr_del", "lb_del"}
    /\ t.drop = IF step.do = "lb_del" THEN TRUE ELSE FALSE
    /\ p = "agent" => t.lsRefs = {} /\ Spared(step) /\ step.do # "lb_del"
    /\ p = "api" => t.lsRefs = Texts(step) /\ step.do # "lr_del" /\ t.lb \in live
    /\ step.do \in {"ls_add", "lr_add"} => t.noLs = {} /\ t.noLr = {}
    /\ world = "calm" => t = TxnOf(step)
    /\ step.do \in {"ls_del", "lr_del", "lb_del"} => t = TxnOf(step)
    /\ p = "api" /\ step.do # "lr_add" => t = TxnOf(step)
    /\ step.do = "lr_del" => world = "calm"
    /\ p = "agent" /\ step.do = "ls_del" => world = "calm"

LEMMA CommittedTxn ==
    ASSUME BInv, NEW p \in Process, txn[p] # NoTxn,
           NEW step, step = Head(todo[p]), NEW t, t = txn[p]
    PROVE  Committed(p, step, t)
<1>1. /\ t \in Transaction /\ t.lb = step.lb /\ t.lb \in Lb /\ todo[p] # <<>>
      /\ step.do \in {"ls_add", "ls_del", "lr_add", "lr_del", "lb_del"}
  BY DEF BInv, AInv, TodoTypes, Prepared, Process, Transaction
<1>2. ASSUME p = "agent"
      PROVE  /\ t.lsRefs = {} /\ t.drop = FALSE /\ step.do # "lb_del" /\ Spared(step)
             /\ step.do \in {"ls_del", "lr_del"} => world = "calm"
  <2>1. t.lsRefs = {} /\ t.drop = FALSE
    BY <1>2 DEF BInv, AInv, AgentWrites
  <2>2. step \in AgentStep /\ \E i \in 1..Len(todo["agent"]) : step = todo["agent"][i]
    BY <1>1, <1>2, FirstStep, FirstElement DEF BInv, AInv, TodoTypes
  <2>3. step.do # "lb_del"
    BY <2>2 DEF AgentStep, PortEvent, SwitchStep
  <2>4. Spared(step) /\ (world = "busy" => ~Removal(step))
    BY <2>2 DEF BInv, Columns, Careful
  <2>5. step.do \in {"ls_del", "lr_del"} => world = "calm"
    BY <2>4, Worldly DEF Removal, BInv
  <2>. QED  BY <2>1, <2>3, <2>4, <2>5
<1>3. ASSUME p = "api"
      PROVE  /\ t.lsRefs = Texts(step) /\ t.drop = (step.do = "lb_del")
             /\ step.do # "lr_del" /\ t.lb \in live
             /\ step.do # "lr_add" => t = TxnOf(step)
  <2>1. t.lsRefs = Texts(step) /\ t.drop = (step.do = "lb_del")
    BY <1>3 DEF BInv, AInv, ApiWrites
  <2>2. step \in ApiStep /\ step.lb \in live
    BY <1>1, <1>3, ApiRest DEF BInv
  <2>3. step.do # "lr_del"
    BY <2>2 DEF ApiStep, SwitchStep
  <2>4. step.do # "lr_add" => t = TxnOf(step)
    BY <1>3 DEF BInv, Columns, Exact
  <2>. QED  BY <1>1, <2>1, <2>2, <2>3, <2>4
<1>4. /\ step.do \in {"ls_add", "lr_add"} => t.noLs = {} /\ t.noLr = {}
      /\ world = "calm" => t = TxnOf(step)
  BY DEF BInv, Columns, Exact, Process
<1>5. t.drop = IF step.do = "lb_del" THEN TRUE ELSE FALSE
  BY <1>2, <1>3 DEF Process
<1>6. step.do \in {"ls_del", "lr_del", "lb_del"} => t = TxnOf(step)
  BY <1>2, <1>3, <1>4 DEF Process
<1>. QED  BY <1>1, <1>2, <1>3, <1>4, <1>5, <1>6 DEF Process, Committed

\* The columns and texts of the row a transaction is about.
LEMMA CommittedRow ==
    ASSUME BInv, NEW p \in Process, txn[p] # NoTxn,
           NEW step, step = Head(todo[p]), NEW t, t = txn[p],
           t.lb \in live, Apply(t), t.lb \in live', UNCHANGED world
    PROVE  /\ lrRef'[t.lb] \subseteq On(t.lb)'
           /\ world = "calm" => lrRef'[t.lb] = On(t.lb)'
           /\ \A s \in Switch :
                 (t.lb \in Compact \/ world = "busy") /\ lsRefs'[t.lb][s] > 0
                     => t.lb \in lsLb'[s]
           /\ world = "busy" => On(t.lb) \subseteq On(t.lb)'
<1>0. AInv
  BY DEF BInv
<1>10. Committed(p, step, t)
  BY CommittedTxn
<1>1. /\ t \in Transaction /\ t.lb = step.lb /\ t.lb \in Lb
      /\ step.do \in {"ls_add", "ls_del", "lr_add", "lr_del", "lb_del"}
      /\ t.drop = IF step.do = "lb_del" THEN TRUE ELSE FALSE
      /\ p = "agent" => t.lsRefs = {} /\ Spared(step)
      /\ p = "api" => t.lsRefs = Texts(step) /\ step.do # "lr_del"
      /\ step.do \in {"ls_add", "lr_add"} => t.noLs = {} /\ t.noLr = {}
      /\ world = "calm" => t = TxnOf(step)
      /\ step.do \in {"ls_del", "lr_del", "lb_del"} => t = TxnOf(step)
      /\ p = "api" /\ step.do # "lr_add" => t = TxnOf(step)
      /\ step.do = "lr_del" => world = "calm"
      /\ p = "agent" /\ step.do = "ls_del" => world = "calm"
  BY <1>10 DEF Committed
<1>2. t.drop = FALSE /\ step.do # "lb_del"
  <2>1. t.drop = TRUE => live' = live \ {t.lb}
    BY <1>0, <1>1, ApplyColumns
  <2>. QED  BY <1>1, <2>1
<1>3. /\ On(t.lb)' = (On(t.lb) \ t.noLr) \cup t.lr
      /\ \A s \in Switch : t.lb \in lsLb'[s] <=>
            (t.lb \in lsLb[s] /\ s \notin t.noLs) \/ s \in t.ls
      /\ lrRef'[t.lb] = Written(t.lrRef, lrRef[t.lb])
      /\ lsRefs'[t.lb] = Written(t.lsRefs, lsRefs[t.lb])
  BY <1>0, <1>1, <1>2, ApplyColumns
<1>4. /\ lrRef[t.lb] \subseteq On(t.lb)
      /\ world = "calm" => lrRef[t.lb] = On(t.lb)
      /\ \A text \in t.lrRef : text \subseteq On(t.lb) \cup t.lr
      /\ \A s \in Switch :
            (t.lb \in Compact \/ world = "busy") /\ lsRefs[t.lb][s] > 0
                => t.lb \in lsLb[s]
  BY DEF BInv, Columns, RouterTexts, Attached
<1>5. lrRef'[t.lb] \in t.lrRef \cup {lrRef[t.lb]}
  BY <1>3, WrittenIs
<1>9. /\ t.lrRef = {} => lrRef'[t.lb] = lrRef[t.lb]
      /\ t.lsRefs = {} => lsRefs'[t.lb] = lsRefs[t.lb]
      /\ \A x : t.lrRef = {x} => lrRef'[t.lb] = x
      /\ \A x : t.lsRefs = {x} => lsRefs'[t.lb] = x
  <2>. DEFINE a == t.lrRef
              b == t.lsRefs
  <2>1. /\ lrRef'[t.lb] = Written(a, lrRef[t.lb])
        /\ lsRefs'[t.lb] = Written(b, lsRefs[t.lb])
    BY <1>3
  <2>. HIDE DEF a, b
  <2>2. /\ a = {} => lrRef'[t.lb] = lrRef[t.lb]
        /\ b = {} => lsRefs'[t.lb] = lsRefs[t.lb]
        /\ \A x : a = {x} => lrRef'[t.lb] = x
        /\ \A x : b = {x} => lsRefs'[t.lb] = x
    BY <2>1, WrittenOnce
  <2>. QED  BY <2>2 DEF a, b
<1>6. CASE step.do = "lr_del"
  <2>1. /\ t.lr = {}
        /\ t.noLr = IF lrRef[t.lb] = {} THEN {} ELSE {step.r}
        /\ t.noLs = SwitchesOf(step.r)
        /\ t.lrRef = IF lrRef[t.lb] = {} THEN {} ELSE {lrRef[t.lb] \ {step.r}}
    <3>1. t = TxnOf(step)
      BY <1>1, <1>6
    <3>. QED  BY <1>1, <1>6, <3>1, TxnShape
  <2>0. world = "calm" /\ p = "agent" /\ t.lsRefs = {}
    BY <1>1, <1>6 DEF Process
  <2>2. lrRef'[t.lb] = On(t.lb)'
    <3>1. CASE lrRef[t.lb] = {}
      BY <1>3, <1>4, <1>9, <2>0, <2>1, <3>1
    <3>2. CASE lrRef[t.lb] # {}
      <4>1. lrRef'[t.lb] = lrRef[t.lb] \ {step.r}
        BY <1>9, <2>1, <3>2
      <4>. QED  BY <1>3, <1>4, <2>0, <2>1, <3>2, <4>1
    <3>. QED  BY <3>1, <3>2
  <2>3. ASSUME NEW s \in Switch, t.lb \in Compact, lsRefs'[t.lb][s] > 0
        PROVE  t.lb \in lsLb'[s]
    <3>1. lsRefs'[t.lb] = lsRefs[t.lb]
      BY <1>9, <2>0
    <3>2. s \notin SwitchesOf(step.r)
      <4>1. \A x \in SwitchesOf(step.r) : lsRefs[step.lb][x] = 0
        BY <1>1, <1>6, <2>0, <2>3 DEF Spared
      <4>. QED  BY <1>1, <2>3, <3>1, <4>1
    <3>3. t.lb \in lsLb[s]
      BY <1>4, <2>3, <3>1
    <3>. QED  BY <1>3, <2>1, <3>2, <3>3
  <2>. QED  BY <2>0, <2>2, <2>3
<1>7. CASE step.do = "ls_del"
  <2>1. /\ t.lr = {} /\ t.noLr = {} /\ t.lrRef = {} /\ t.ls = {}
        /\ t.noLs = IF lsRefs[t.lb][step.s] <= 1 THEN {step.s} ELSE {}
    <3>1. t = TxnOf(step)
      BY <1>1, <1>7
    <3>. QED  BY <1>1, <1>7, <3>1, TxnShape
  <2>2. lrRef'[t.lb] = lrRef[t.lb] /\ On(t.lb)' = On(t.lb)
    BY <1>3, <1>9, <2>1
  <2>3. ASSUME NEW s \in Switch, t.lb \in Compact \/ world = "busy", lsRefs'[t.lb][s] > 0
        PROVE  t.lb \in lsLb'[s]
    <3>1. lsRefs[t.lb] \in [Switch -> Nat]
      BY <1>0, <1>1 DEF AInv, TypeOK
    <3>2. lsRefs[t.lb][s] > 0 /\ s \notin t.noLs
      <4>1. CASE p = "api"
        <5>1. t.lsRefs = IF lsRefs[t.lb][step.s] > 0
                         THEN {[lsRefs[t.lb] EXCEPT ![step.s] = @ - 1]} ELSE {}
          BY <1>1, <1>7, <4>1 DEF Texts
        <5>2. CASE lsRefs[t.lb][step.s] > 0
          <6>1. lsRefs'[t.lb] = [lsRefs[t.lb] EXCEPT ![step.s] = @ - 1]
            BY <1>9, <5>1, <5>2
          <6>2. CASE s = step.s
            BY <2>1, <2>3, <3>1, <6>1, <6>2
          <6>3. CASE s # step.s
            BY <2>1, <2>3, <3>1, <6>1, <6>3
          <6>. QED  BY <6>2, <6>3
        <5>3. CASE ~(lsRefs[t.lb][step.s] > 0)
          <6>1. lsRefs'[t.lb] = lsRefs[t.lb]
            BY <1>9, <5>1, <5>3
          <6>2. s # step.s
            BY <2>3, <5>3, <6>1
          <6>. QED  BY <2>1, <2>3, <6>1, <6>2
        <5>. QED  BY <5>2, <5>3
      <4>2. CASE p = "agent"
        <5>1. t.lsRefs = {} /\ Spared(step) /\ world = "calm"
          BY <1>1, <1>7, <4>2
        <5>2. lsRefs'[t.lb] = lsRefs[t.lb]
          BY <1>9, <5>1
        <5>3. lsRefs[t.lb][step.s] = 0
          BY <1>1, <1>7, <2>3, <5>1 DEF Spared
        <5>4. s # step.s
          BY <2>3, <5>2, <5>3
        <5>. QED  BY <2>1, <2>3, <5>2, <5>4
      <4>. QED  BY <4>1, <4>2 DEF Process
    <3>3. t.lb \in lsLb[s]
      BY <1>4, <2>3, <3>2
    <3>. QED  BY <1>3, <3>2, <3>3
  <2>. QED  BY <1>4, <2>2, <2>3
<1>8. CASE step.do \in {"ls_add", "lr_add"}
  <2>1. t.noLs = {} /\ t.noLr = {} /\ On(t.lb)' = On(t.lb) \cup t.lr
    BY <1>1, <1>3, <1>8
  <2>2. lrRef'[t.lb] \subseteq On(t.lb)'
    BY <1>4, <1>5, <2>1
  <2>3. ASSUME world = "calm" PROVE lrRef'[t.lb] = On(t.lb)'
    <3>1. t = TxnOf(step)
      BY <1>1, <2>3
    <3>2. CASE step.do = "ls_add"
      <4>1. t.lr = {} /\ t.lrRef = {}
        BY <3>1, <3>2, TxnShape
      <4>. QED  BY <1>3, <1>4, <2>1, <2>3, <1>9, <4>1
    <3>3. CASE step.do = "lr_add"
      <4>1. t.lr = {step.r} /\ t.lrRef = IF step.r \in lrRef[t.lb] THEN {}
                                          ELSE {lrRef[t.lb] \cup {step.r}}
        BY <1>1, <3>1, <3>3, TxnShape
      <4>2. lrRef'[t.lb] = lrRef[t.lb] \cup {step.r}
        <5>1. CASE step.r \in lrRef[t.lb]
          BY <1>9, <4>1, <5>1
        <5>2. CASE step.r \notin lrRef[t.lb]
          BY <1>9, <4>1, <5>2
        <5>. QED  BY <5>1, <5>2
      <4>. QED  BY <1>4, <2>1, <2>3, <4>1, <4>2
    <3>. QED  BY <1>8, <3>2, <3>3
  <2>4. ASSUME NEW s \in Switch, t.lb \in Compact \/ world = "busy", lsRefs'[t.lb][s] > 0
        PROVE  t.lb \in lsLb'[s]
    <3>1. CASE lsRefs[t.lb][s] > 0
      BY <1>3, <1>4, <2>1, <2>4, <3>1
    <3>2. CASE ~(lsRefs[t.lb][s] > 0)
      <4>1. lsRefs[t.lb] \in [Switch -> Nat]
        BY <1>0, <1>1 DEF AInv, TypeOK
      <4>2. lsRefs'[t.lb] # lsRefs[t.lb]
        BY <2>4, <3>2
      <4>3. p = "api" /\ step.do = "ls_add"
            /\ t.lsRefs = {[lsRefs[t.lb] EXCEPT ![step.s] = @ + 1]}
        <5>1. t.lsRefs # {}
          BY <1>9, <4>2
        <5>2. p = "api" /\ t.lsRefs = Texts(step)
          BY <1>1, <5>1 DEF Process
        <5>3. step.do # "lr_add"
          BY <5>1, <5>2 DEF Texts
        <5>. QED  BY <1>1, <1>8, <5>2, <5>3 DEF Texts
      <4>4. lsRefs'[t.lb] = [lsRefs[t.lb] EXCEPT ![step.s] = @ + 1]
        BY <1>9, <4>3
      <4>5. s = step.s /\ lsRefs[t.lb][s] = 0
        BY <2>4, <3>2, <4>1, <4>4
      <4>6. t = TxnOf(step)
        BY <1>1, <4>3
      <4>7. t.ls = {s}
        BY <1>1, <4>3, <4>5, <4>6, TxnShape
      <4>. QED  BY <1>3, <4>7
    <3>. QED  BY <3>1, <3>2
  <2>. QED  BY <2>1, <2>2, <2>3, <2>4
<1>. QED  BY <1>1, <1>2, <1>6, <1>7, <1>8

\* Committing leaves the other process, and what is left to do, as they were.
LEMMA CommitRest ==
    ASSUME BInv, UNCHANGED world, NEW p \in Process, Commit(p)
    PROVE  /\ txn[p] # NoTxn /\ txn'[p] = NoTxn /\ UNCHANGED <<port, members, events>>
           /\ \A o \in Process \ {p} : txn'[o] = txn[o] /\ todo'[o] = todo[o]
           /\ \A i \in 1..Len(todo'["agent"]) :
                 \E j \in 1..Len(todo["agent"]) : todo'["agent"][i] = todo["agent"][j]
           /\ \/ txn[p].lb \in live /\ Apply(txn[p])
              \/ txn[p].lb \notin live /\ UNCHANGED nb
           /\ p = "agent" => lsRefs' = lsRefs
<1>1. /\ txn[p] # NoTxn /\ txn'[p] = NoTxn /\ UNCHANGED <<port, members, events>>
      /\ \A o \in Process \ {p} : txn'[o] = txn[o]
  BY DEF Commit, BInv, AInv, TodoTypes
<1>2. \/ txn[p].lb \in live /\ Apply(txn[p])
      \/ txn[p].lb \notin live /\ UNCHANGED nb
  BY DEF Commit
<1>3. todo[p] # <<>> /\ todo[p] \in Seq(AgentStep \cup ApiStep)
  BY <1>1 DEF BInv, AInv, TodoTypes, Prepared, Process
<1>4. \/ todo' = [todo EXCEPT ![p] = Tail(todo[p])]
      \/ todo' = [todo EXCEPT ![p] = <<>>]
  <2>1. <<>> \o Tail(todo[p]) = Tail(todo[p])
    BY <1>3, FirstStep
  <2>. QED  BY <2>1 DEF Commit, Steps
<1>5. \A o \in Process \ {p} : todo'[o] = todo[o]
  BY <1>4 DEF BInv, AInv, TodoTypes
<1>6. ASSUME NEW i \in 1..Len(todo'["agent"])
      PROVE  \E j \in 1..Len(todo["agent"]) : todo'["agent"][i] = todo["agent"][j]
  <2>1. CASE p = "api"
    BY <1>5, <1>6, <2>1 DEF Process
  <2>2. CASE p = "agent" /\ todo'["agent"] = <<>>
    <3>1. Len(todo'["agent"]) = 0
      BY <2>2
    <3>. QED  BY <1>6, <3>1
  <2>3. CASE p = "agent" /\ todo'["agent"] = Tail(todo["agent"])
    BY <1>3, <1>6, <2>3, TailElements
  <2>4. todo \in [Process -> Seq(AgentStep \cup ApiStep)]
    BY DEF BInv, AInv, TodoTypes
  <2>. QED  BY <1>4, <2>1, <2>2, <2>3, <2>4 DEF Process
<1>7. p = "agent" => lsRefs' = lsRefs
  <2>. SUFFICES ASSUME p = "agent" PROVE lsRefs' = lsRefs
    OBVIOUS
  <2>1. CASE Apply(txn[p])
    <3>1. txn[p].lsRefs = {} /\ txn[p].drop = FALSE
      BY <1>1 DEF BInv, AInv, AgentWrites
    <3>. QED  BY <2>1, <3>1, WrittenOnce DEF Apply, BInv, AInv, TypeOK
  <2>2. CASE UNCHANGED nb
    BY <2>2 DEF nb
  <2>. QED  BY <1>2, <2>1, <2>2
<1>. QED  BY <1>1, <1>2, <1>5, <1>6, <1>7

LEMMA CommitHandlers ==
    ASSUME BInv, UNCHANGED world, NEW p \in Process, Commit(p)
    PROVE  Turns' /\ Exact("api")' /\ Exact("agent")' /\ Careful'
<1>1. /\ txn[p] # NoTxn /\ txn'[p] = NoTxn /\ UNCHANGED <<port, members, events>>
      /\ \A o \in Process \ {p} : txn'[o] = txn[o] /\ todo'[o] = todo[o]
      /\ \A i \in 1..Len(todo'["agent"]) :
            \E j \in 1..Len(todo["agent"]) : todo'["agent"][i] = todo["agent"][j]
      /\ p = "agent" => lsRefs' = lsRefs
  BY CommitRest
<1>2. Busy(p) /\ \A o \in Process \ {p} : Busy(o)' = Busy(o)
  BY <1>1 DEF Busy
<1>3. Turns'
  BY <1>1, <1>2 DEF Turns, Process, BInv, Columns
<1>4. world = "calm" => events = <<>> /\ \A o \in Process \ {p} : ~Busy(o)
  BY <1>2 DEF Turns, Process, BInv, Columns
<1>5. ASSUME NEW o \in Process PROVE Exact(o)'
  <2>1. CASE txn'[o] = NoTxn
    BY <2>1 DEF Exact
  <2>2. CASE txn'[o] # NoTxn
    <3>1. o # p /\ txn'[o] = txn[o] /\ todo'[o] = todo[o] /\ txn[o] # NoTxn
      BY <1>1, <1>5, <2>2
    <3>2. world # "calm"
      BY <1>4, <1>5, <3>1 DEF Busy
    <3>3. PICK step : step = Head(todo[o])
      OBVIOUS
    <3>4. ASSUME o = "api", step.do # "lr_add"
          PROVE  TxnOf(step)' = TxnOf(step)
      <4>1. lsRefs' = lsRefs
        BY <1>1, <3>1, <3>4 DEF Process
      <4>2. /\ step \in ApiStep
            /\ step.do \in {"ls_add", "ls_del", "lr_add", "lr_del", "lb_del"}
        BY <3>1, <3>3, <3>4, FirstStep DEF BInv, AInv, TodoTypes, Prepared
      <4>3. step.do \in {"ls_add", "ls_del", "lb_del"}
        BY <3>4, <4>2 DEF ApiStep, SwitchStep
      <4>. QED  BY <4>1, <4>3, TxnOfSwitch
    <3>5. Exact(o)
      BY <1>5 DEF BInv, Columns, Process
    <3>. QED  BY <3>1, <3>2, <3>3, <3>4, <3>5 DEF Exact
  <2>. QED  BY <2>1, <2>2
<1>6. Careful'
  <2>1. CASE p = "agent"
    <3>1. \A step : Spared(step)' = Spared(step)
      BY <1>1, <2>1, SparedFrame
    <3>2. \A step : Removal(step)' = Removal(step)
      BY DEF Removal
    <3>3. /\ \A i \in 1..Len(events) : /\ Spared(events[i])
                                       /\ world = "busy" => ~Removal(events[i])
          /\ \A i \in 1..Len(todo["agent"]) :
                /\ Spared(todo["agent"][i])
                /\ world = "busy" => ~Removal(todo["agent"][i])
      BY DEF BInv, Columns, Careful
    <3>4. \A i \in 1..Len(todo'["agent"]) :
                /\ Spared(todo'["agent"][i])
                /\ world = "busy" => ~Removal(todo'["agent"][i])
      BY <1>1, <3>3
    <3>. QED  BY <1>1, <3>1, <3>2, <3>3, <3>4 DEF Careful
  <2>2. CASE p = "api" /\ world = "busy"
    <3>1. \A step : ~Removal(step) => Spared(step)'
      BY SparedNext
    <3>2. /\ \A i \in 1..Len(events') : ~Removal(events'[i])
          /\ \A i \in 1..Len(todo'["agent"]) : ~Removal(todo'["agent"][i])
      BY <1>1, <2>2, Busiest
    <3>. QED  BY <3>1, <3>2 DEF Careful, Removal
  <2>3. CASE p = "api" /\ world = "calm"
    <3>1. Len(events') = 0
      <4>1. events' = <<>>
        BY <1>1, <1>4, <2>3
      <4>. QED  BY <4>1
    <3>2. Len(todo'["agent"]) = 0
      <4>1. todo'["agent"] = <<>>
        BY <1>1, <1>4, <2>3 DEF Busy, Process
      <4>. QED  BY <4>1
    <3>. QED  BY <3>1, <3>2 DEF Careful
  <2>. QED  BY <2>1, <2>2, <2>3, Worldly DEF Process, BInv
<1>. QED  BY <1>3, <1>5, <1>6 DEF Process

LEMMA CommitColumns ==
    ASSUME BInv, AInv', UNCHANGED world, NEW p \in Process, Commit(p)
    PROVE  Columns'
<1>1. /\ txn[p] # NoTxn /\ txn'[p] = NoTxn
      /\ \A o \in Process \ {p} : txn'[o] = txn[o] /\ todo'[o] = todo[o]
      /\ \/ txn[p].lb \in live /\ Apply(txn[p])
         \/ txn[p].lb \notin live /\ UNCHANGED nb
  BY CommitRest
<1>2. RouterTexts' /\ Attached'
  <2>1. CASE txn[p].lb \notin live /\ UNCHANGED nb
    <3>1. \A lb : On(lb)' = On(lb)
      BY <2>1 DEF On, nb
    <3>2. RouterTexts'
      BY <1>1, <2>1, <3>1 DEF BInv, Columns, RouterTexts, nb
    <3>3. Attached'
      BY <2>1 DEF BInv, Columns, Attached, nb
    <3>. QED  BY <3>2, <3>3
  <2>2. CASE txn[p].lb \in live /\ Apply(txn[p])
    <3>1. PICK t : t = txn[p]
      OBVIOUS
    <3>2. PICK step : step = Head(todo[p])
      OBVIOUS
    <3>3. Committed(p, step, t)
      BY <1>1, <3>1, <3>2, CommittedTxn
    <3>4. Apply(t) /\ t.lb \in live /\ t \in Transaction /\ t.drop \in BOOLEAN
      BY <2>2, <3>1, <3>3 DEF Committed, Transaction
    <3>5. /\ \A b \in Lb : b # t.lb =>
                /\ On(b)' = On(b) /\ lrRef'[b] = lrRef[b] /\ lsRefs'[b] = lsRefs[b]
                /\ b \in live' <=> b \in live
                /\ \A s \in Switch : b \in lsLb'[s] <=> b \in lsLb[s]
          /\ t.lb \in Lb /\ On(t.lb)' = (On(t.lb) \ t.noLr) \cup t.lr
          /\ t.drop = FALSE => live' = live
          /\ t.drop = TRUE => live' = live \ {t.lb} /\ lrRef'[t.lb] = {}
      BY <3>4, ApplyColumns DEF BInv
    <3>6. t.lb \in live' =>
             /\ lrRef'[t.lb] \subseteq On(t.lb)'
             /\ world = "calm" => lrRef'[t.lb] = On(t.lb)'
             /\ \A s \in Switch :
                   (t.lb \in Compact \/ world = "busy") /\ lsRefs'[t.lb][s] > 0
                       => t.lb \in lsLb'[s]
             /\ world = "busy" => On(t.lb) \subseteq On(t.lb)'
      BY <1>1, <3>1, <3>2, <3>4, CommittedRow
    <3>7. t.lb \notin live' => lrRef'[t.lb] = {} /\ On(t.lb)' = {}
      <4>. SUFFICES ASSUME t.lb \notin live' PROVE lrRef'[t.lb] = {} /\ On(t.lb)' = {}
        OBVIOUS
      <4>1. t.drop = TRUE /\ lrRef'[t.lb] = {}
        BY <3>4, <3>5
      <4>2. step.do = "lb_del" /\ t = TxnOf(step)
        BY <3>3, <4>1 DEF Committed
      <4>3. t.noLr = Router /\ t.lr = {}
        BY <4>2, TxnShape
      <4>4. On(t.lb) \subseteq Router
        BY DEF On
      <4>. QED  BY <3>5, <4>1, <4>3, <4>4
    <3>8. live' \subseteq Lb /\ live \subseteq Lb
      BY DEF BInv, AInv, TypeOK
    <3>9. /\ \A b \in Lb \ live' : lrRef'[b] = {} /\ On(b)' = {}
          /\ \A b \in live' : /\ lrRef'[b] \subseteq On(b)'
                              /\ world = "calm" => lrRef'[b] = On(b)'
      <4>1. ASSUME NEW b \in Lb \ live' PROVE lrRef'[b] = {} /\ On(b)' = {}
        <5>1. CASE b = t.lb
          BY <3>7, <4>1, <5>1
        <5>2. CASE b # t.lb
          BY <3>5, <4>1, <5>2 DEF BInv, Columns, RouterTexts
        <5>. QED  BY <5>1, <5>2
      <4>2. ASSUME NEW b \in live'
            PROVE  lrRef'[b] \subseteq On(b)' /\ (world = "calm" => lrRef'[b] = On(b)')
        <5>1. CASE b = t.lb
          BY <3>6, <4>2, <5>1
        <5>2. CASE b # t.lb
          BY <3>5, <3>8, <4>2, <5>2 DEF BInv, Columns, RouterTexts
        <5>. QED  BY <5>1, <5>2
      <4>. QED  BY <4>1, <4>2
    <3>10. ASSUME NEW o \in Process, txn'[o] # NoTxn, NEW b \in live', b = txn'[o].lb,
                  NEW text \in txn'[o].lrRef
           PROVE  text \subseteq On(b)' \cup txn'[o].lr
      <4>1. o # p /\ txn'[o] = txn[o] /\ Busy(p) /\ Busy(o)
        BY <1>1, <3>10 DEF Busy
      <4>2. world = "busy"
        BY <4>1, Worldly DEF BInv, Columns, Turns, Process
      <4>3. b \in live
        BY <3>4, <3>5, <3>8, <3>10
      <4>4. text \subseteq On(b) \cup txn[o].lr
        BY <3>10, <4>1, <4>3 DEF BInv, Columns, RouterTexts
      <4>5. On(b) \subseteq On(b)'
        BY <3>5, <3>6, <3>8, <3>10, <4>2
      <4>. QED  BY <4>1, <4>4, <4>5
    <3>11. RouterTexts'
      BY <3>9, <3>10 DEF RouterTexts
    <3>12. ASSUME NEW b \in live', NEW s \in Switch, b \in Compact \/ world = "busy",
                  lsRefs'[b][s] > 0
           PROVE  b \in lsLb'[s]
      <4>1. CASE b = t.lb
        BY <3>6, <3>12, <4>1
      <4>2. CASE b # t.lb
        BY <3>5, <3>8, <3>12, <4>2 DEF BInv, Columns, Attached
      <4>. QED  BY <4>1, <4>2
    <3>13. Attached'
      BY <3>12 DEF Attached, Compact
    <3>. QED  BY <3>11, <3>13
  <2>. QED  BY <1>1, <2>1, <2>2
<1>. QED  BY <1>2, CommitHandlers DEF Columns

-----------------------------------------------------------------------------
(* The theorems about the columns                                          *)

LEMMA InitColumns == Init => BInv
<1>. SUFFICES ASSUME Init PROVE BInv
  OBVIOUS
<1>1. AInv
  BY InitCounts
<1>2. /\ events = <<>> /\ todo["agent"] = <<>> /\ todo["api"] = <<>>
      /\ txn["agent"] = NoTxn /\ txn["api"] = NoTxn
      /\ live = {} /\ lrRef = [lb \in Lb |-> {}] /\ lrLb = [r \in Router |-> {}]
  BY DEF Init, Process
<1>3. Len(events) = 0 /\ Len(todo["agent"]) = 0
  <2>1. Len(<<>>) = 0
    OBVIOUS
  <2>. QED  BY <1>2, <2>1
<1>4. Turns /\ Exact("api") /\ Exact("agent")
  BY <1>2, <1>3 DEF Turns, Busy, Exact
<1>5. Careful
  BY <1>3 DEF Careful
<1>6. RouterTexts /\ Attached
  BY <1>2 DEF RouterTexts, On, Attached, Process
<1>. QED  BY <1>1, <1>4, <1>5, <1>6 DEF BInv, Columns

LEMMA NextColumns ==
    ASSUME BInv, [Next]_vars
    PROVE  BInv'
<1>1. AInv'
  BY NextCounts DEF BInv
<1>2. CASE Next
  <2>1. UNCHANGED world
    BY <1>2 DEF Next
  <2>2. ASSUME NEW p \in Process, Prepare(p) \/ Commit(p) \/ FindRouter(p)
        PROVE  Columns'
    BY <1>1, <2>1, <2>2, PrepareColumns, CommitColumns, FindColumns, FindRouterAgent
       DEF Process, BInv
  <2>3. ASSUME TakeEvent \/ LrpCreated \/ LrpDeleted
        PROVE  Columns'
    BY <2>1, <2>3, TakeEventColumns, LrpCreatedColumns, LrpDeletedColumns
  <2>4. ASSUME NEW lb \in Lb, LbCreate(lb) \/ LbDelete(lb)
        PROVE  Columns'
    BY <2>1, <2>4, CreateColumns, RequestsColumns DEF LbDelete
  <2>5. ASSUME NEW m \in Member, MemberAdd(m) \/ MemberRemove(m)
        PROVE  Columns'
    BY <2>1, <2>5, RequestsColumns DEF MemberAdd, MemberRemove
  <2>6. ASSUME NEW r \in Router, NEW s \in Switch, PortCreate(r, s) \/ PortDelete(r, s)
        PROVE  Columns'
    BY <1>1, <2>1, <2>6, PortCreateColumns, PortDeleteColumns
  <2>7. Columns'
    BY <1>2, <2>2, <2>3, <2>4, <2>5, <2>6 DEF Next
  <2>. QED  BY <1>1, <2>7 DEF BInv
<1>3. CASE UNCHANGED vars
  <2>1. /\ \A step : Spared(step)' = Spared(step) /\ Removal(step)' = Removal(step)
        /\ \A step : TxnOf(step)' = TxnOf(step)
        /\ \A lb : On(lb)' = On(lb)
        /\ \A p : Busy(p)' = Busy(p)
    BY <1>3, SparedFrame, TxnOfFrame DEF vars, nb, On, Busy, Removal
  <2>2. Turns' /\ Exact("api")' /\ Exact("agent")'
    BY <1>3, <2>1 DEF vars, nb, BInv, Columns, Turns, Exact
  <2>3. Careful'
    BY <1>3, <2>1 DEF vars, nb, BInv, Columns, Careful
  <2>4. RouterTexts' /\ Attached'
    BY <1>3, RoutersFrame DEF vars
  <2>. QED  BY <1>1, <2>2, <2>3, <2>4 DEF BInv, Columns
<1>. QED  BY <1>2, <1>3

\* The columns, between any two steps of the handlers.
THEOREM ColumnInvariance == Spec => []BInv
<1>. QED  BY InitColumns, NextColumns, PTL DEF Spec

\* At every quiet moment a row is on every switch it has a reference to, when its
\* members share the switch of its VIP or when router ports are only created: what
\* lb_delete_lrp_assoc takes off a switch has no reference to it.
THEOREM AttachedStays == Spec => []StaysAssociated
<1>1. ASSUME BInv PROVE StaysAssociated
  BY <1>1 DEF BInv, Columns, Attached, StaysAssociated
<1>. QED  BY <1>1, ColumnInvariance, PTL

\* At every quiet moment lr_ref names only routers that have the row and, in a calm
\* world, all of them: _lb_delete finds in it every router to leave.
THEOREM RoutersAgree == Spec => []RouterRefsAgree
<1>1. ASSUME BInv PROVE RouterRefsAgree
  BY <1>1 DEF BInv, Columns, RouterTexts, RouterRefsAgree, On
<1>. QED  BY <1>1, ColumnInvariance, PTL

-----------------------------------------------------------------------------
(* The places                                                              *)

\* Where a compact row belongs when the router ports are P.
Home(lb, P) == IF VipSwitch[lb] \in External THEN {}
               ELSE {r \in Router : <<r, VipSwitch[lb]>> \in P}
Place(lb, P) == {s \in Switch \ External :
                    s = VipSwitch[lb] \/ \E r \in Home(lb, P) : <<r, s>> \in P}

Switches(lb) == {s \in Switch : lb \in lsLb[s]}
Settled(lb, P) == On(lb) = Home(lb, P) /\ Switches(lb) = Place(lb, P)
Partial(lb) == On(lb) \subseteq Home(lb, port) /\ Switches(lb) \subseteq Place(lb, port)

\* A transaction brings the row where it belongs.
SettledBy(lb, t) ==
    /\ (On(lb) \ t.noLr) \cup t.lr = Home(lb, port)
    /\ (Switches(lb) \ t.noLs) \cup t.ls = Place(lb, port)

OneRouter(P) ==
    \A s \in Switch \ External, r1, r2 \in Router :
        <<r1, s>> \in P /\ <<r2, s>> \in P => r1 = r2

\* Events the agent has not looked at, and the router ports before them.
IsEvent(step) == step.do \in {"lrp_created", "lrp_deleted"}
Pending == {events[i] : i \in 1..Len(events)}
           \cup {x \in {todo["agent"][i] : i \in 1..Len(todo["agent"])} : IsEvent(x)}
Before(e) == IF e.do = "lrp_created" THEN port \ {<<e.r, e.s>>}
             ELSE port \cup {<<e.r, e.s>>}

Heard == \A e \in Pending :
            /\ e.do = "lrp_created" => <<e.r, e.s>> \in port
            /\ e.do = "lrp_deleted" => <<e.r, e.s>> \notin port
            /\ OneRouter(Before(e))

\* What the agent has listed: one step for a row, and the row is there.
Lists ==
    LET q == todo["agent"]
    IN  /\ (\E i \in 1..Len(q) : IsEvent(q[i])) => Len(q) = 1
        /\ \A i \in 1..Len(q) : ~IsEvent(q[i]) =>
              /\ q[i].lb \in live
              /\ \A j \in 1..Len(q) : j # i => q[j].lb # q[i].lb

\* The API worker attaches a compact row at the switch of its VIP, and looks for
\* the router next.
Directed ==
    LET q == todo["api"]
    IN  /\ Len(q) = 1 => q[1].do # "ls_add"
        /\ \A i \in 1..Len(q) : q[i].lb = q[1].lb
        /\ \A i \in 1..Len(q) : q[i].lb \in Compact =>
              /\ q[i].do \in {"ls_add", "ls_del", "find_lr"} =>
                    q[i].s = VipSwitch[q[i].lb]
              /\ q[i].do \in {"ls_add", "ls_del"} => q[i].s \notin External
              /\ q[i].do = "lr_add" => q[i].r \in RoutersOf(VipSwitch[q[i].lb])

Adding(lb) == /\ todo["api"] # <<>> /\ Head(todo["api"]).lb = lb
              /\ Head(todo["api"]).do \in {"ls_add", "find_lr", "lr_add"}

Listed(lb) == {x \in {todo["agent"][i] : i \in 1..Len(todo["agent"])} :
                  ~IsEvent(x) /\ x.lb = lb}

Placed ==
    \A lb \in live \cap Compact :
        /\ \A e \in Pending : Settled(lb, Before(e))
        /\ \A x \in Listed(lb) : SettledBy(lb, TxnOf(x))
        /\ Adding(lb) => Partial(lb)
        /\ Pending = {} /\ Listed(lb) = {} /\ ~Adding(lb) => Settled(lb, port)

LiveOnly == \A s \in Switch : lsLb[s] \subseteq live

Placements ==
    world = "calm" =>
        OneRouter(port) /\ Heard /\ Lists /\ Directed /\ Placed

DInv == BInv /\ LiveOnly /\ Placements

-----------------------------------------------------------------------------
(* Frames, and where requests start                                        *)

LEMMA IdleAgent ==
    ASSUME AInv, events = <<>>, todo["agent"] = <<>>
    PROVE  Pending = {} /\ \A lb : Listed(lb) = {}
<1>1. Len(events) = 0 /\ Len(todo["agent"]) = 0
  <2>1. Len(<<>>) = 0
    OBVIOUS
  <2>. QED  BY <2>1
<1>. QED  BY <1>1 DEF Pending, Listed

\* In a calm world whoever is at work is so alone.
LEMMA Alone ==
    ASSUME DInv, world = "calm"
    PROVE  /\ OneRouter(port) /\ Heard /\ Lists /\ Directed /\ Placed
           /\ Busy("api") \/ MayMove => events = <<>> /\ todo["agent"] = <<>>
           /\ Busy("agent") \/ events # <<>> \/ MayMove => todo["api"] = <<>>
           /\ Busy("agent") => events = <<>>
<1>1. Turns /\ OneRouter(port) /\ Heard /\ Lists /\ Directed /\ Placed
  BY DEF DInv, Placements, BInv, Columns
<1>2. MayMove => events = <<>> /\ ~Busy("api") /\ ~Busy("agent")
  BY MayMoveCalm DEF Process
<1>. QED  BY <1>1, <1>2 DEF Turns, Busy

LEMMA DirectedFrame ==
    ASSUME Directed, port' = port, todo'["api"] = todo["api"]
    PROVE  Directed'
BY DEF Directed, RoutersOf

\* Nothing the places of rows depend on is touched.
LEMMA PlacesFrame ==
    ASSUME DInv, UNCHANGED <<world, port, events, todo, nb>>
    PROVE  LiveOnly' /\ Placements'
<1>1. LiveOnly'
  BY DEF DInv, LiveOnly, nb
<1>2. Pending' = Pending /\ \A lb : Listed(lb)' = Listed(lb)
  BY DEF Pending, Listed
<1>3. \A lb : /\ On(lb)' = On(lb) /\ Switches(lb)' = Switches(lb)
              /\ Adding(lb)' = Adding(lb)
  BY DEF On, Switches, Adding, nb
<1>4. \A x : TxnOf(x)' = TxnOf(x) /\ Before(x)' = Before(x)
  BY TxnOfFrame DEF nb, Before
<1>5. ASSUME world = "calm" PROVE Heard' /\ Lists' /\ Directed' /\ OneRouter(port)'
  <2>1. OneRouter(port) /\ Heard /\ Lists /\ Directed
    BY <1>5, Alone
  <2>2. Directed'
    BY <2>1, DirectedFrame
  <2>3. Lists'
    BY <2>1 DEF Lists, nb
  <2>4. Heard'
    BY <1>2, <1>4, <2>1 DEF Heard
  <2>5. OneRouter(port)'
    BY <2>1 DEF OneRouter
  <2>. QED  BY <2>2, <2>3, <2>4, <2>5
<1>6. ASSUME world = "calm" PROVE Placed'
  <2>. SUFFICES ASSUME NEW lb \in live \cap Compact
                PROVE  /\ \A e \in Pending : Settled(lb, Before(e))'
                       /\ \A x \in Listed(lb) : SettledBy(lb, TxnOf(x))'
                       /\ Adding(lb) => Partial(lb)'
                       /\ Pending = {} /\ Listed(lb) = {} /\ ~Adding(lb)
                              => Settled(lb, port)'
    BY <1>2, <1>3 DEF Placed, nb, Compact
  <2>1. /\ \A e \in Pending : Settled(lb, Before(e))
        /\ \A x \in Listed(lb) : SettledBy(lb, TxnOf(x))
        /\ Adding(lb) => Partial(lb)
        /\ Pending = {} /\ Listed(lb) = {} /\ ~Adding(lb) => Settled(lb, port)
    BY <1>6, Alone DEF Placed
  <2>2. \A P : Settled(lb, P) => On(lb)' = Home(lb, P) /\ Switches(lb)' = Place(lb, P)
    BY <1>3 DEF Settled
  <2>. QED  BY <1>3, <1>4, <2>1, <2>2 DEF Settled, SettledBy, Partial
<1>. QED  BY <1>1, <1>5, <1>6 DEF Placements

\* While the agent is idle only the API worker can have a row out of its place.
LEMMA ApiPlaces ==
    ASSUME DInv, AInv', UNCHANGED <<world, port>>, world = "calm",
           events = <<>>, todo["agent"] = <<>>,
           events' = events, todo'["agent"] = todo["agent"],
           Directed',
           \A lb \in live' \cap Compact : Adding(lb)' => Partial(lb)',
           \A lb \in live' \cap Compact : ~Adding(lb)' => Settled(lb, port)'
    PROVE  Placements'
<1>1. OneRouter(port)'
  BY Alone DEF OneRouter
<1>2. Len(events') = 0 /\ Len(todo'["agent"]) = 0
  <2>1. Len(<<>>) = 0
    OBVIOUS
  <2>. QED  BY <2>1
<1>3. Pending' = {} /\ \A lb : Listed(lb)' = {}
  BY <1>2 DEF Pending, Listed
<1>4. Heard' /\ Lists'
  BY <1>2, <1>3 DEF Heard, Lists
<1>5. Placed'
  BY <1>3 DEF Placed, Compact
<1>. QED  BY <1>1, <1>4, <1>5 DEF Placements

\* A row that is not there is nowhere.
LEMMA NoRow ==
    ASSUME DInv, NEW lb \in Lb \ live
    PROVE  On(lb) = {} /\ Switches(lb) = {}
BY DEF DInv, LiveOnly, BInv, Columns, RouterTexts, Switches

\* A request starts where every row is in its place.
LEMMA StartPlaces ==
    ASSUME DInv, AInv', UNCHANGED <<world, port, events, lsLb, lrLb>>, MayMove,
           todo'["agent"] = todo["agent"], live \subseteq live',
           \A lb \in live' \ live : Adding(lb)', world = "calm" => Directed'
    PROVE  LiveOnly' /\ Placements'
<1>1. LiveOnly'
  BY DEF DInv, LiveOnly
<1>2. ASSUME world = "calm" PROVE Placements'
  <2>1. events = <<>> /\ todo["agent"] = <<>> /\ todo["api"] = <<>>
    BY <1>2, Alone
  <2>2. Pending = {} /\ \A lb : Listed(lb) = {} /\ ~Adding(lb)
    BY <2>1, IdleAgent DEF DInv, BInv, Adding
  <2>3. ASSUME NEW lb \in live \cap Compact
        PROVE  Settled(lb, port)
    BY <1>2, <2>2, Alone DEF Placed
  <2>4. \A lb : On(lb)' = On(lb) /\ Switches(lb)' = Switches(lb)
    BY DEF On, Switches
  <2>5. \A lb \in live \cap Compact : Settled(lb, port)' /\ Partial(lb)'
    BY <2>3, <2>4 DEF Settled, Partial
  <2>6. \A lb \in live' \ live : lb \in Lb
    BY DEF AInv, TypeOK
  <2>7. \A lb \in live' \ live : Partial(lb)'
    BY <2>4, <2>6, NoRow DEF Partial
  <2>8. \A lb \in live' \cap Compact : Adding(lb)' => Partial(lb)'
    BY <2>5, <2>7
  <2>9. \A lb \in live' \cap Compact : ~Adding(lb)' => Settled(lb, port)'
    BY <2>5
  <2>. QED  BY <1>2, <2>1, <2>8, <2>9, ApiPlaces
<1>. QED  BY <1>1, <1>2 DEF Placements

-----------------------------------------------------------------------------
(* Requests of users                                                       *)

LEMMA DirectedNext ==
    ASSUME NEW q \in Seq(ApiStep), todo'["api"] = q, port' = port, NEW lb,
           Len(q) = 1 => q[1].do # "ls_add",
           \A i \in 1..Len(q) :
              /\ q[i].lb = lb
              /\ lb \in Compact =>
                    /\ q[i].do \in {"ls_add", "ls_del", "find_lr"} => q[i].s = VipSwitch[lb]
                    /\ q[i].do \in {"ls_add", "ls_del"} => q[i].s \notin External
                    /\ q[i].do = "lr_add" => q[i].r \in RoutersOf(VipSwitch[lb])
    PROVE  Directed'
<1>1. \A s : RoutersOf(s)' = RoutersOf(s)
  BY DEF RoutersOf
<1>2. \A i \in 1..Len(q) : 1 \in 1..Len(q)
  BY LenProperties
<1>. QED  BY <1>1, <1>2 DEF Directed, Compact

LEMMA RequestIs ==
    ASSUME AInv, NEW q, Request(q)
    PROVE  /\ MayMove /\ UNCHANGED <<port, events, txn>>
           /\ todo'["api"] = q /\ todo'["agent"] = todo["agent"]
BY DEF Request, AInv, TodoTypes, Process

LEMMA OneElement ==
    ASSUME NEW S, NEW x \in S
    PROVE  /\ <<x>> \in Seq(S) /\ Len(<<x>>) = 1 /\ <<x>>[1] = x
           /\ \A i \in 1..Len(<<x>>) : <<x>>[i] = x
OBVIOUS

LEMMA TwoElements ==
    ASSUME NEW S, NEW x \in S, NEW y \in S
    PROVE  /\ <<x, y>> \in Seq(S) /\ Len(<<x, y>>) = 2
           /\ \A i \in 1..Len(<<x, y>>) : <<x, y>>[i] \in {x, y}
           /\ <<x, y>> # <<>> /\ Head(<<x, y>>) = x
OBVIOUS

LEMMA LbDeletePlaces ==
    ASSUME DInv, AInv', UNCHANGED world, NEW lb \in Lb, LbDelete(lb)
    PROVE  LiveOnly' /\ Placements'
<1>1. PICK x : x = [do |-> "lb_del", lb |-> lb]
  OBVIOUS
<1>2. x \in ApiStep /\ x.do = "lb_del" /\ x.lb = lb
  BY <1>1 DEF ApiStep
<1>3. Request(<<x>>) /\ UNCHANGED nb
  BY <1>1 DEF LbDelete
<1>4. /\ MayMove /\ UNCHANGED <<port, events>> /\ todo'["agent"] = todo["agent"]
      /\ todo'["api"] = <<x>>
  BY <1>3, RequestIs DEF DInv, BInv
<1>5. <<x>> \in Seq(ApiStep) /\ \A i \in 1..Len(<<x>>) : <<x>>[i] = x
  BY <1>2, OneElement
<1>6. Directed'
  BY <1>2, <1>4, <1>5, DirectedNext
<1>. QED  BY <1>3, <1>4, <1>6, StartPlaces DEF nb

LEMMA MemberSwitch ==
    ASSUME NEW m \in Member
    PROVE  /\ LbOf[m] \in Lb /\ SwitchOf[m] \in Switch \ External
           /\ LbOf[m] \in Compact => SwitchOf[m] = VipSwitch[LbOf[m]]
BY AssociationAssumption DEF Compact

LEMMA MemberAddPlaces ==
    ASSUME DInv, AInv', UNCHANGED world, NEW m \in Member, MemberAdd(m)
    PROVE  LiveOnly' /\ Placements'
<1>1. PICK x, y : /\ x = LsAddStep(LbOf[m], SwitchOf[m], TRUE)
                  /\ y = [do |-> "find_lr", lb |-> LbOf[m], s |-> SwitchOf[m]]
  OBVIOUS
<1>2. /\ x \in ApiStep /\ x.do = "ls_add" /\ x.lb = LbOf[m] /\ x.s = SwitchOf[m]
      /\ y \in ApiStep /\ y.do = "find_lr" /\ y.lb = LbOf[m] /\ y.s = SwitchOf[m]
  BY <1>1, MemberSwitch DEF ApiStep, SwitchStep, LsAddStep
<1>3. Request(<<x, y>>) /\ UNCHANGED nb
  BY <1>1 DEF MemberAdd
<1>4. /\ MayMove /\ UNCHANGED <<port, events>> /\ todo'["agent"] = todo["agent"]
      /\ todo'["api"] = <<x, y>>
  BY <1>3, RequestIs DEF DInv, BInv
<1>5. <<x, y>> \in Seq(ApiStep) /\ \A i \in 1..Len(<<x, y>>) : <<x, y>>[i] \in {x, y}
  BY <1>2, TwoElements
<1>6. Directed'
  <2>1. PICK q, b : q = <<x, y>> /\ b = LbOf[m]
    OBVIOUS
  <2>2. b \in Compact => SwitchOf[m] = VipSwitch[b]
    BY <2>1, MemberSwitch
  <2>3. SwitchOf[m] \notin External
    BY MemberSwitch
  <2>4. \A i \in 1..Len(q) :
           /\ q[i].lb = b
           /\ b \in Compact =>
                 /\ q[i].do \in {"ls_add", "ls_del", "find_lr"} => q[i].s = VipSwitch[b]
                 /\ q[i].do \in {"ls_add", "ls_del"} => q[i].s \notin External
                 /\ q[i].do = "lr_add" => q[i].r \in RoutersOf(VipSwitch[b])
    BY <1>2, <1>5, <2>1, <2>2, <2>3
  <2>5. q \in Seq(ApiStep) /\ todo'["api"] = q /\ port' = port
    BY <1>4, <1>5, <2>1
  <2>6. Len(q) = 1 => q[1].do # "ls_add"
    BY <1>2, <2>1, TwoElements
  <2>. QED  BY <2>4, <2>5, <2>6, DirectedNext
<1>. QED  BY <1>3, <1>4, <1>6, StartPlaces DEF nb

LEMMA MemberRemovePlaces ==
    ASSUME DInv, AInv', UNCHANGED world, NEW m \in Member, MemberRemove(m)
    PROVE  LiveOnly' /\ Placements'
<1>1. PICK x : x = LsDelStep(LbOf[m], SwitchOf[m], TRUE)
  OBVIOUS
<1>2. x \in ApiStep /\ x.do = "ls_del" /\ x.lb = LbOf[m] /\ x.s = SwitchOf[m]
  BY <1>1, MemberSwitch DEF ApiStep, SwitchStep, LsDelStep
<1>3. Request(<<x>>) /\ UNCHANGED nb
  BY <1>1 DEF MemberRemove
<1>4. /\ MayMove /\ UNCHANGED <<port, events>> /\ todo'["agent"] = todo["agent"]
      /\ todo'["api"] = <<x>>
  BY <1>3, RequestIs DEF DInv, BInv
<1>5. <<x>> \in Seq(ApiStep) /\ \A i \in 1..Len(<<x>>) : <<x>>[i] = x
  BY <1>2, OneElement
<1>6. Directed'
  <2>1. PICK q, b : q = <<x>> /\ b = LbOf[m]
    OBVIOUS
  <2>2. b \in Compact => SwitchOf[m] = VipSwitch[b]
    BY <2>1, MemberSwitch
  <2>3. SwitchOf[m] \notin External
    BY MemberSwitch
  <2>4. \A i \in 1..Len(q) :
           /\ q[i].lb = b
           /\ b \in Compact =>
                 /\ q[i].do \in {"ls_add", "ls_del", "find_lr"} => q[i].s = VipSwitch[b]
                 /\ q[i].do \in {"ls_add", "ls_del"} => q[i].s \notin External
                 /\ q[i].do = "lr_add" => q[i].r \in RoutersOf(VipSwitch[b])
    BY <1>2, <1>5, <2>1, <2>2, <2>3
  <2>5. q \in Seq(ApiStep) /\ todo'["api"] = q /\ port' = port
    BY <1>4, <1>5, <2>1
  <2>6. Len(q) = 1 => q[1].do # "ls_add"
    BY <1>2, <2>1, OneElement
  <2>. QED  BY <2>4, <2>5, <2>6, DirectedNext
<1>. QED  BY <1>3, <1>4, <1>6, StartPlaces DEF nb

LEMMA LbCreatePlaces ==
    ASSUME DInv, AInv', UNCHANGED world, NEW lb \in Lb, LbCreate(lb)
    PROVE  LiveOnly' /\ Placements'
<1>1. PICK s, x, y : /\ s = VipSwitch[lb] /\ x = LsAddStep(lb, s, TRUE)
                     /\ y = [do |-> "find_lr", lb |-> lb, s |-> s]
  OBVIOUS
<1>2. /\ x \in ApiStep /\ x.do = "ls_add" /\ x.lb = lb /\ x.s = VipSwitch[lb]
      /\ y \in ApiStep /\ y.do = "find_lr" /\ y.lb = lb /\ y.s = VipSwitch[lb]
  <2>1. s \in Switch
    BY <1>1, AssociationAssumption
  <2>. QED  BY <1>1, <2>1 DEF ApiStep, SwitchStep, LsAddStep
<1>3. Request(IF s \in External THEN <<y>> ELSE <<x>> \o <<y>>)
      /\ live' = live \cup {lb} /\ UNCHANGED <<lsLb, lrLb>>
  BY <1>1 DEF LbCreate
<1>4. PICK q : q = IF s \in External THEN <<y>> ELSE <<x, y>>
  OBVIOUS
<1>5. Request(q)
  <2>1. <<x>> \o <<y>> = <<x, y>>
    BY Pair
  <2>. QED  BY <1>3, <1>4, <2>1
<1>6. /\ MayMove /\ UNCHANGED <<port, events>> /\ todo'["agent"] = todo["agent"]
      /\ todo'["api"] = q
  BY <1>5, RequestIs DEF DInv, BInv
<1>7. /\ q \in Seq(ApiStep) /\ q # <<>> /\ Head(q) \in {x, y}
      /\ Len(q) = 1 => q[1] = y
      /\ \A i \in 1..Len(q) : q[i] = y \/ (q[i] = x /\ s \notin External)
  <2>1. CASE s \in External
    BY <1>2, <1>4, <2>1, OneElement
  <2>2. CASE s \notin External
    BY <1>2, <1>4, <2>2, TwoElements
  <2>. QED  BY <2>1, <2>2
<1>8. Directed'
  <2>1. \A i \in 1..Len(q) :
           /\ q[i].lb = lb
           /\ lb \in Compact =>
                 /\ q[i].do \in {"ls_add", "ls_del", "find_lr"} => q[i].s = VipSwitch[lb]
                 /\ q[i].do \in {"ls_add", "ls_del"} => q[i].s \notin External
                 /\ q[i].do = "lr_add" => q[i].r \in RoutersOf(VipSwitch[lb])
    BY <1>1, <1>2, <1>7
  <2>2. port' = port
    BY <1>6
  <2>3. Len(q) = 1 => q[1].do # "ls_add"
    BY <1>2, <1>7
  <2>. QED  BY <1>6, <1>7, <2>1, <2>2, <2>3, DirectedNext
<1>9. \A b \in live' \ live : Adding(b)'
  BY <1>2, <1>3, <1>6, <1>7 DEF Adding
<1>. QED  BY <1>3, <1>6, <1>8, <1>9, StartPlaces

\* A row that nothing is due to, with a VIP that counts, is on the switch of its VIP.
LEMMA VipAttached ==
    ASSUME BInv, NEW lb \in live \cap Compact, VipSwitch[lb] \notin External,
           \A s \in Switch : Due("ls_add", lb, s) = 0
    PROVE  /\ VipSwitch[lb] \in Switch /\ lb \in lsLb[VipSwitch[lb]]
           /\ lsRefs[lb][VipSwitch[lb]] >= 1 + Due("ls_del", lb, VipSwitch[lb])
<1>. DEFINE v == VipSwitch[lb]
<1>1. v \in Switch /\ lsRefs[lb][v] \in Nat
  BY AssociationAssumption DEF Compact, BInv, AInv, TypeOK
<1>2. Needed(lb, v) >= 1 /\ Needed(lb, v) \in Nat
  <2>1. IsFiniteSet(Users(lb, v))
    BY FS_Subset DEF BInv, AInv, Finite, Users
  <2>2. Cardinality(Users(lb, v)) \in Nat
    BY <2>1, FS_CardinalityType
  <2>. QED  BY <2>2 DEF Needed
<1>3. lsRefs[lb][v] + Due("ls_add", lb, v) = Needed(lb, v) + Due("ls_del", lb, v)
  BY <1>1 DEF BInv, AInv, Counts
<1>4. Due("ls_del", lb, v) \in {0, 1} /\ Due("ls_add", lb, v) = 0
  BY <1>1 DEF Due
<1>. HIDE DEF v
<1>5. lsRefs[lb][v] >= 1 + Due("ls_del", lb, v) /\ lsRefs[lb][v] > 0
  BY <1>1, <1>2, <1>3, <1>4
<1>6. lb \in lsLb[v]
  BY <1>1, <1>5 DEF BInv, Columns, Attached
<1>. QED  BY <1>1, <1>5, <1>6 DEF v

LEMMA HomeIsRouters ==
    ASSUME NEW lb \in Compact
    PROVE  /\ Home(lb, port) = RoutersOf(VipSwitch[lb])
           /\ Place(lb, port) = {s \in Switch \ External :
                 s = VipSwitch[lb] \/ \E r \in RoutersOf(VipSwitch[lb]) : s \in SwitchesOf(r)}
BY DEF Home, Place, RoutersOf, SwitchesOf, Ports

-----------------------------------------------------------------------------
(* Looking for the router                                                  *)

\* What the first step of the API worker is directed at.
LEMMA DirectedHead ==
    ASSUME BInv, Directed, todo["api"] # <<>>, NEW step, step = Head(todo["api"])
    PROVE  /\ step \in ApiStep /\ step.lb \in live
           /\ step.lb \in Compact =>
                 /\ step.do \in {"ls_add", "ls_del", "find_lr"} => step.s = VipSwitch[step.lb]
                 /\ step.do \in {"ls_add", "ls_del"} => step.s \notin External
                 /\ step.do = "lr_add" => step.r \in RoutersOf(VipSwitch[step.lb])
           /\ \A i \in 1..Len(todo["api"]) : todo["api"][i].lb = step.lb
           /\ \A lb : Adding(lb) <=> lb = step.lb /\ step.do \in {"ls_add", "find_lr", "lr_add"}
<1>1. todo["api"] \in Seq(ApiStep)
  BY DEF BInv, AInv, TodoTypes
<1>2. 1 \in 1..Len(todo["api"]) /\ step = todo["api"][1] /\ step \in ApiStep
  BY <1>1, FirstStep, FirstElement
<1>3. step.lb \in live
  BY <1>2 DEF BInv, AInv, ApiHandler
<1>4. \A lb : Adding(lb) <=> lb = step.lb /\ step.do \in {"ls_add", "find_lr", "lr_add"}
  BY DEF Adding
<1>. QED  BY <1>2, <1>3, <1>4 DEF Directed

LEMMA AddingNext ==
    ASSUME NEW q, todo'["api"] = q, NEW lb
    PROVE  /\ q = <<>> => ~Adding(lb)'
           /\ \A step : q # <<>> /\ Head(q) = step =>
                 (Adding(lb)' <=> lb = step.lb /\ step.do \in {"ls_add", "find_lr", "lr_add"})
BY DEF Adding

\* The router of a switch was looked for.
LEMMA FindSteps ==
    ASSUME AInv, FindRouter("api"), NEW step, step = Head(todo["api"])
    PROVE  /\ todo["api"] # <<>> /\ step.do = "find_lr"
           /\ UNCHANGED <<port, members, nb, events, txn>>
           /\ todo'["agent"] = todo["agent"]
           /\ \/ RoutersOf(step.s) = {} /\ todo'["api"] = <<>>
              \/ \E r \in RoutersOf(step.s) : todo'["api"] = <<LrAddStep(step.lb, r)>>
<1>1. /\ todo["api"] # <<>> /\ step.do = "find_lr"
      /\ UNCHANGED <<port, members, nb, events, txn>>
  BY DEF FindRouter
<1>2. PICK rest : rest = Tail(todo["api"])
  OBVIOUS
<1>3. rest = <<>>
  <2>1. rest \in Seq(ApiStep) /\ (rest # <<>> => step.do = "ls_add")
    BY <1>1, <1>2, ApiRest
  <2>. QED  BY <1>1, <2>1
<1>4. \/ RoutersOf(step.s) = {} /\ todo' = [todo EXCEPT !["api"] = <<>> \o rest]
      \/ \E r \in RoutersOf(step.s) :
            todo' = [todo EXCEPT !["api"] = <<LrAddStep(step.lb, r)>> \o rest]
  BY <1>2 DEF FindRouter, Steps
<1>5. todo \in [Process -> Seq(AgentStep \cup ApiStep)]
  BY DEF AInv, TodoTypes
<1>6. <<>> \o <<>> = <<>> /\ \A r : <<LrAddStep(step.lb, r)>> \o <<>> = <<LrAddStep(step.lb, r)>>
  OBVIOUS
<1>. QED  BY <1>1, <1>3, <1>4, <1>5, <1>6 DEF Process

\* A row at the end of its way to where it belongs.
LEMMA SettledAlone ==
    ASSUME BInv, NEW lb \in live \cap Compact, Partial(lb),
           \A s \in Switch : Due("ls_add", lb, s) = 0, RoutersOf(VipSwitch[lb]) = {}
    PROVE  Settled(lb, port)
<1>1. Home(lb, port) = {} /\ On(lb) = {}
  BY HomeIsRouters DEF Partial
<1>2. VipSwitch[lb] \in Switch
  BY AssociationAssumption DEF Compact
<1>3. Place(lb, port) = {VipSwitch[lb]} \ External
  BY <1>1, <1>2 DEF Place
<1>4. CASE VipSwitch[lb] \in External
  BY <1>1, <1>3, <1>4 DEF Partial, Settled
<1>5. CASE VipSwitch[lb] \notin External
  <2>1. lb \in lsLb[VipSwitch[lb]]
    BY <1>5, VipAttached
  <2>2. VipSwitch[lb] \in Switches(lb)
    BY <1>2, <2>1 DEF Switches
  <2>. QED  BY <1>1, <1>3, <1>5, <2>2 DEF Partial, Settled
<1>. QED  BY <1>4, <1>5

LEMMA FindPlaces ==
    ASSUME DInv, AInv', UNCHANGED world, FindRouter("api")
    PROVE  LiveOnly' /\ Placements'
<1>1. PICK step : step = Head(todo["api"])
  OBVIOUS
<1>2. /\ todo["api"] # <<>> /\ step.do = "find_lr"
      /\ UNCHANGED <<port, nb, events>> /\ todo'["agent"] = todo["agent"]
      /\ \/ RoutersOf(step.s) = {} /\ todo'["api"] = <<>>
         \/ \E r \in RoutersOf(step.s) : todo'["api"] = <<LrAddStep(step.lb, r)>>
  BY <1>1, FindSteps DEF DInv, BInv
<1>3. LiveOnly'
  BY <1>2 DEF DInv, LiveOnly, nb
<1>4. ASSUME world = "calm" PROVE Placements'
  <2>1. events = <<>> /\ todo["agent"] = <<>> /\ Directed /\ Placed
    BY <1>2, <1>4, Alone DEF Busy
  <2>2. /\ step.lb \in live /\ step.lb \in Lb
        /\ step.lb \in Compact => step.s = VipSwitch[step.lb]
        /\ \A lb : Adding(lb) <=> lb = step.lb
    BY <1>1, <1>2, <2>1, DirectedHead DEF DInv, BInv, AInv, TypeOK
  <2>3. Pending = {} /\ \A lb : Listed(lb) = {}
    BY <2>1, IdleAgent DEF DInv, BInv
  <2>4. \A lb \in live \cap Compact : /\ Adding(lb) => Partial(lb)
                                      /\ ~Adding(lb) => Settled(lb, port)
    BY <2>1, <2>3 DEF Placed
  <2>5. \A lb : /\ Partial(lb)' = Partial(lb) /\ Settled(lb, port)' = Settled(lb, port)
    BY <1>2 DEF Partial, Settled, On, Switches, nb
  <2>6. CASE RoutersOf(step.s) = {} /\ todo'["api"] = <<>>
    <3>1. \A lb : ~Adding(lb)'
      BY <2>6, AddingNext
    <3>2. \A lb \in live \cap Compact : Settled(lb, port)
      <4>. SUFFICES ASSUME NEW lb \in live \cap Compact, lb = step.lb
                    PROVE  Settled(lb, port)
        BY <2>2, <2>4
      <4>1. Partial(lb) /\ RoutersOf(VipSwitch[lb]) = {}
        BY <2>2, <2>4, <2>6
      <4>2. \A s \in Switch : Due("ls_add", lb, s) = 0
        BY <1>1, <1>2 DEF Due
      <4>. QED  BY <4>1, <4>2, SettledAlone DEF DInv
    <3>3. Directed'
      <4>1. Len(<<>>) = 0 /\ 1..0 = {}
        OBVIOUS
      <4>. QED  BY <2>6, <4>1 DEF Directed
    <3>4. live' = live
      BY <1>2 DEF nb
    <3>. QED  BY <1>2, <1>4, <2>1, <2>5, <3>1, <3>2, <3>3, <3>4, ApiPlaces
  <2>7. ASSUME NEW r \in RoutersOf(step.s), todo'["api"] = <<LrAddStep(step.lb, r)>>
        PROVE  Placements'
    <3>1. PICK x : x = LrAddStep(step.lb, r)
      OBVIOUS
    <3>2. x \in ApiStep /\ x.do = "lr_add" /\ x.lb = step.lb /\ x.r = r
      BY <2>2, <3>1 DEF ApiStep, LrAddStep, RoutersOf
    <3>3. /\ <<x>> \in Seq(ApiStep) /\ <<x>> # <<>> /\ Head(<<x>>) = x
          /\ \A i \in 1..Len(<<x>>) : <<x>>[i] = x
      BY <3>2, OneElement
    <3>4. PICK q, b : q = <<x>> /\ b = step.lb /\ todo'["api"] = q
      BY <2>7, <3>1
    <3>5. \A lb : Adding(lb)' <=> lb = step.lb
      BY <3>2, <3>3, <3>4, AddingNext
    <3>6. Directed'
      <4>1. \A i \in 1..Len(q) :
               /\ q[i].lb = b
               /\ b \in Compact =>
                     /\ q[i].do \in {"ls_add", "ls_del", "find_lr"} => q[i].s = VipSwitch[b]
                     /\ q[i].do \in {"ls_add", "ls_del"} => q[i].s \notin External
                     /\ q[i].do = "lr_add" => q[i].r \in RoutersOf(VipSwitch[b])
        BY <2>2, <3>2, <3>3, <3>4
      <4>2. q \in Seq(ApiStep) /\ port' = port
        BY <1>2, <3>3, <3>4
      <4>3. q \in Seq(ApiStep) /\ todo'["api"] = q /\ port' = port
        BY <3>4, <4>2
      <4>4. Len(q) = 1 => q[1].do # "ls_add"
        BY <3>2, <3>3, <3>4
      <4>. QED  BY <4>1, <4>3, <4>4, DirectedNext
    <3>7. live' = live
      BY <1>2 DEF nb
    <3>8. \A lb \in live' \cap Compact : Adding(lb)' => Partial(lb)'
      BY <2>2, <2>4, <2>5, <3>5, <3>7
    <3>9. \A lb \in live' \cap Compact : ~Adding(lb)' => Settled(lb, port)'
      BY <2>2, <2>4, <2>5, <3>5, <3>7
    <3>. QED  BY <1>2, <1>4, <2>1, <3>6, <3>8, <3>9, ApiPlaces
  <2>. QED  BY <1>2, <2>6, <2>7
<1>. QED  BY <1>3, <1>4 DEF Placements

-----------------------------------------------------------------------------
(* Router ports come and go, and the agent takes the event                 *)

\* Neutron changed a router port, and nobody has heard of it.
LEMMA PortPlaces ==
    ASSUME DInv, MayMove, world = "calm", UNCHANGED <<world, nb, todo>>,
           NEW e \in PortEvent, events' = Append(events, e), Before(e)' = port,
           OneRouter(port)',
           e.do = "lrp_created" => <<e.r, e.s>> \in port',
           e.do = "lrp_deleted" => <<e.r, e.s>> \notin port'
    PROVE  Placements'
<1>1. /\ OneRouter(port) /\ Placed /\ events = <<>>
      /\ todo["agent"] = <<>> /\ todo["api"] = <<>>
  BY Alone
<1>2. events' = <<e>> /\ Len(<<e>>) = 1 /\ <<e>>[1] = e
  BY <1>1
<1>3. Len(todo'["agent"]) = 0 /\ Len(todo'["api"]) = 0 /\ todo'["api"] = <<>>
  <2>1. Len(<<>>) = 0
    OBVIOUS
  <2>. QED  BY <1>1, <2>1
<1>4. Pending' = {e} /\ \A lb : Listed(lb)' = {} /\ ~Adding(lb)'
  BY <1>2, <1>3 DEF Pending, Listed, Adding
<1>5. Pending = {} /\ \A lb : Listed(lb) = {} /\ ~Adding(lb)
  BY <1>1, IdleAgent DEF DInv, BInv, Adding
<1>6. Lists' /\ Directed'
  BY <1>3 DEF Lists, Directed
<1>7. OneRouter(Before(e))'
  BY <1>1 DEF OneRouter
<1>8. Heard'
  BY <1>4, <1>7 DEF Heard
<1>9. Placed'
  <2>. SUFFICES ASSUME NEW lb \in live \cap Compact
                PROVE  Settled(lb, Before(e))'
    BY <1>4 DEF Placed, Compact, nb
  <2>1. Settled(lb, port)
    BY <1>1, <1>5 DEF Placed
  <2>2. On(lb)' = On(lb) /\ Switches(lb)' = Switches(lb)
    BY DEF On, Switches, nb
  <2>3. \A P : On(lb) = Home(lb, P) /\ Switches(lb) = Place(lb, P) =>
            On(lb)' = Home(lb, P) /\ Switches(lb)' = Place(lb, P)
    BY <2>2
  <2>. QED  BY <2>1, <2>3 DEF Settled
<1>. QED  BY <1>6, <1>8, <1>9 DEF Placements

LEMMA PortCreatePlaces ==
    ASSUME DInv, UNCHANGED world, NEW r \in Router, NEW s \in Switch, PortCreate(r, s)
    PROVE  LiveOnly' /\ Placements'
<1>1. LiveOnly'
  BY DEF PortCreate, DInv, LiveOnly, nb
<1>2. ASSUME world = "calm" PROVE Placements'
  <2>1. PICK e : e = [do |-> "lrp_created", r |-> r, s |-> s]
    OBVIOUS
  <2>2. e \in PortEvent /\ e.do = "lrp_created" /\ e.r = r /\ e.s = s
    BY <2>1 DEF PortEvent
  <2>3. /\ MayMove /\ events' = Append(events, e) /\ UNCHANGED <<nb, todo>>
        /\ port' = port \cup {<<r, s>>} /\ <<r, s>> \notin port
        /\ s \notin External => RoutersOf(s) = {}
    BY <2>1 DEF PortCreate
  <2>4. Before(e)' = port
    BY <2>2, <2>3 DEF Before
  <2>5. OneRouter(port)'
    <3>1. OneRouter(port)
      BY <1>2, Alone
    <3>2. s \notin External => \A r1 \in Router : <<r1, s>> \notin port
      BY <2>3 DEF RoutersOf
    <3>3. \A s1 \in Switch \ External, r1 \in Router :
             <<r1, s1>> \in port' <=> <<r1, s1>> \in port \/ (r1 = r /\ s1 = s)
      BY <2>3
    <3>4. ASSUME NEW s1 \in Switch \ External, NEW r1 \in Router, NEW r2 \in Router,
                 <<r1, s1>> \in port', <<r2, s1>> \in port'
          PROVE  r1 = r2
      <4>1. CASE s1 = s
        BY <3>2, <3>3, <3>4, <4>1
      <4>2. CASE s1 # s
        BY <3>1, <3>3, <3>4, <4>2 DEF OneRouter
      <4>. QED  BY <4>1, <4>2
    <3>. QED  BY <3>4 DEF OneRouter
  <2>6. /\ e.do = "lrp_created" => <<e.r, e.s>> \in port'
        /\ e.do = "lrp_deleted" => <<e.r, e.s>> \notin port'
    BY <2>2, <2>3
  <2>. QED  BY <1>2, <2>2, <2>3, <2>4, <2>5, <2>6, PortPlaces
<1>. QED  BY <1>1, <1>2 DEF Placements

LEMMA PortDeletePlaces ==
    ASSUME DInv, UNCHANGED world, NEW r \in Router, NEW s \in Switch, PortDelete(r, s)
    PROVE  LiveOnly' /\ Placements'
<1>1. LiveOnly'
  BY DEF PortDelete, DInv, LiveOnly, nb
<1>2. ASSUME world = "calm" PROVE Placements'
  <2>1. PICK e : e = [do |-> "lrp_deleted", r |-> r, s |-> s]
    OBVIOUS
  <2>2. e \in PortEvent /\ e.do = "lrp_deleted" /\ e.r = r /\ e.s = s
    BY <2>1 DEF PortEvent
  <2>3. /\ MayMove /\ events' = Append(events, e) /\ UNCHANGED <<nb, todo>>
        /\ port' = port \ {<<r, s>>} /\ <<r, s>> \in port
    BY <2>1 DEF PortDelete, MayMove
  <2>4. Before(e)' = port
    BY <2>2, <2>3 DEF Before
  <2>5. OneRouter(port)'
    BY <1>2, <2>3, Alone DEF OneRouter
  <2>6. /\ e.do = "lrp_created" => <<e.r, e.s>> \in port'
        /\ e.do = "lrp_deleted" => <<e.r, e.s>> \notin port'
    BY <2>2, <2>3
  <2>. QED  BY <1>2, <2>2, <2>3, <2>4, <2>5, <2>6, PortPlaces
<1>. QED  BY <1>1, <1>2 DEF Placements

\* The agent takes the event, and still has to look at it.
LEMMA TakePlaces ==
    ASSUME DInv, UNCHANGED world, TakeEvent
    PROVE  LiveOnly' /\ Placements'
<1>1. LiveOnly'
  BY DEF TakeEvent, DInv, LiveOnly, nb
<1>2. ASSUME world = "calm" PROVE Placements'
  <2>1. /\ ~Busy("agent") /\ events # <<>> /\ UNCHANGED <<port, nb>>
        /\ events' = Tail(events) /\ todo' = [todo EXCEPT !["agent"] = <<Head(events)>>]
    BY DEF TakeEvent
  <2>2. /\ OneRouter(port) /\ Heard /\ Directed /\ Placed
        /\ todo["agent"] = <<>> /\ todo["api"] = <<>> /\ Len(events) <= 1
    <3>1. todo["agent"] = <<>>
      BY <2>1 DEF Busy
    <3>2. Len(events) <= 1
      BY <1>2 DEF DInv, BInv, Columns, Turns
    <3>. QED  BY <1>2, <2>1, <3>1, <3>2, Alone
  <2>3. PICK e : e = Head(events)
    OBVIOUS
  <2>4. /\ Len(events) = 1 /\ e = events[1] /\ e \in PortEvent /\ events' = <<>>
    <3>1. events \in Seq(PortEvent)
      BY DEF DInv, BInv, AInv, TodoTypes
    <3>2. /\ e \in PortEvent /\ e = events[1] /\ Len(events) \in Nat \ {0}
          /\ Tail(events) \in Seq(PortEvent) /\ Len(Tail(events)) = Len(events) - 1
      BY <2>1, <2>3, <3>1, FirstStep
    <3>3. Len(events) = 1 /\ Len(Tail(events)) = 0
      BY <2>2, <3>2
    <3>. QED  BY <2>1, <3>2, <3>3, EmptySeq
  <2>5. todo'["agent"] = <<e>> /\ todo'["api"] = todo["api"]
    BY <2>1, <2>3 DEF DInv, BInv, AInv, TodoTypes, Process
  <2>6. /\ IsEvent(e) /\ Len(<<e>>) = 1 /\ Len(<<>>) = 0
        /\ \A i \in 1..Len(<<e>>) : <<e>>[i] = e
    BY <2>4 DEF IsEvent, PortEvent
  <2>7. Pending = {e} /\ \A lb : Listed(lb) = {} /\ ~Adding(lb)
    <3>1. Len(todo["agent"]) = 0
      BY <2>2, <2>6
    <3>. QED  BY <2>2, <2>4, <3>1 DEF Pending, Listed, Adding
  <2>8. Pending' = {e} /\ \A lb : Listed(lb)' = {} /\ ~Adding(lb)'
    <3>1. Len(events') = 0 /\ Len(todo'["agent"]) = 1 /\ todo'["agent"][1] = e
      BY <2>4, <2>5, <2>6
    <3>2. \A i \in 1..Len(todo'["agent"]) : todo'["agent"][i] = e
      BY <3>1
    <3>3. 1 \in 1..1 /\ 1..0 = {}
      OBVIOUS
    <3>. QED  BY <2>2, <2>5, <2>6, <3>1, <3>2, <3>3 DEF Pending, Listed, Adding, IsEvent
  <2>9. Directed' /\ OneRouter(port)'
    BY <2>1, <2>2, <2>5, DirectedFrame DEF OneRouter
  <2>10. Before(e)' = Before(e)
    BY <2>1 DEF Before
  <2>11. Heard'
    <3>1. /\ e.do = "lrp_created" => <<e.r, e.s>> \in port
          /\ e.do = "lrp_deleted" => <<e.r, e.s>> \notin port
          /\ OneRouter(Before(e))
      BY <2>2, <2>7 DEF Heard
    <3>2. OneRouter(Before(e))'
      BY <2>10, <3>1 DEF OneRouter
    <3>. QED  BY <2>1, <2>8, <3>1, <3>2 DEF Heard
  <2>12. Lists'
    <3>1. Len(todo'["agent"]) = 1 /\ \A i \in 1..Len(todo'["agent"]) : IsEvent(todo'["agent"][i])
      BY <2>5, <2>6
    <3>. QED  BY <3>1 DEF Lists, IsEvent
  <2>13. Placed'
    <3>. SUFFICES ASSUME NEW lb \in live \cap Compact
                  PROVE  Settled(lb, Before(e))'
      BY <2>1, <2>8 DEF Placed, Compact, nb
    <3>1. Settled(lb, Before(e))
      BY <2>2, <2>7 DEF Placed
    <3>2. On(lb)' = On(lb) /\ Switches(lb)' = Switches(lb)
      BY <2>1 DEF On, Switches, nb
    <3>. QED  BY <2>10, <3>1, <3>2 DEF Settled
  <2>. QED  BY <2>9, <2>11, <2>12, <2>13 DEF Placements
<1>. QED  BY <1>1, <1>2 DEF Placements

-----------------------------------------------------------------------------
(* Orders of sets name every row once                                      *)

\* One step for each row of a set.
Once(q, S) ==
    /\ \A i \in 1..Len(q) : q[i].lb \in S
    /\ \A b \in S : \E i \in 1..Len(q) : q[i].lb = b
    /\ \A i, j \in 1..Len(q) : q[i].lb = q[j].lb => i = j

\* An order of a finite set names each element once.
LEMMA OrderOnce ==
    ASSUME NEW S, IsFiniteSet(S), NEW o \in SetToSeqs(S)
    PROVE  /\ DOMAIN o = 1..Len(o)
           /\ \A i \in DOMAIN o : o[i] \in S
           /\ \A i, j \in DOMAIN o : o[i] = o[j] => i = j
           /\ \A b \in S : \E i \in DOMAIN o : o[i] = b
<1>. DEFINE n == Cardinality(S)
<1>1. /\ o \in [1..n -> S] /\ n \in Nat
      /\ \A i, j \in 1..n : o[i] = o[j] => i = j
  BY FS_CardinalityType DEF SetToSeqs
<1>2. DOMAIN o = 1..Len(o)
  BY OrderIsSeq
<1>3. ASSUME NEW b \in S, \A i \in 1..n : o[i] # b PROVE FALSE
  <2>1. o \in Injection(1..n, S \ {b})
    BY <1>1, <1>3 DEF Injection, IsInjective
  <2>2. IsFiniteSet(S \ {b}) /\ Cardinality(S \ {b}) = n - 1
    BY FS_RemoveElement
  <2>3. Cardinality(1..n) <= Cardinality(S \ {b})
    BY <2>1, <2>2, FS_Injection
  <2>4. Cardinality(1..n) = n
    <3>. HIDE DEF n
    <3>1. 1 \in Int /\ n \in Int /\ (1 > n <=> n = 0)
      BY <1>1
    <3>2. Cardinality(1..n) = IF 1 > n THEN 0 ELSE n - 1 + 1
      BY <3>1, FS_Interval
    <3>. QED  BY <1>1, <3>1, <3>2
  <2>. HIDE DEF n
  <2>. QED  BY <1>1, <2>2, <2>3, <2>4
<1>. QED  BY <1>1, <1>2, <1>3

LEMMA ForEachOnce ==
    ASSUME NEW S \in SUBSET Lb, IsFiniteSet(S), NEW r \in Router, NEW s \in Switch
    PROVE  /\ \A q \in ForEach(S, LAMBDA lb : LrAddStep(lb, r)) :
                 Once(q, S) /\ \A i \in 1..Len(q) : q[i] = LrAddStep(q[i].lb, r)
           /\ \A q \in ForEach(S, LAMBDA lb : LrDelStep(lb, r)) :
                 Once(q, S) /\ \A i \in 1..Len(q) : q[i] = LrDelStep(q[i].lb, r)
           /\ \A q \in ForEach(S, LAMBDA lb : LsAddStep(lb, s, FALSE)) :
                 Once(q, S) /\ \A i \in 1..Len(q) : q[i] = LsAddStep(q[i].lb, s, FALSE)
           /\ \A q \in ForEach(S, LAMBDA lb : LsDelStep(lb, s, FALSE)) :
                 Once(q, S) /\ \A i \in 1..Len(q) : q[i] = LsDelStep(q[i].lb, s, FALSE)
<1>1. \A lb : /\ LrAddStep(lb, r).lb = lb /\ LrDelStep(lb, r).lb = lb
              /\ LsAddStep(lb, s, FALSE).lb = lb /\ LsDelStep(lb, s, FALSE).lb = lb
  BY DEF LrAddStep, LrDelStep, LsAddStep, LsDelStep
<1>2. ASSUME NEW q \in Seq(AgentStep), NEW o \in SetToSeqs(S), DOMAIN q = DOMAIN o,
             \A i \in DOMAIN o : q[i].lb = o[i]
      PROVE  Once(q, S)
  <2>1. DOMAIN q = 1..Len(q)
    BY LenProperties
  <2>2. /\ \A i \in DOMAIN o : o[i] \in S
        /\ \A i, j \in DOMAIN o : o[i] = o[j] => i = j
        /\ \A b \in S : \E i \in DOMAIN o : o[i] = b
    BY OrderOnce
  <2>. QED  BY <1>2, <2>1, <2>2 DEF Once
<1>3. ASSUME NEW q \in ForEach(S, LAMBDA lb : LrAddStep(lb, r))
      PROVE  Once(q, S) /\ \A i \in 1..Len(q) : q[i] = LrAddStep(q[i].lb, r)
  <2>1. PICK o \in SetToSeqs(S) : q = [i \in DOMAIN o |-> LrAddStep(o[i], r)]
    BY DEF ForEach
  <2>2. q \in Seq(AgentStep)
    BY ForEachSteps
  <2>3. DOMAIN q = 1..Len(q)
    BY <2>2, LenProperties
  <2>. QED  BY <1>1, <1>2, <2>1, <2>2, <2>3
<1>4. ASSUME NEW q \in ForEach(S, LAMBDA lb : LrDelStep(lb, r))
      PROVE  Once(q, S) /\ \A i \in 1..Len(q) : q[i] = LrDelStep(q[i].lb, r)
  <2>1. PICK o \in SetToSeqs(S) : q = [i \in DOMAIN o |-> LrDelStep(o[i], r)]
    BY DEF ForEach
  <2>2. q \in Seq(AgentStep)
    BY ForEachSteps
  <2>3. DOMAIN q = 1..Len(q)
    BY <2>2, LenProperties
  <2>. QED  BY <1>1, <1>2, <2>1, <2>2, <2>3
<1>5. ASSUME NEW q \in ForEach(S, LAMBDA lb : LsAddStep(lb, s, FALSE))
      PROVE  Once(q, S) /\ \A i \in 1..Len(q) : q[i] = LsAddStep(q[i].lb, s, FALSE)
  <2>1. PICK o \in SetToSeqs(S) : q = [i \in DOMAIN o |-> LsAddStep(o[i], s, FALSE)]
    BY DEF ForEach
  <2>2. q \in Seq(AgentStep)
    BY ForEachSteps
  <2>3. DOMAIN q = 1..Len(q)
    BY <2>2, LenProperties
  <2>4. DOMAIN q = DOMAIN o /\ \A i \in DOMAIN o : q[i].lb = o[i]
    BY <1>1, <2>1
  <2>5. Once(q, S)
    BY <1>2, <2>2, <2>4
  <2>6. \A i \in 1..Len(q) : q[i] = LsAddStep(q[i].lb, s, FALSE)
    BY <2>1, <2>3, <2>4
  <2>. QED  BY <2>5, <2>6
<1>6. ASSUME NEW q \in ForEach(S, LAMBDA lb : LsDelStep(lb, s, FALSE))
      PROVE  Once(q, S) /\ \A i \in 1..Len(q) : q[i] = LsDelStep(q[i].lb, s, FALSE)
  <2>1. PICK o \in SetToSeqs(S) : q = [i \in DOMAIN o |-> LsDelStep(o[i], s, FALSE)]
    BY DEF ForEach
  <2>2. q \in Seq(AgentStep)
    BY ForEachSteps
  <2>3. DOMAIN q = 1..Len(q)
    BY <2>2, LenProperties
  <2>. QED  BY <1>1, <1>2, <2>1, <2>2, <2>3
<1>. QED  BY <1>3, <1>4, <1>5, <1>6

\* Steps for two sets of rows, one after the other.
OnceEach(q, a, b, A, B) ==
    /\ Once(q, A \cup B)
    /\ \A i \in 1..Len(q) : \/ q[i].lb \in A /\ \E j \in 1..Len(a) : q[i] = a[j]
                            \/ q[i].lb \in B /\ \E j \in 1..Len(b) : q[i] = b[j]

LEMMA OnceBoth ==
    ASSUME NEW a \in Seq(AgentStep), NEW b \in Seq(AgentStep), NEW A, NEW B, A \cap B = {},
           Once(a, A), Once(b, B)
    PROVE  OnceEach(a \o b, a, b, A, B)
<1>1. /\ Len(a) \in Nat /\ Len(b) \in Nat /\ Len(a \o b) = Len(a) + Len(b)
      /\ \A i \in 1..Len(a \o b) :
            (a \o b)[i] = IF i <= Len(a) THEN a[i] ELSE b[i - Len(a)]
  BY LenProperties, ConcatProperties
<1>. PICK m, n, c : m = Len(a) /\ n = Len(b) /\ c = a \o b
  OBVIOUS
<1>2. /\ m \in Nat /\ n \in Nat /\ Len(c) = m + n
      /\ \A i \in 1..Len(c) : c[i] = IF i <= m THEN a[i] ELSE b[i - m]
  BY <1>1
<1>3. \A i \in 1..Len(c) : \/ i <= m /\ i \in 1..m /\ c[i] = a[i]
                           \/ i > m /\ i - m \in 1..n /\ c[i] = b[i - m]
  BY <1>2
<1>4. /\ \A i \in 1..m : a[i].lb \in A
      /\ \A x \in A : \E i \in 1..m : a[i].lb = x
      /\ \A i, j \in 1..m : a[i].lb = a[j].lb => i = j
  BY DEF Once
<1>5. /\ \A i \in 1..n : b[i].lb \in B
      /\ \A x \in B : \E i \in 1..n : b[i].lb = x
      /\ \A i, j \in 1..n : b[i].lb = b[j].lb => i = j
  BY DEF Once
<1>6. \A i \in 1..Len(c) : \/ c[i].lb \in A /\ \E j \in 1..m : c[i] = a[j]
                           \/ c[i].lb \in B /\ \E j \in 1..n : c[i] = b[j]
  BY <1>3, <1>4, <1>5
<1>7. \A x \in A : \E i \in 1..Len(c) : c[i].lb = x
  <2>. SUFFICES ASSUME NEW x \in A PROVE \E i \in 1..Len(c) : c[i].lb = x
    OBVIOUS
  <2>1. PICK i \in 1..m : a[i].lb = x
    BY <1>4
  <2>2. i \in 1..Len(c) /\ c[i] = a[i]
    BY <1>2
  <2>. QED  BY <2>1, <2>2
<1>8. \A x \in B : \E i \in 1..Len(c) : c[i].lb = x
  <2>. SUFFICES ASSUME NEW x \in B PROVE \E i \in 1..Len(c) : c[i].lb = x
    OBVIOUS
  <2>1. PICK i \in 1..n : b[i].lb = x
    BY <1>5
  <2>2. m + i \in 1..Len(c) /\ ~(m + i <= m) /\ m + i - m = i
    BY <1>2
  <2>3. c[m + i] = b[i]
    BY <1>2, <2>2
  <2>. QED  BY <2>1, <2>2, <2>3
<1>9. ASSUME NEW i \in 1..Len(c), NEW j \in 1..Len(c), c[i].lb = c[j].lb
      PROVE  i = j
  <2>1. CASE i <= m /\ j <= m
    BY <1>2, <1>3, <1>4, <1>9, <2>1
  <2>2. CASE i > m /\ j > m
    <3>1. i - m \in 1..n /\ j - m \in 1..n /\ b[i - m].lb = b[j - m].lb
      BY <1>2, <1>3, <1>9, <2>2
    <3>2. i - m = j - m
      BY <1>5, <3>1
    <3>. QED  BY <1>2, <3>2
  <2>3. CASE i <= m /\ j > m
    BY <1>2, <1>3, <1>4, <1>5, <1>9, <2>3
  <2>4. CASE i > m /\ j <= m
    BY <1>2, <1>3, <1>4, <1>5, <1>9, <2>4
  <2>. QED  BY <1>2, <2>1, <2>2, <2>3, <2>4
<1>10. Once(c, A \cup B)
  BY <1>6, <1>7, <1>8, <1>9 DEF Once
<1>. QED  BY <1>6, <1>10 DEF OnceEach

-----------------------------------------------------------------------------
(* The agent lists what there is to do for a port                          *)

\* The agent looks at an event: rows are where the ports before it put them.
LEMMA EventHead ==
    ASSUME DInv, world = "calm", todo["agent"] # <<>>,
           NEW step, step = Head(todo["agent"]), IsEvent(step)
    PROVE  /\ step \in PortEvent /\ step.s \in Switch /\ step.r \in Router
           /\ Tail(todo["agent"]) = <<>>
           /\ events = <<>> /\ todo["api"] = <<>>
           /\ OneRouter(port) /\ OneRouter(Before(step))
           /\ step.do = "lrp_created" => <<step.r, step.s>> \in port
           /\ step.do = "lrp_deleted" => <<step.r, step.s>> \notin port
           /\ \A lb \in live \cap Compact : Settled(lb, Before(step))
<1>1. /\ OneRouter(port) /\ Heard /\ Lists /\ Directed /\ Placed
      /\ events = <<>> /\ todo["api"] = <<>>
  BY Alone DEF Busy
<1>2. todo["agent"] \in Seq(AgentStep)
  BY DEF DInv, BInv, AInv, TodoTypes
<1>3. /\ 1 \in 1..Len(todo["agent"]) /\ step = todo["agent"][1] /\ step \in AgentStep
      /\ Tail(todo["agent"]) \in Seq(AgentStep)
      /\ Len(Tail(todo["agent"])) = Len(todo["agent"]) - 1
  BY <1>2, FirstStep, FirstElement
<1>4. Len(todo["agent"]) = 1
  BY <1>1, <1>3 DEF Lists
<1>5. Tail(todo["agent"]) = <<>>
  <2>1. Len(Tail(todo["agent"])) = 0
    BY <1>3, <1>4
  <2>. QED  BY <1>3, <2>1, EmptySeq
<1>6. step \in PortEvent
  BY <1>3 DEF AgentStep, SwitchStep, IsEvent
<1>7. step \in Pending
  BY <1>3 DEF Pending
<1>. QED  BY <1>1, <1>5, <1>6, <1>7 DEF PortEvent, Heard, Placed

\* The agent has listed what there is to do.
LEMMA Listing ==
    ASSUME DInv, world = "calm", UNCHANGED <<world, port, nb, events>>,
           todo["agent"] # <<>>, IsEvent(Head(todo["agent"])), todo'["api"] = todo["api"],
           NEW q \in Seq(AgentStep), todo'["agent"] = q, NEW S, Once(q, S), S \subseteq live,
           \A i \in 1..Len(q) : ~IsEvent(q[i]),
           \A i \in 1..Len(q) : q[i].lb \in Compact => SettledBy(q[i].lb, TxnOf(q[i])),
           \A lb \in live \cap Compact : lb \notin S => Settled(lb, port)
    PROVE  Placements'
<1>1. /\ events = <<>> /\ todo["api"] = <<>> /\ OneRouter(port)
  BY EventHead
<1>2. Len(events') = 0 /\ Len(todo'["api"]) = 0 /\ todo'["api"] = <<>>
  <2>1. Len(<<>>) = 0
    OBVIOUS
  <2>. QED  BY <1>1, <2>1
<1>3. Pending' = {} /\ \A lb : ~Adding(lb)'
  BY <1>2 DEF Pending, Adding
<1>4. \A lb, x : x \in Listed(lb)' <=> \E i \in 1..Len(q) : x = q[i] /\ q[i].lb = lb
  BY DEF Listed, IsEvent
<1>5. Heard' /\ Directed' /\ OneRouter(port)'
  BY <1>1, <1>2, <1>3 DEF Heard, Directed, OneRouter
<1>6. Lists'
  <2>1. \A i \in 1..Len(q) : q[i].lb \in live /\ \A j \in 1..Len(q) : j # i => q[j].lb # q[i].lb
    BY DEF Once
  <2>. QED  BY <2>1 DEF Lists, IsEvent, nb
<1>7. Placed'
  <2>. SUFFICES ASSUME NEW lb \in live \cap Compact
                PROVE  /\ \A x \in Listed(lb)' : SettledBy(lb, TxnOf(x))'
                       /\ Listed(lb)' = {} => Settled(lb, port)'
    BY <1>3 DEF Placed, Compact, nb
  <2>1. On(lb)' = On(lb) /\ Switches(lb)' = Switches(lb)
    BY DEF On, Switches, nb
  <2>2. \A x : TxnOf(x)' = TxnOf(x)
    BY TxnOfFrame DEF nb
  <2>3. \A x \in Listed(lb)' : SettledBy(lb, TxnOf(x))
    BY <1>4
  <2>4. \A x \in Listed(lb)' : SettledBy(lb, TxnOf(x))'
    BY <2>1, <2>2, <2>3 DEF SettledBy
  <2>5. Listed(lb)' = {} => lb \notin S
    <3>. SUFFICES ASSUME lb \in S PROVE Listed(lb)' # {}
      OBVIOUS
    <3>1. PICK i \in 1..Len(q) : q[i].lb = lb
      BY DEF Once
    <3>2. q[i] \in Listed(lb)'
      BY <1>4, <3>1
    <3>. QED  BY <3>2
  <2>6. Listed(lb)' = {} => Settled(lb, port)'
    BY <2>1, <2>5 DEF Settled
  <2>. QED  BY <2>4, <2>6
<1>. QED  BY <1>5, <1>6, <1>7 DEF Placements

\* Rows of columns are there.
LEMMA RowsLive ==
    ASSUME DInv
    PROVE  /\ \A s \in Switch : lsLb[s] \subseteq live
           /\ \A r \in Router : lrLb[r] \subseteq live
<1>1. \A r \in Router : lrLb[r] \subseteq Lb
  BY DEF DInv, BInv, AInv, TypeOK
<1>. QED  BY <1>1 DEF DInv, LiveOnly, BInv, Columns, RouterTexts, On

\* The same, switch by switch.
LEMMA HomePlace ==
    ASSUME NEW lb, NEW P
    PROVE  /\ Home(lb, P) \subseteq Router
           /\ \A r \in Router :
                 r \in Home(lb, P) <=> VipSwitch[lb] \notin External /\ <<r, VipSwitch[lb]>> \in P
           /\ Place(lb, P) \subseteq Switch \ External
           /\ VipSwitch[lb] \in Switch \ External => VipSwitch[lb] \in Place(lb, P)
           /\ \A t \in Switch \ External, r \in Home(lb, P) :
                 <<r, t>> \in P => t \in Place(lb, P)
           /\ \A t \in Place(lb, P) :
                 t # VipSwitch[lb] => \E r \in Home(lb, P) : <<r, t>> \in P
<1>1. /\ Home(lb, P) \subseteq Router
      /\ \A r \in Router :
            r \in Home(lb, P) <=> VipSwitch[lb] \notin External /\ <<r, VipSwitch[lb]>> \in P
  <2>1. CASE VipSwitch[lb] \in External
    BY <2>1 DEF Home
  <2>2. CASE VipSwitch[lb] \notin External
    BY <2>2 DEF Home
  <2>. QED  BY <2>1, <2>2
<1>2. Place(lb, P) \subseteq Switch \ External
  BY DEF Place
<1>3. VipSwitch[lb] \in Switch \ External => VipSwitch[lb] \in Place(lb, P)
  BY DEF Place
<1>4. \A t \in Switch \ External, r \in Home(lb, P) : <<r, t>> \in P => t \in Place(lb, P)
  BY DEF Place
<1>5. \A t \in Place(lb, P) : t # VipSwitch[lb] => \E r \in Home(lb, P) : <<r, t>> \in P
  BY DEF Place
<1>. QED  BY <1>1, <1>2, <1>3, <1>4, <1>5

\* A router port was created where it was the only one of its switch.
LEMMA PortAdded ==
    ASSUME NEW lb \in Compact, NEW r \in Router, NEW s \in Switch, <<r, s>> \in port,
           OneRouter(port), Settled(lb, port \ {<<r, s>>})
    PROVE  /\ lb \in lsLb[s] \ lrLb[r] =>
                 /\ On(lb) \cup {r} = Home(lb, port)
                 /\ Switches(lb) \cup SwitchesOf(r) = Place(lb, port)
           /\ s \notin External /\ lb \in lrLb[r] \ lsLb[s] =>
                 /\ On(lb) = Home(lb, port) /\ s # VipSwitch[lb]
                 /\ Switches(lb) \cup {s} = Place(lb, port)
           /\ lb \notin lsLb[s] \ lrLb[r] /\ ~(s \notin External /\ lb \in lrLb[r] \ lsLb[s])
                 => Settled(lb, port)
<1>. DEFINE P == port \ {<<r, s>>}
            v == VipSwitch[lb]
<1>1. v \in Switch
  BY AssociationAssumption DEF Compact
<1>2. On(lb) = Home(lb, P) /\ Switches(lb) = Place(lb, P)
  BY DEF Settled
<1>3. (lb \in lrLb[r] <=> r \in Home(lb, P)) /\ (lb \in lsLb[s] <=> s \in Place(lb, P))
  BY <1>2 DEF On, Switches
<1>4. \A x \in Router, t \in Switch : <<x, t>> \in port <=> <<x, t>> \in P \/ (x = r /\ t = s)
  OBVIOUS
<1>5. <<r, s>> \notin P
  OBVIOUS
<1>6. SwitchesOf(r) = {t \in Switch \ External : <<r, t>> \in port}
  BY DEF SwitchesOf, Ports
<1>. HIDE DEF P, v
<1>7. /\ Home(lb, P) \subseteq Router
      /\ \A x \in Router : x \in Home(lb, P) <=> v \notin External /\ <<x, v>> \in P
      /\ Place(lb, P) \subseteq Switch \ External
      /\ v \notin External => v \in Place(lb, P)
      /\ \A t \in Switch \ External, x \in Home(lb, P) :
            <<x, t>> \in P => t \in Place(lb, P)
      /\ \A t \in Place(lb, P) : t # v => \E x \in Home(lb, P) : <<x, t>> \in P
  BY <1>1, HomePlace DEF v
<1>8. /\ Home(lb, port) \subseteq Router
      /\ \A x \in Router : x \in Home(lb, port) <=> v \notin External /\ <<x, v>> \in port
      /\ Place(lb, port) \subseteq Switch \ External
      /\ v \notin External => v \in Place(lb, port)
      /\ \A t \in Switch \ External, x \in Home(lb, port) :
            <<x, t>> \in port => t \in Place(lb, port)
      /\ \A t \in Place(lb, port) : t # v => \E x \in Home(lb, port) : <<x, t>> \in port
  BY <1>1, HomePlace DEF v
<1>9. \A t \in Switch \ External, x \in Router, y \in Router :
         <<x, t>> \in port /\ <<y, t>> \in port => x = y
  BY DEF OneRouter
<1>10. s \in Place(lb, P) => s = v /\ v \notin External
  <2>. SUFFICES ASSUME s \in Place(lb, P), s # v PROVE FALSE
    BY <1>1, <1>7, <1>8
  <2>1. PICK x \in Home(lb, P) : <<x, s>> \in P
    BY <1>7, <1>8
  <2>2. x = r
    BY <1>4, <1>7, <1>8, <1>9, <2>1
  <2>. QED  BY <1>5, <2>1, <2>2
<1>11. r \in Home(lb, P) => s # v /\ v \notin External
  BY <1>4, <1>5, <1>7, <1>8
<1>12. s # v \/ v \in External => Home(lb, port) = Home(lb, P)
  BY <1>1, <1>4, <1>7, <1>8
<1>13. ASSUME lb \in lsLb[s] \ lrLb[r]
       PROVE  /\ On(lb) \cup {r} = Home(lb, port)
              /\ Switches(lb) \cup SwitchesOf(r) = Place(lb, port)
  <2>1. s = v /\ v \notin External
    BY <1>3, <1>10, <1>13
  <2>2. Home(lb, port) = {r}
    <3>1. \A x \in Router : x \in Home(lb, port) <=> x = r
      BY <1>1, <1>7, <1>8, <1>9, <2>1
    <3>. QED  BY <1>7, <1>8, <3>1
  <2>3. Home(lb, P) = {}
    <3>1. \A x \in Router : x \notin Home(lb, P)
      BY <1>1, <1>4, <1>5, <1>7, <1>8, <1>9, <2>1
    <3>. QED  BY <1>7, <1>8, <3>1
  <2>4. Place(lb, P) = {v}
    <3>1. \A t : t \in Place(lb, P) <=> t = v
      BY <1>1, <1>7, <1>8, <2>1, <2>3
    <3>. QED  BY <3>1
  <2>5. Place(lb, port) = {v} \cup SwitchesOf(r)
    <3>1. \A t : t \in Place(lb, port) <=> t = v \/ t \in SwitchesOf(r)
      BY <1>1, <1>6, <1>7, <1>8, <2>1, <2>2
    <3>. QED  BY <3>1
  <2>. QED  BY <1>2, <2>2, <2>3, <2>4, <2>5
<1>14. ASSUME s \notin External, lb \in lrLb[r] \ lsLb[s]
       PROVE  /\ On(lb) = Home(lb, port) /\ s # v
              /\ Switches(lb) \cup {s} = Place(lb, port)
  <2>1. r \in Home(lb, P) /\ s # v /\ v \notin External
    BY <1>3, <1>11, <1>14
  <2>2. Home(lb, port) = Home(lb, P)
    BY <1>12, <2>1
  <2>3. Place(lb, port) = Place(lb, P) \cup {s}
    <3>1. ASSUME NEW t PROVE t \in Place(lb, port) <=> t \in Place(lb, P) \/ t = s
      <4>1. CASE t = s
        BY <1>7, <1>8, <1>14, <2>1, <2>2, <4>1
      <4>2. CASE t # s
        <5>1. \A x \in Router : t \in Switch => (<<x, t>> \in port <=> <<x, t>> \in P)
          BY <1>4, <4>2
        <5>. QED  BY <1>7, <1>8, <2>2, <4>2, <5>1
      <4>. QED  BY <4>1, <4>2
    <3>. QED  BY <3>1
  <2>. QED  BY <1>2, <2>1, <2>2, <2>3
<1>15. ASSUME lb \notin lsLb[s] \ lrLb[r], ~(s \notin External /\ lb \in lrLb[r] \ lsLb[s])
       PROVE  Settled(lb, port)
  <2>1. s # v \/ v \in External
    <3>. SUFFICES ASSUME s = v, v \notin External PROVE FALSE
      OBVIOUS
    <3>1. s \in Place(lb, P)
      BY <1>1, <1>7, <1>8
    <3>2. r \in Home(lb, P)
      BY <1>3, <1>15, <3>1
    <3>. QED  BY <1>11, <3>2
  <2>2. Home(lb, port) = Home(lb, P)
    BY <1>12, <2>1
  <2>3. s \in External \/ r \notin Home(lb, P)
    <3>. SUFFICES ASSUME s \notin External, r \in Home(lb, P) PROVE FALSE
      OBVIOUS
    <3>1. s \in Place(lb, P)
      BY <1>3, <1>15
    <3>. QED  BY <1>10, <1>11, <3>1
  <2>4. Place(lb, port) = Place(lb, P)
    <3>1. \A t \in Switch \ External, x \in Home(lb, P) :
             <<x, t>> \in port <=> <<x, t>> \in P
      BY <1>4, <1>7, <2>3
    <3>2. ASSUME NEW t PROVE t \in Place(lb, port) <=> t \in Place(lb, P)
      BY <1>7, <1>8, <2>2, <3>1
    <3>. QED  BY <3>2
  <2>. QED  BY <1>2, <2>2, <2>4 DEF Settled
<1>. QED  BY <1>13, <1>14, <1>15 DEF v

\* A router port is gone that was the only one of its switch.
LEMMA PortRemoved ==
    ASSUME NEW lb \in Compact, NEW r \in Router, NEW s \in Switch, <<r, s>> \notin port,
           OneRouter(port \cup {<<r, s>>}), Settled(lb, port \cup {<<r, s>>})
    PROVE  /\ s = VipSwitch[lb] /\ s \notin External =>
                 /\ On(lb) = {r} /\ Home(lb, port) = {}
                 /\ Switches(lb) \ SwitchesOf(r) = Place(lb, port)
           /\ s # VipSwitch[lb] \/ s \in External => On(lb) = Home(lb, port)
           /\ s # VipSwitch[lb] /\ lb \in lrLb[r] => Switches(lb) \ {s} = Place(lb, port)
           /\ lb \notin lrLb[r] => Settled(lb, port)
           /\ lb \in lsLb[s] => s \notin External
<1>. DEFINE P == port \cup {<<r, s>>}
            v == VipSwitch[lb]
<1>1. v \in Switch
  BY AssociationAssumption DEF Compact
<1>2. On(lb) = Home(lb, P) /\ Switches(lb) = Place(lb, P)
  BY DEF Settled
<1>3. (lb \in lrLb[r] <=> r \in Home(lb, P)) /\ (lb \in lsLb[s] <=> s \in Place(lb, P))
  BY <1>2 DEF On, Switches
<1>4. \A x \in Router, t \in Switch : <<x, t>> \in P <=> <<x, t>> \in port \/ (x = r /\ t = s)
  OBVIOUS
<1>5. <<r, s>> \in P
  OBVIOUS
<1>6. SwitchesOf(r) = {t \in Switch \ External : <<r, t>> \in port}
  BY DEF SwitchesOf, Ports
<1>. HIDE DEF P, v
<1>7. /\ Home(lb, P) \subseteq Router
      /\ \A x \in Router : x \in Home(lb, P) <=> v \notin External /\ <<x, v>> \in P
      /\ Place(lb, P) \subseteq Switch \ External
      /\ v \notin External => v \in Place(lb, P)
      /\ \A t \in Switch \ External, x \in Home(lb, P) :
            <<x, t>> \in P => t \in Place(lb, P)
      /\ \A t \in Place(lb, P) : t # v => \E x \in Home(lb, P) : <<x, t>> \in P
  BY <1>1, HomePlace DEF v
<1>8. /\ Home(lb, port) \subseteq Router
      /\ \A x \in Router : x \in Home(lb, port) <=> v \notin External /\ <<x, v>> \in port
      /\ Place(lb, port) \subseteq Switch \ External
      /\ v \notin External => v \in Place(lb, port)
      /\ \A t \in Switch \ External, x \in Home(lb, port) :
            <<x, t>> \in port => t \in Place(lb, port)
      /\ \A t \in Place(lb, port) : t # v => \E x \in Home(lb, port) : <<x, t>> \in port
  BY <1>1, HomePlace DEF v
<1>9. \A t \in Switch \ External, x \in Router, y \in Router :
         <<x, t>> \in P /\ <<y, t>> \in P => x = y
  BY DEF OneRouter, P
<1>10. ASSUME s = v, s \notin External
       PROVE  /\ On(lb) = {r} /\ Home(lb, port) = {}
              /\ Switches(lb) \ SwitchesOf(r) = Place(lb, port)
  <2>1. Home(lb, P) = {r}
    <3>1. \A x \in Router : x \in Home(lb, P) <=> x = r
      BY <1>1, <1>5, <1>7, <1>9, <1>10
    <3>. QED  BY <1>7, <3>1
  <2>2. Home(lb, port) = {}
    <3>1. \A x \in Router : x \notin Home(lb, port)
      BY <1>1, <1>4, <1>8, <1>9, <1>10, <2>1, <1>5
    <3>. QED  BY <1>8, <3>1
  <2>3. v \notin SwitchesOf(r)
    BY <1>6, <1>10
  <2>4. Place(lb, port) = {v}
    <3>1. \A t : t \in Place(lb, port) <=> t = v
      BY <1>1, <1>8, <1>10, <2>2
    <3>. QED  BY <3>1
  <2>5. \A t \in Place(lb, P) : t # v => t \in SwitchesOf(r)
    <3>1. \A t \in Place(lb, P) : t # v => <<r, t>> \in P
      BY <1>7, <2>1
    <3>. QED  BY <1>4, <1>6, <1>7, <1>10, <3>1
  <2>6. v \in Place(lb, P)
    BY <1>7, <1>10
  <2>. QED  BY <1>2, <2>1, <2>2, <2>3, <2>4, <2>5, <2>6
<1>11. s # v \/ v \in External => Home(lb, P) = Home(lb, port)
  <2>. SUFFICES ASSUME s # v \/ v \in External PROVE Home(lb, P) = Home(lb, port)
    OBVIOUS
  <2>1. \A x \in Router : x \in Home(lb, P) <=> x \in Home(lb, port)
    BY <1>1, <1>4, <1>7, <1>8
  <2>. QED  BY <1>7, <1>8, <2>1
<1>12. ASSUME s # v, lb \in lrLb[r]
       PROVE  Switches(lb) \ {s} = Place(lb, port)
  <2>1. r \in Home(lb, P) /\ Home(lb, P) = Home(lb, port) /\ v \notin External
    BY <1>3, <1>7, <1>11, <1>12
  <2>2. Home(lb, P) = {r}
    <3>1. \A x \in Router : x \in Home(lb, P) <=> x = r
      BY <1>1, <1>7, <1>9, <2>1
    <3>. QED  BY <1>7, <3>1
  <2>3. s \notin Place(lb, port)
    <3>. SUFFICES ASSUME s \in Place(lb, port) PROVE FALSE
      OBVIOUS
    <3>1. <<r, s>> \in port
      BY <1>8, <1>12, <2>1, <2>2
    <3>. QED  BY <3>1
  <2>4. ASSUME NEW t \in Place(lb, P), t # s PROVE t \in Place(lb, port)
    <3>1. CASE t = v
      BY <1>8, <2>1, <3>1
    <3>2. CASE t # v
      <4>1. <<r, t>> \in P
        BY <1>7, <2>2, <3>2
      <4>2. <<r, t>> \in port
        BY <1>4, <1>7, <2>4, <4>1
      <4>. QED  BY <1>7, <1>8, <2>1, <4>2
    <3>. QED  BY <3>1, <3>2
  <2>5. ASSUME NEW t \in Place(lb, port) PROVE t \in Place(lb, P)
    <3>1. CASE t = v
      BY <1>7, <2>1, <3>1
    <3>2. CASE t # v
      <4>1. <<r, t>> \in port
        BY <1>8, <2>1, <2>2, <3>2
      <4>2. <<r, t>> \in P
        BY <1>4, <1>8, <4>1
      <4>. QED  BY <1>7, <1>8, <2>1, <4>2
    <3>. QED  BY <3>1, <3>2
  <2>. QED  BY <1>2, <2>3, <2>4, <2>5
<1>13. ASSUME lb \notin lrLb[r] PROVE Settled(lb, port)
  <2>1. r \notin Home(lb, P)
    BY <1>3, <1>13
  <2>2. s # v \/ v \in External
    BY <1>5, <1>7, <2>1
  <2>3. Home(lb, P) = Home(lb, port)
    BY <1>11, <2>2
  <2>4. \A t \in Switch \ External, x \in Home(lb, P) : <<x, t>> \in P <=> <<x, t>> \in port
    BY <1>4, <1>7, <2>1
  <2>5. ASSUME NEW t PROVE t \in Place(lb, port) <=> t \in Place(lb, P)
    <3>1. CASE t = v
      BY <1>7, <1>8, <3>1
    <3>2. CASE t # v
      <4>1. t \in Place(lb, P) => t \in Place(lb, port)
        BY <1>7, <1>8, <2>3, <2>4, <3>2
      <4>2. t \in Place(lb, port) => t \in Place(lb, P)
        BY <1>7, <1>8, <2>3, <2>4, <3>2
      <4>. QED  BY <4>1, <4>2
    <3>. QED  BY <3>1, <3>2
  <2>. QED  BY <1>2, <2>3, <2>5 DEF Settled
<1>14. lb \in lsLb[s] => s \notin External
  BY <1>3, <1>7
<1>15. s # v \/ s \in External => On(lb) = Home(lb, port)
  BY <1>2, <1>11
<1>. QED  BY <1>10, <1>12, <1>13, <1>14, <1>15 DEF v

LEMMA LrpCreatedPlaces ==
    ASSUME DInv, UNCHANGED world, LrpCreated
    PROVE  LiveOnly' /\ Placements'
<1>1. LiveOnly'
  BY DEF LrpCreated, DInv, LiveOnly, nb
<1>2. ASSUME world = "calm" PROVE Placements'
  <2>. DEFINE step == Head(todo["agent"])
              r == step.r
              s == step.s
              A == lsLb[s] \ lrLb[r]
              B == IF s \in External THEN {} ELSE lrLb[r] \ lsLb[s]
  <2>1. todo["agent"] # <<>> /\ step.do = "lrp_created" /\ UNCHANGED <<port, nb, events>>
    BY DEF LrpCreated
  <2>2. PICK a \in ForEach(A, LAMBDA lb : LrAddStep(lb, r)),
             b \in ForEach(B, LAMBDA lb : LsAddStep(lb, s, FALSE)) : Steps("agent", a \o b)
    BY DEF LrpCreated
  <2>3. A = lsLb[s] \ lrLb[r] /\ B = IF s \in External THEN {} ELSE lrLb[r] \ lsLb[s]
    OBVIOUS
  <2>4. step = Head(todo["agent"]) /\ r = step.r /\ s = step.s
    OBVIOUS
  <2>. HIDE DEF step, r, s, A, B
  <2>5. IsEvent(step)
    BY <2>1 DEF IsEvent
  <2>6. /\ s \in Switch /\ r \in Router /\ Tail(todo["agent"]) = <<>>
        /\ OneRouter(port) /\ <<r, s>> \in port
        /\ \A lb \in live \cap Compact : Settled(lb, port \ {<<r, s>>})
    BY <1>2, <2>4, <2>1, <2>5, EventHead DEF Before
  <2>7. /\ A \in SUBSET Lb /\ IsFiniteSet(A) /\ B \in SUBSET Lb /\ IsFiniteSet(B)
        /\ A \cup B \subseteq live /\ A \cap B = {}
    <3>1. /\ lsLb[s] \subseteq live /\ lrLb[r] \subseteq live /\ live \subseteq Lb
          /\ IsFiniteSet(lsLb[s]) /\ IsFiniteSet(lrLb[r])
      BY <2>6, RowsLive DEF DInv, BInv, AInv, TypeOK, Finite
    <3>2. A \subseteq lsLb[s] /\ B \subseteq lrLb[r] /\ A \cap B = {}
      BY <2>3
    <3>3. IsFiniteSet(A) /\ IsFiniteSet(B)
      BY <3>1, <3>2, FS_Subset
    <3>. QED  BY <3>1, <3>2, <3>3
  <2>8. /\ a \in Seq(AgentStep) /\ Once(a, A)
        /\ \A i \in 1..Len(a) : a[i] = LrAddStep(a[i].lb, r)
    BY <2>6, <2>7, ForEachSteps, ForEachOnce
  <2>9. /\ b \in Seq(AgentStep) /\ Once(b, B)
        /\ \A i \in 1..Len(b) : b[i] = LsAddStep(b[i].lb, s, FALSE)
    BY <2>6, <2>7, ForEachSteps, ForEachOnce
  <2>10. PICK q \in Seq(AgentStep) : q = a \o b
    BY <2>8, <2>9, ConcatProperties
  <2>11. /\ Once(q, A \cup B)
         /\ \A i \in 1..Len(q) : \/ q[i].lb \in A /\ \E j \in 1..Len(a) : q[i] = a[j]
                                 \/ q[i].lb \in B /\ \E j \in 1..Len(b) : q[i] = b[j]
    <3>1. OnceEach(a \o b, a, b, A, B)
      <4>1. A \cap B = {} /\ Once(a, A) /\ Once(b, B)
        BY <2>7, <2>8, <2>9
      <4>2. a \in Seq(AgentStep) /\ b \in Seq(AgentStep)
        BY <2>8, <2>9
      <4>. QED  BY <4>1, <4>2, OnceBoth
    <3>. QED  BY <2>10, <3>1 DEF OnceEach
  <2>12. \A i \in 1..Len(q) : \/ q[i].lb \in A /\ q[i] = LrAddStep(q[i].lb, r)
                              \/ q[i].lb \in B /\ q[i] = LsAddStep(q[i].lb, s, FALSE)
    BY <2>8, <2>9, <2>11
  <2>13. todo'["agent"] = q /\ todo'["api"] = todo["api"]
    <3>1. q \o <<>> = q
      BY <2>10, ConcatEmptySeq
    <3>2. todo' = [todo EXCEPT !["agent"] = q]
      BY <2>2, <2>6, <2>10, <3>1 DEF Steps
    <3>. QED  BY <3>2 DEF DInv, BInv, AInv, TodoTypes, Process
  <2>14. \A i \in 1..Len(q) : ~IsEvent(q[i])
    <3>1. \A lb : LrAddStep(lb, r).do = "lr_add" /\ LsAddStep(lb, s, FALSE).do = "ls_add"
      BY DEF LrAddStep, LsAddStep
    <3>2. \A i \in 1..Len(q) : q[i].do \in {"lr_add", "ls_add"}
      BY <2>12, <3>1
    <3>. QED  BY <3>2 DEF IsEvent
  <2>15. ASSUME NEW i \in 1..Len(q), q[i].lb \in Compact
         PROVE  SettledBy(q[i].lb, TxnOf(q[i]))
    <3>1. PICK lb, x : lb = q[i].lb /\ x = q[i]
      OBVIOUS
    <3>2. lb \in live \cap Compact
      BY <2>7, <2>12, <2>15, <3>1
    <3>3. Settled(lb, port \ {<<r, s>>})
      BY <2>6, <3>2
    <3>4. CASE lb \in A /\ x = LrAddStep(lb, r)
      <4>1. x.do = "lr_add" /\ x.r = r /\ x.lb = lb
        BY <3>4 DEF LrAddStep
      <4>2. TxnOf(x) = LrAdd(lb, r)
        BY <4>1 DEF TxnOf
      <4>3. /\ TxnOf(x).noLs = {} /\ TxnOf(x).noLr = {} /\ TxnOf(x).lr = {r}
            /\ TxnOf(x).ls = SwitchesOf(r)
        BY <4>2 DEF LrAdd, Txn
      <4>4. /\ On(lb) \cup {r} = Home(lb, port)
            /\ Switches(lb) \cup SwitchesOf(r) = Place(lb, port)
        BY <2>3, <2>6, <3>2, <3>3, <3>4, PortAdded
      <4>. QED  BY <3>1, <4>3, <4>4 DEF SettledBy
    <3>5. CASE lb \in B /\ x = LsAddStep(lb, s, FALSE)
      <4>1. x.do = "ls_add" /\ x.s = s /\ x.lb = lb
        BY <3>5 DEF LsAddStep
      <4>2. /\ On(lb) = Home(lb, port) /\ s # VipSwitch[lb]
            /\ Switches(lb) \cup {s} = Place(lb, port)
        BY <2>3, <2>6, <3>2, <3>3, <3>5, PortAdded
      <4>3. lsRefs[lb][s] = 0
        <5>1. lsRefs[lb][s] \in Nat
          BY <2>6, <3>2 DEF DInv, BInv, AInv, TypeOK, Compact
        <5>2. todo["api"] = <<>>
          BY <1>2, <2>4, <2>1, <2>5, EventHead
        <5>3. ~(lsRefs[lb][s] > 0)
          BY <2>6, <3>2, <4>2, <5>2, CompactReferences DEF DInv, BInv
        <5>. QED  BY <5>1, <5>3
      <4>4. /\ TxnOf(x).noLs = {} /\ TxnOf(x).noLr = {} /\ TxnOf(x).lr = {}
            /\ TxnOf(x).ls = {s}
        BY <4>1, <4>3, TxnShape
      <4>. QED  BY <3>1, <4>2, <4>4 DEF SettledBy
    <3>. QED  BY <2>12, <3>1, <3>4, <3>5
  <2>16. ASSUME NEW lb \in live \cap Compact, lb \notin A \cup B
         PROVE  Settled(lb, port)
    <3>1. Settled(lb, port \ {<<r, s>>})
      BY <2>6
    <3>. QED  BY <2>3, <2>6, <2>16, <3>1, PortAdded
  <2>. QED  BY <1>2, <2>4, <2>1, <2>5, <2>7, <2>11, <2>13, <2>14, <2>15, <2>16, Listing
<1>. QED  BY <1>1, <1>2 DEF Placements

LEMMA LrpDeletedPlaces ==
    ASSUME DInv, UNCHANGED world, LrpDeleted
    PROVE  LiveOnly' /\ Placements'
<1>1. LiveOnly'
  BY DEF LrpDeleted, DInv, LiveOnly, nb
<1>2. ASSUME world = "calm" PROVE Placements'
  <2>. DEFINE step == Head(todo["agent"])
              r == step.r
              s == step.s
              A == {lb \in lsLb[s] : lsRefs[lb][s] > 0}
              B == lrLb[r] \ A
  <2>1. todo["agent"] # <<>> /\ step.do = "lrp_deleted" /\ UNCHANGED <<port, nb, events>>
    BY DEF LrpDeleted
  <2>2. PICK a \in ForEach(A, LAMBDA lb : LrDelStep(lb, r)),
             b \in ForEach(B, LAMBDA lb : LsDelStep(lb, s, FALSE)) : Steps("agent", a \o b)
    BY DEF LrpDeleted
  <2>3. A = {lb \in lsLb[s] : lsRefs[lb][s] > 0} /\ B = lrLb[r] \ A
    OBVIOUS
  <2>4. step = Head(todo["agent"]) /\ r = step.r /\ s = step.s
    OBVIOUS
  <2>. HIDE DEF step, r, s, A, B
  <2>5. IsEvent(step)
    BY <2>1 DEF IsEvent
  <2>6. /\ s \in Switch /\ r \in Router /\ Tail(todo["agent"]) = <<>>
        /\ OneRouter(port \cup {<<r, s>>}) /\ <<r, s>> \notin port
        /\ todo["api"] = <<>>
        /\ \A lb \in live \cap Compact : Settled(lb, port \cup {<<r, s>>})
    BY <1>2, <2>4, <2>1, <2>5, EventHead DEF Before
  <2>7. /\ A \in SUBSET Lb /\ IsFiniteSet(A) /\ B \in SUBSET Lb /\ IsFiniteSet(B)
        /\ A \cup B \subseteq live /\ A \cap B = {}
    <3>1. /\ lsLb[s] \subseteq live /\ lrLb[r] \subseteq live /\ live \subseteq Lb
          /\ IsFiniteSet(lsLb[s]) /\ IsFiniteSet(lrLb[r])
      BY <2>6, RowsLive DEF DInv, BInv, AInv, TypeOK, Finite
    <3>2. A \subseteq lsLb[s] /\ B \subseteq lrLb[r] /\ A \cap B = {}
      BY <2>3
    <3>3. IsFiniteSet(A) /\ IsFiniteSet(B)
      BY <3>1, <3>2, FS_Subset
    <3>. QED  BY <3>1, <3>2, <3>3
  <2>8. /\ a \in Seq(AgentStep) /\ Once(a, A)
        /\ \A i \in 1..Len(a) : a[i] = LrDelStep(a[i].lb, r)
    BY <2>6, <2>7, ForEachSteps, ForEachOnce
  <2>9. /\ b \in Seq(AgentStep) /\ Once(b, B)
        /\ \A i \in 1..Len(b) : b[i] = LsDelStep(b[i].lb, s, FALSE)
    BY <2>6, <2>7, ForEachSteps, ForEachOnce
  <2>10. PICK q \in Seq(AgentStep) : q = a \o b
    BY <2>8, <2>9, ConcatProperties
  <2>11. /\ Once(q, A \cup B)
         /\ \A i \in 1..Len(q) : \/ q[i].lb \in A /\ \E j \in 1..Len(a) : q[i] = a[j]
                                 \/ q[i].lb \in B /\ \E j \in 1..Len(b) : q[i] = b[j]
    <3>1. OnceEach(a \o b, a, b, A, B)
      <4>1. A \cap B = {} /\ Once(a, A) /\ Once(b, B)
        BY <2>7, <2>8, <2>9
      <4>2. a \in Seq(AgentStep) /\ b \in Seq(AgentStep)
        BY <2>8, <2>9
      <4>. QED  BY <4>1, <4>2, OnceBoth
    <3>. QED  BY <2>10, <3>1 DEF OnceEach
  <2>12. \A i \in 1..Len(q) : \/ q[i].lb \in A /\ q[i] = LrDelStep(q[i].lb, r)
                              \/ q[i].lb \in B /\ q[i] = LsDelStep(q[i].lb, s, FALSE)
    BY <2>8, <2>9, <2>11
  <2>13. todo'["agent"] = q /\ todo'["api"] = todo["api"]
    <3>1. q \o <<>> = q
      BY <2>10, ConcatEmptySeq
    <3>2. todo' = [todo EXCEPT !["agent"] = q]
      BY <2>2, <2>6, <2>10, <3>1 DEF Steps
    <3>. QED  BY <3>2 DEF DInv, BInv, AInv, TodoTypes, Process
  <2>14. \A i \in 1..Len(q) : ~IsEvent(q[i])
    <3>1. \A lb : LrDelStep(lb, r).do = "lr_del" /\ LsDelStep(lb, s, FALSE).do = "ls_del"
      BY DEF LrDelStep, LsDelStep
    <3>2. \A i \in 1..Len(q) : q[i].do \in {"lr_del", "ls_del"}
      BY <2>12, <3>1
    <3>. QED  BY <3>2 DEF IsEvent
  <2>15. ASSUME NEW i \in 1..Len(q), q[i].lb \in Compact
         PROVE  SettledBy(q[i].lb, TxnOf(q[i]))
    <3>1. PICK lb, x : lb = q[i].lb /\ x = q[i]
      OBVIOUS
    <3>2. lb \in live \cap Compact
      BY <2>7, <2>12, <2>15, <3>1
    <3>3. /\ s = VipSwitch[lb] /\ s \notin External =>
                /\ On(lb) = {r} /\ Home(lb, port) = {}
                /\ Switches(lb) \ SwitchesOf(r) = Place(lb, port)
          /\ s # VipSwitch[lb] \/ s \in External => On(lb) = Home(lb, port)
          /\ s # VipSwitch[lb] /\ lb \in lrLb[r] => Switches(lb) \ {s} = Place(lb, port)
          /\ lb \in lsLb[s] => s \notin External
      <4>1. Settled(lb, port \cup {<<r, s>>})
        BY <2>6, <3>2
      <4>. QED  BY <2>6, <3>2, <4>1, PortRemoved
    <3>4. CASE lb \in A /\ x = LrDelStep(lb, r)
      <4>1. x.do = "lr_del" /\ x.r = r /\ x.lb = lb
        BY <3>4 DEF LrDelStep
      <4>2. s = VipSwitch[lb] /\ s \notin External
        BY <2>3, <2>6, <3>2, <3>3, <3>4, CompactReferences DEF DInv, BInv
      <4>3. On(lb) = {r} /\ lrRef[lb] = {r}
        BY <1>2, <3>2, <3>3, <4>2 DEF DInv, BInv, Columns, RouterTexts
      <4>4. /\ TxnOf(x).lr = {} /\ TxnOf(x).noLr = {r} /\ TxnOf(x).noLs = SwitchesOf(r)
        BY <4>1, <4>3, TxnShape
      <4>5. TxnOf(x).ls = {}
        <5>1. TxnOf(x) = LrDel(lb, r)
          BY <4>1 DEF TxnOf
        <5>. QED  BY <5>1 DEF LrDel, Txn
      <4>. QED  BY <3>1, <3>3, <4>2, <4>3, <4>4, <4>5 DEF SettledBy
    <3>5. CASE lb \in B /\ x = LsDelStep(lb, s, FALSE)
      <4>1. x.do = "ls_del" /\ x.s = s /\ x.lb = lb
        BY <3>5 DEF LsDelStep
      <4>2. lsRefs[lb][s] \in Nat
        BY <2>6, <3>2 DEF DInv, BInv, AInv, TypeOK, Compact
      <4>3. ~(lsRefs[lb][s] > 0)
        <5>. SUFFICES ASSUME lsRefs[lb][s] > 0 PROVE FALSE
          OBVIOUS
        <5>1. lb \in lsLb[s]
          BY <2>6, <3>2 DEF DInv, BInv, Columns, Attached
        <5>. QED  BY <2>3, <3>5, <5>1
      <4>4. s # VipSwitch[lb] /\ lb \in lrLb[r]
        <5>1. lb \in lrLb[r]
          BY <2>3, <3>5
        <5>2. r \in Home(lb, port \cup {<<r, s>>})
          BY <2>6, <3>2, <5>1 DEF Settled, On
        <5>3. VipSwitch[lb] \notin External
          BY <5>2 DEF Home
        <5>4. \A t \in Switch : Due("ls_add", lb, t) = 0
          BY <2>6 DEF Due
        <5>5. lsRefs[lb][VipSwitch[lb]] >= 1 + Due("ls_del", lb, VipSwitch[lb])
          BY <3>2, <5>3, <5>4, VipAttached DEF DInv
        <5>6. Due("ls_del", lb, VipSwitch[lb]) = 0
          BY <2>6 DEF Due
        <5>7. s # VipSwitch[lb]
          BY <4>2, <4>3, <5>5, <5>6
        <5>. QED  BY <5>1, <5>7
      <4>5. /\ TxnOf(x).noLr = {} /\ TxnOf(x).lr = {} /\ TxnOf(x).ls = {}
            /\ TxnOf(x).noLs = {s}
        <5>1. lsRefs[lb][s] <= 1
          BY <4>2, <4>3
        <5>. QED  BY <4>1, <5>1, TxnShape
      <4>. QED  BY <3>1, <3>3, <4>4, <4>5 DEF SettledBy
    <3>. QED  BY <2>12, <3>1, <3>4, <3>5
  <2>16. ASSUME NEW lb \in live \cap Compact, lb \notin A \cup B
         PROVE  Settled(lb, port)
    <3>1. Settled(lb, port \cup {<<r, s>>})
      BY <2>6
    <3>2. lb \notin lrLb[r]
      BY <2>3, <2>16
    <3>. QED  BY <2>6, <3>1, <3>2, PortRemoved
  <2>. QED  BY <1>2, <2>4, <2>1, <2>5, <2>7, <2>11, <2>13, <2>14, <2>15, <2>16, Listing
<1>. QED  BY <1>1, <1>2 DEF Placements

-----------------------------------------------------------------------------
(* Transactions take effect                                                *)

LEMMA PreparePlaces ==
    ASSUME DInv, UNCHANGED world, NEW p \in Process, Prepare(p)
    PROVE  LiveOnly' /\ Placements'
BY PlacesFrame DEF Prepare

\* The transaction of a step follows from its row.
LEMMA TxnOfRow ==
    ASSUME NEW step, lsRefs'[step.lb] = lsRefs[step.lb], lrRef'[step.lb] = lrRef[step.lb],
           port' = port
    PROVE  TxnOf(step)' = TxnOf(step)
BY DEF TxnOf, LsAdd, LsDel, LrAdd, LrDel, LbDrop, Txn, SwitchesOf, Ports

\* A transaction moves one row.
LEMMA RowMoved ==
    ASSUME AInv, NEW t \in Transaction, Apply(t)
    PROVE  /\ \A b \in Lb : b # t.lb => On(b)' = On(b) /\ Switches(b)' = Switches(b)
           /\ On(t.lb)' = (On(t.lb) \ t.noLr) \cup t.lr
           /\ Switches(t.lb)' = (Switches(t.lb) \ t.noLs) \cup t.ls
<1>1. /\ \A b \in Lb : b # t.lb => /\ On(b)' = On(b)
                                   /\ \A s \in Switch : b \in lsLb'[s] <=> b \in lsLb[s]
      /\ On(t.lb)' = (On(t.lb) \ t.noLr) \cup t.lr
      /\ \A s \in Switch :
            t.lb \in lsLb'[s] <=> (t.lb \in lsLb[s] /\ s \notin t.noLs) \/ s \in t.ls
  BY ApplyColumns
<1>2. t.ls \subseteq Switch
  BY DEF Transaction
<1>. QED  BY <1>1, <1>2 DEF Switches

\* The rows of the columns are there still.
LEMMA CommitLive ==
    ASSUME BInv, LiveOnly, NEW p \in Process, txn[p] # NoTxn,
           NEW t, t = txn[p], t.lb \in live, Apply(t)
    PROVE  LiveOnly' /\ live' \subseteq live
<1>1. PICK step : step = Head(todo[p])
  OBVIOUS
<1>2. Committed(p, step, t)
  BY <1>1, CommittedTxn
<1>3. t \in Transaction /\ AInv
  BY <1>2 DEF Committed, BInv
<1>4. \A s \in Switch : lsLb'[s] = (lsLb[s] \ (IF s \in t.noLs THEN {t.lb} ELSE {}))
                                   \cup (IF s \in t.ls THEN {t.lb} ELSE {})
  BY DEF Apply
<1>5. CASE step.do = "lb_del"
  <2>1. t = TxnOf(step) /\ t.drop = TRUE
    BY <1>2, <1>5 DEF Committed
  <2>2. t.noLs = Switch /\ t.ls = {}
    BY <1>5, <2>1 DEF TxnOf, LbDrop, Txn
  <2>3. live' = live \ {t.lb}
    BY <1>3, <2>1, ApplyColumns
  <2>4. \A s \in Switch : lsLb'[s] = lsLb[s] \ {t.lb}
    BY <1>4, <2>2
  <2>. QED  BY <2>3, <2>4 DEF LiveOnly
<1>6. CASE step.do # "lb_del"
  <2>1. t.drop = FALSE
    BY <1>2, <1>6 DEF Committed
  <2>2. live' = live
    BY <1>3, <2>1, ApplyColumns
  <2>3. \A s \in Switch : lsLb'[s] \subseteq lsLb[s] \cup {t.lb}
    BY <1>4
  <2>. QED  BY <2>2, <2>3 DEF LiveOnly
<1>. QED  BY <1>5, <1>6

LEMMA CommitSteps ==
    ASSUME AInv, NEW p \in Process, Commit(p), txn[p].lb \in live
    PROVE  Apply(txn[p]) /\ todo'[p] = Tail(todo[p])
<1>1. Apply(txn[p]) /\ todo' = [todo EXCEPT ![p] = <<>> \o Tail(todo[p])]
  BY DEF Commit, Steps
<1>2. todo[p] # <<>>
  BY DEF Commit, AInv, Prepared, Process
<1>3. <<>> \o Tail(todo[p]) = Tail(todo[p])
  <2>1. todo[p] \in Seq(AgentStep \cup ApiStep)
    BY DEF AInv, TodoTypes
  <2>. QED  BY <1>2, <2>1, FirstStep
<1>. QED  BY <1>1, <1>3 DEF AInv, TodoTypes

\* The agent commits what it listed for a row, and that row is in its place.
LEMMA CommitAgentPlaces ==
    ASSUME DInv, UNCHANGED world, Commit("agent")
    PROVE  LiveOnly' /\ Placements'
<1>1. PICK step, t, q, rest : /\ step = Head(todo["agent"]) /\ t = txn["agent"]
                              /\ q = todo["agent"] /\ rest = Tail(q)
  OBVIOUS
<1>2. /\ t # NoTxn /\ UNCHANGED <<port, events>> /\ todo'["api"] = todo["api"]
      /\ \/ t.lb \in live /\ Apply(t)
         \/ t.lb \notin live /\ UNCHANGED nb
  BY <1>1, CommitRest DEF Process, DInv
<1>3. LiveOnly'
  <2>1. CASE t.lb \in live /\ Apply(t)
    BY <1>1, <1>2, <2>1, CommitLive DEF DInv, Process
  <2>2. CASE UNCHANGED nb
    BY <2>2 DEF DInv, LiveOnly, nb
  <2>. QED  BY <1>2, <2>1, <2>2
<1>4. ASSUME world = "calm" PROVE Placements'
  <2>1. /\ OneRouter(port) /\ Lists /\ Directed /\ Placed
        /\ events = <<>> /\ todo["api"] = <<>>
    BY <1>1, <1>2, <1>4, Alone DEF Busy
  <2>2. Committed("agent", step, t)
    BY <1>1, <1>2, CommittedTxn DEF DInv, Process
  <2>3. /\ t \in Transaction /\ t.lb = step.lb /\ t = TxnOf(step) /\ t.drop = FALSE
        /\ ~IsEvent(step) /\ t.lb \in Lb
    BY <1>4, <2>2 DEF Committed, IsEvent
  <2>4. q \in Seq(AgentStep) /\ q # <<>>
    BY <1>1, <1>2 DEF DInv, BInv, AInv, TodoTypes, Prepared
  <2>5. /\ 1 \in 1..Len(q) /\ step = q[1] /\ Len(q) \in Nat \ {0}
        /\ Len(rest) = Len(q) - 1 /\ \A i \in 1..Len(rest) : rest[i] = q[i + 1]
    BY <1>1, <2>4, FirstStep, FirstElement
  <2>6. /\ \A i \in 1..Len(rest) : i + 1 \in 1..Len(q) /\ i + 1 # 1
        /\ \A i \in 1..Len(q) : i # 1 => i - 1 \in 1..Len(rest) /\ i - 1 + 1 = i
    BY <2>5
  <2>7. /\ (\E i \in 1..Len(q) : IsEvent(q[i])) => Len(q) = 1
        /\ \A i \in 1..Len(q) : ~IsEvent(q[i]) =>
              /\ q[i].lb \in live
              /\ \A j \in 1..Len(q) : j # i => q[j].lb # q[i].lb
    BY <1>1, <2>1 DEF Lists
  <2>8. \A i \in 1..Len(q) : ~IsEvent(q[i])
    <3>. SUFFICES ASSUME NEW i \in 1..Len(q), IsEvent(q[i]) PROVE FALSE
      OBVIOUS
    <3>1. Len(q) = 1
      BY <2>7
    <3>2. i = 1
      BY <3>1
    <3>. QED  BY <2>3, <2>5, <3>2
  <2>9. t.lb \in live
    BY <2>3, <2>5, <2>7, <2>8
  <2>10. Apply(t) /\ todo'["agent"] = rest
    BY <1>1, <2>9, CommitSteps DEF DInv, BInv, Process
  <2>11. /\ live' = live
         /\ \A b \in Lb : b # t.lb => lrRef'[b] = lrRef[b] /\ lsRefs'[b] = lsRefs[b]
    <3>1. AInv
      BY DEF DInv, BInv
    <3>2. live' = live
      BY <2>3, <2>10, <3>1, ApplyColumns
    <3>3. ASSUME NEW b \in Lb, b # t.lb
          PROVE  lrRef'[b] = lrRef[b] /\ lsRefs'[b] = lsRefs[b]
      <4>1. lsRefs \in [Lb -> [Switch -> Nat]] /\ lrRef \in [Lb -> SUBSET Router]
        BY <3>1 DEF AInv, TypeOK
      <4>. QED  BY <2>10, <3>3, <4>1 DEF Apply
    <3>. QED  BY <3>2, <3>3
  <2>12. /\ \A b \in Lb : b # t.lb => On(b)' = On(b) /\ Switches(b)' = Switches(b)
         /\ On(t.lb)' = (On(t.lb) \ t.noLr) \cup t.lr
         /\ Switches(t.lb)' = (Switches(t.lb) \ t.noLs) \cup t.ls
    BY <2>3, <2>10, RowMoved DEF DInv, BInv
  <2>13. Len(events) = 0 /\ Len(events') = 0
    <3>1. Len(<<>>) = 0
      OBVIOUS
    <3>. QED  BY <1>2, <2>1, <3>1
  <2>14. Pending = {} /\ Pending' = {}
    <3>1. Pending = {}
      BY <1>1, <2>8, <2>13 DEF Pending
    <3>2. \A i \in 1..Len(rest) : ~IsEvent(rest[i])
      BY <2>5, <2>6, <2>8
    <3>3. Pending' = {}
      BY <2>10, <2>13, <3>2 DEF Pending, IsEvent
    <3>. QED  BY <3>1, <3>3
  <2>15. /\ \A lb, x : x \in Listed(lb) <=> \E i \in 1..Len(q) : x = q[i] /\ q[i].lb = lb
         /\ \A lb, x : x \in Listed(lb)' <=> \E i \in 1..Len(rest) : x = rest[i] /\ rest[i].lb = lb
    <3>1. \A lb, x : x \in Listed(lb) <=> \E i \in 1..Len(q) : x = q[i] /\ q[i].lb = lb
      BY <1>1, <2>8 DEF Listed
    <3>2. \A i \in 1..Len(rest) : ~IsEvent(rest[i])
      BY <2>5, <2>6, <2>8
    <3>3. \A lb, x : x \in Listed(lb)' <=> \E i \in 1..Len(rest) : x = rest[i] /\ rest[i].lb = lb
      BY <2>10, <3>2 DEF Listed, IsEvent
    <3>. QED  BY <3>1, <3>3
  <2>16. step \in Listed(t.lb) /\ Listed(t.lb)' = {}
    <3>1. step \in Listed(t.lb)
      BY <2>3, <2>5, <2>15
    <3>2. \A i \in 1..Len(rest) : rest[i].lb # t.lb
      <4>1. \A j \in 1..Len(q) : j # 1 => q[j].lb # q[1].lb
        BY <2>5, <2>7, <2>8
      <4>. QED  BY <2>3, <2>5, <2>6, <4>1
    <3>3. \A x : x \notin Listed(t.lb)'
      BY <2>15, <3>2
    <3>. QED  BY <3>1, <3>3
  <2>17. ASSUME NEW lb, lb # t.lb
         PROVE  \A x : x \in Listed(lb)' <=> x \in Listed(lb)
    <3>1. ASSUME NEW i \in 1..Len(rest)
          PROVE  \E j \in 1..Len(q) : rest[i] = q[j]
      BY <2>5, <2>6
    <3>2. ASSUME NEW i \in 1..Len(q), q[i].lb = lb
          PROVE  \E j \in 1..Len(rest) : q[i] = rest[j]
      <4>1. i # 1
        BY <2>3, <2>5, <2>17, <3>2
      <4>2. i - 1 \in 1..Len(rest) /\ rest[i - 1] = q[i]
        BY <2>5, <2>6, <4>1
      <4>. QED  BY <4>2
    <3>. QED  BY <2>15, <3>1, <3>2
  <2>18. Heard' /\ Directed' /\ OneRouter(port)'
    BY <1>2, <2>1, <2>14, DirectedFrame DEF Heard, OneRouter
  <2>19. Lists'
    <3>1. \A i \in 1..Len(rest) : ~IsEvent(rest[i])
      BY <2>5, <2>6, <2>8
    <3>2. \A i \in 1..Len(rest) : rest[i].lb \in live
      BY <2>5, <2>6, <2>7, <2>8
    <3>3. ASSUME NEW i \in 1..Len(rest), NEW j \in 1..Len(rest), i # j
          PROVE  rest[j].lb # rest[i].lb
      <4>1. rest[i] = q[i + 1] /\ rest[j] = q[j + 1] /\ i + 1 # j + 1
        BY <2>5, <3>3
      <4>2. i + 1 \in 1..Len(q) /\ j + 1 \in 1..Len(q)
        BY <2>6
      <4>. QED  BY <2>7, <2>8, <4>1, <4>2
    <3>. QED  BY <2>10, <2>11, <3>1, <3>2, <3>3 DEF Lists, IsEvent
  <2>20. Placed'
    <3>. SUFFICES ASSUME NEW lb \in live \cap Compact
                  PROVE  /\ \A x \in Listed(lb)' : SettledBy(lb, TxnOf(x))'
                         /\ ~Adding(lb)'
                         /\ Listed(lb)' = {} => Settled(lb, port)'
      BY <2>11, <2>14 DEF Placed, Compact
    <3>1. ~Adding(lb)' /\ ~Adding(lb)
      BY <1>2, <2>1 DEF Adding
    <3>2. /\ \A x \in Listed(lb) : SettledBy(lb, TxnOf(x))
          /\ Listed(lb) = {} => Settled(lb, port)
      BY <2>1, <2>14, <3>1 DEF Placed
    <3>3. CASE lb = t.lb
      <4>1. SettledBy(lb, t)
        BY <2>3, <2>16, <3>2, <3>3
      <4>2. Settled(lb, port)'
        BY <1>2, <2>12, <3>3, <4>1 DEF SettledBy, Settled
      <4>. QED  BY <2>16, <3>1, <3>3, <4>2
    <3>4. CASE lb # t.lb
      <4>1. lb \in Lb
        BY DEF Compact
      <4>2. On(lb)' = On(lb) /\ Switches(lb)' = Switches(lb)
        BY <2>12, <3>4, <4>1
      <4>3. ASSUME NEW x \in Listed(lb) PROVE SettledBy(lb, TxnOf(x))'
        <5>1. x.lb = lb
          BY <2>15
        <5>2. lsRefs'[x.lb] = lsRefs[x.lb] /\ lrRef'[x.lb] = lrRef[x.lb]
          BY <2>11, <3>4, <4>1, <5>1
        <5>3. TxnOf(x)' = TxnOf(x)
          BY <1>2, <5>2, TxnOfRow
        <5>4. SettledBy(lb, TxnOf(x))
          BY <3>2
        <5>. QED  BY <1>2, <4>2, <5>3, <5>4 DEF SettledBy
      <4>4. \A x : x \in Listed(lb)' <=> x \in Listed(lb)
        BY <2>17, <3>4
      <4>5. Listed(lb)' = {} => Listed(lb) = {}
        BY <4>4
      <4>6. Settled(lb, port) => Settled(lb, port)'
        BY <1>2, <4>2 DEF Settled
      <4>. QED  BY <3>1, <3>2, <4>3, <4>4, <4>5, <4>6
    <3>. QED  BY <3>3, <3>4
  <2>. QED  BY <2>18, <2>19, <2>20 DEF Placements
<1>. QED  BY <1>3, <1>4 DEF Placements

\* What is left to the API worker is directed as before.
LEMMA DirectedRest ==
    ASSUME BInv, Directed, port' = port, todo["api"] # <<>>,
           todo'["api"] = Tail(todo["api"])
    PROVE  Directed'
<1>1. PICK step, rest : step = Head(todo["api"]) /\ rest = Tail(todo["api"])
  OBVIOUS
<1>2. /\ step \in ApiStep /\ rest \in Seq(ApiStep)
      /\ rest # <<>> => Head(rest).do = "find_lr" /\ rest[1] = Head(rest)
  BY <1>1, ApiRest DEF BInv
<1>3. \A i \in 1..Len(rest) : \E j \in 1..Len(todo["api"]) : rest[i] = todo["api"][j]
  <2>1. todo["api"] \in Seq(ApiStep)
    BY DEF BInv, AInv, TodoTypes
  <2>. QED  BY <1>1, <2>1, TailElements
<1>4. \A i \in 1..Len(rest) :
         /\ rest[i].lb = step.lb
         /\ step.lb \in Compact =>
               /\ rest[i].do \in {"ls_add", "ls_del", "find_lr"} => rest[i].s = VipSwitch[step.lb]
               /\ rest[i].do \in {"ls_add", "ls_del"} => rest[i].s \notin External
               /\ rest[i].do = "lr_add" => rest[i].r \in RoutersOf(VipSwitch[step.lb])
  <2>. SUFFICES ASSUME NEW i \in 1..Len(rest)
                PROVE  /\ rest[i].lb = step.lb
                       /\ step.lb \in Compact =>
                             /\ rest[i].do \in {"ls_add", "ls_del", "find_lr"} =>
                                   rest[i].s = VipSwitch[step.lb]
                             /\ rest[i].do \in {"ls_add", "ls_del"} => rest[i].s \notin External
                             /\ rest[i].do = "lr_add" =>
                                   rest[i].r \in RoutersOf(VipSwitch[step.lb])
    OBVIOUS
  <2>1. PICK j \in 1..Len(todo["api"]) : rest[i] = todo["api"][j]
    BY <1>3
  <2>2. todo["api"][j].lb = step.lb
    BY <1>1, DirectedHead
  <2>. QED  BY <2>1, <2>2 DEF Directed
<1>5. Len(rest) = 1 => rest[1].do # "ls_add"
  <2>1. Len(rest) = 1 => rest # <<>>
    OBVIOUS
  <2>2. "find_lr" # "ls_add"
    OBVIOUS
  <2>. QED  BY <1>2, <2>1, <2>2
<1>. QED  BY <1>1, <1>2, <1>4, <1>5, DirectedNext

\* The API worker commits a step on a compact row.
LEMMA CommittedPlace ==
    ASSUME DInv, world = "calm", Commit("api"), NEW step, step = Head(todo["api"]),
           NEW t, t = txn["api"], Apply(t), step.lb \in Compact, todo["api"] # <<>>
    PROVE  /\ step.do = "ls_add" => /\ Partial(step.lb)'
                                    /\ Tail(todo["api"]) # <<>>
           /\ step.do \in {"ls_del", "lr_add"} => Settled(step.lb, port)'
<1>1. PICK lb, v : lb = step.lb /\ v = VipSwitch[lb]
  OBVIOUS
<1>2. /\ txn["api"] # NoTxn /\ port' = port
  BY DEF Commit
<1>3. Committed("api", step, t)
  BY <1>2, CommittedTxn DEF DInv, Process
<1>4. t \in Transaction /\ t.lb = lb /\ t = TxnOf(step) /\ lb \in live
  BY <1>1, <1>3 DEF Committed
<1>5. /\ On(lb)' = (On(lb) \ t.noLr) \cup t.lr
      /\ Switches(lb)' = (Switches(lb) \ t.noLs) \cup t.ls
  BY <1>4, RowMoved DEF DInv, BInv
<1>6. /\ events = <<>> /\ todo["agent"] = <<>> /\ Directed /\ Placed /\ OneRouter(port)
  BY <1>2, Alone DEF Busy
<1>7. /\ step.do \in {"ls_add", "ls_del"} => step.s = v /\ v \notin External
      /\ step.do = "lr_add" => step.r \in RoutersOf(v)
      /\ Adding(lb) <=> step.do \in {"ls_add", "find_lr", "lr_add"}
  BY <1>1, <1>6, DirectedHead DEF DInv
<1>8. /\ Adding(lb) => Partial(lb)
      /\ ~Adding(lb) => Settled(lb, port)
  BY <1>1, <1>4, <1>6, IdleAgent DEF Placed, DInv, BInv
<1>9. v \in Switch /\ lb \in Compact
  BY <1>1, AssociationAssumption DEF Compact
<1>10. /\ Home(lb, port) \subseteq Router
       /\ \A r \in Router : r \in Home(lb, port) <=> v \notin External /\ <<r, v>> \in port
       /\ Place(lb, port) \subseteq Switch \ External
       /\ v \notin External => v \in Place(lb, port)
       /\ \A s \in Switch \ External, r \in Home(lb, port) :
             <<r, s>> \in port => s \in Place(lb, port)
       /\ \A s \in Place(lb, port) : s # v => \E r \in Home(lb, port) : <<r, s>> \in port
  BY <1>1, <1>9, HomePlace
<1>11. ASSUME step.do = "ls_add" PROVE Partial(lb)' /\ Tail(todo["api"]) # <<>>
  <2>1. t.noLs = {} /\ t.noLr = {} /\ t.lr = {} /\ t.ls \subseteq {v}
    BY <1>4, <1>7, <1>11, TxnShape
  <2>2. Partial(lb) /\ v \in Place(lb, port)
    BY <1>7, <1>8, <1>10, <1>11
  <2>3. Partial(lb)'
    BY <1>2, <1>5, <2>1, <2>2 DEF Partial
  <2>4. Tail(todo["api"]) # <<>>
    <3>1. todo["api"] \in Seq(ApiStep)
      BY DEF DInv, BInv, AInv, TodoTypes
    <3>2. /\ Len(todo["api"]) \in Nat \ {0} /\ step = todo["api"][1]
          /\ Len(Tail(todo["api"])) = Len(todo["api"]) - 1
      BY <3>1, FirstStep
    <3>3. Len(todo["api"]) # 1
      BY <1>6, <1>11, <3>2 DEF Directed
    <3>4. Len(Tail(todo["api"])) # 0
      BY <3>2, <3>3
    <3>5. Len(<<>>) = 0
      OBVIOUS
    <3>. QED  BY <3>4, <3>5
  <2>. QED  BY <2>3, <2>4
<1>12. ASSUME step.do = "lr_add" PROVE Settled(lb, port)'
  <2>1. PICK r : r = step.r
    OBVIOUS
  <2>2. r \in Router /\ <<r, v>> \in port /\ v \notin External
    BY <1>7, <1>12, <2>1 DEF RoutersOf
  <2>3. t.noLs = {} /\ t.noLr = {} /\ t.lr = {r} /\ t.ls = SwitchesOf(r)
    <3>1. t = LrAdd(lb, r)
      BY <1>1, <1>4, <1>12, <2>1 DEF TxnOf
    <3>. QED  BY <3>1 DEF LrAdd, Txn
  <2>4. Home(lb, port) = {r}
    <3>1. \A x \in Router : x \in Home(lb, port) <=> x = r
      BY <1>6, <1>9, <1>10, <2>2 DEF OneRouter
    <3>. QED  BY <1>10, <2>2, <3>1
  <2>5. SwitchesOf(r) = {s \in Switch \ External : <<r, s>> \in port}
    BY DEF SwitchesOf, Ports
  <2>6. \A s : s \in Place(lb, port) <=> s \in SwitchesOf(r)
    <3>1. ASSUME NEW s \in Place(lb, port) PROVE s \in SwitchesOf(r)
      <4>1. CASE s = v
        BY <1>9, <2>2, <2>5, <4>1
      <4>2. CASE s # v
        <5>1. <<r, s>> \in port
          BY <1>10, <2>4, <4>2
        <5>. QED  BY <1>10, <2>5, <5>1
      <4>. QED  BY <4>1, <4>2
    <3>2. ASSUME NEW s \in SwitchesOf(r) PROVE s \in Place(lb, port)
      BY <1>10, <2>4, <2>5
    <3>. QED  BY <3>1, <3>2
  <2>7. Partial(lb)
    BY <1>7, <1>8, <1>12
  <2>8. On(lb)' = Home(lb, port) /\ Switches(lb)' = Place(lb, port)
    BY <1>5, <2>3, <2>4, <2>6, <2>7 DEF Partial
  <2>. QED  BY <1>2, <2>8 DEF Settled
<1>13. ASSUME step.do = "ls_del" PROVE Settled(lb, port)'
  <2>1. /\ v \notin External /\ step.s = v /\ Settled(lb, port)
    BY <1>7, <1>8, <1>13
  <2>2. \A s \in Switch : Due("ls_add", lb, s) = 0
    BY <1>13 DEF Due
  <2>3. Due("ls_del", lb, v) = 1
    BY <1>1, <1>13, <2>1 DEF Due
  <2>4. lsRefs[lb][v] >= 1 + Due("ls_del", lb, v)
    BY <1>1, <1>4, <1>9, <2>1, <2>2, VipAttached DEF DInv
  <2>5. lsRefs[lb][v] \in Nat
    BY <1>9 DEF DInv, BInv, AInv, TypeOK, Compact
  <2>6. ~(lsRefs[lb][v] <= 1)
    BY <2>3, <2>4, <2>5
  <2>7. t.noLs = {} /\ t.noLr = {} /\ t.lr = {} /\ t.ls = {}
    BY <1>1, <1>4, <1>13, <2>1, <2>6, TxnShape
  <2>. QED  BY <1>2, <1>5, <2>1, <2>7 DEF Settled
<1>. QED  BY <1>1, <1>11, <1>12, <1>13

LEMMA CommitApiPlaces ==
    ASSUME DInv, AInv', UNCHANGED world, Commit("api")
    PROVE  LiveOnly' /\ Placements'
<1>1. PICK step, t, rest : /\ step = Head(todo["api"]) /\ t = txn["api"]
                           /\ rest = Tail(todo["api"])
  OBVIOUS
<1>2. /\ t # NoTxn /\ UNCHANGED <<port, events>> /\ todo'["agent"] = todo["agent"]
  BY <1>1, CommitRest DEF Process, DInv
<1>3. Committed("api", step, t) /\ t.lb \in live /\ todo["api"] # <<>>
  <2>1. Committed("api", step, t)
    BY <1>1, <1>2, CommittedTxn DEF DInv, Process
  <2>. QED  BY <1>1, <1>2, <2>1 DEF Committed, DInv, BInv, AInv, Prepared
<1>4. Apply(t) /\ todo'["api"] = rest
  BY <1>1, <1>3, CommitSteps DEF DInv, BInv, Process
<1>5. LiveOnly' /\ live' \subseteq live
  BY <1>1, <1>2, <1>3, <1>4, CommitLive DEF DInv, Process
<1>6. ASSUME world = "calm" PROVE Placements'
  <2>1. events = <<>> /\ todo["agent"] = <<>> /\ Directed /\ Placed
    BY <1>1, <1>2, <1>6, Alone DEF Busy
  <2>2. Pending = {} /\ \A lb : Listed(lb) = {}
    BY <2>1, IdleAgent DEF DInv, BInv
  <2>3. \A lb : Adding(lb) <=> lb = step.lb /\ step.do \in {"ls_add", "find_lr", "lr_add"}
    BY <1>1, <1>3, <2>1, DirectedHead DEF DInv
  <2>4. t.lb = step.lb /\ t \in Transaction
        /\ step.do \in {"ls_add", "ls_del", "lr_add", "lr_del", "lb_del"} /\ step.do # "lr_del"
        /\ t.drop = IF step.do = "lb_del" THEN TRUE ELSE FALSE
    BY <1>3 DEF Committed
  <2>5. Directed'
    BY <1>1, <1>2, <1>3, <1>4, <2>1, DirectedRest DEF DInv
  <2>6. rest # <<>> => Head(rest).do = "find_lr" /\ Head(rest).lb = step.lb
    <3>1. rest \in Seq(ApiStep) /\ (rest # <<>> => Head(rest).do = "find_lr")
      BY <1>1, <1>3, ApiRest DEF DInv, BInv
    <3>2. rest # <<>> => Head(rest).lb = step.lb
      <4>1. todo["api"] \in Seq(ApiStep)
        BY DEF DInv, BInv, AInv, TodoTypes
      <4>2. rest # <<>> => 1 \in 1..Len(rest) /\ Head(rest) = rest[1]
        BY <3>1, FirstElement
      <4>3. \A i \in 1..Len(rest) : \E j \in 1..Len(todo["api"]) : rest[i] = todo["api"][j]
        BY <1>1, <1>3, <4>1, TailElements
      <4>4. \A j \in 1..Len(todo["api"]) : todo["api"][j].lb = step.lb
        BY <1>1, <1>3, <2>1, DirectedHead DEF DInv
      <4>. QED  BY <4>2, <4>3, <4>4
    <3>. QED  BY <3>1, <3>2
  <2>7. \A lb : Adding(lb)' <=> rest # <<>> /\ lb = step.lb
    BY <1>4, <2>6, AddingNext
  <2>8. ASSUME NEW lb \in live' \cap Compact
        PROVE  /\ Adding(lb)' => Partial(lb)'
               /\ ~Adding(lb)' => Settled(lb, port)'
    <3>1. CASE lb = step.lb
      <4>1. step.do # "lb_del"
        <5>. SUFFICES ASSUME step.do = "lb_del" PROVE FALSE
          OBVIOUS
        <5>1. t.drop = TRUE
          BY <2>4
        <5>2. live' = live \ {t.lb}
          BY <1>4, <2>4, <5>1, ApplyColumns DEF DInv, BInv
        <5>. QED  BY <2>4, <3>1, <5>2
      <4>2. /\ step.do = "ls_add" => Partial(lb)' /\ rest # <<>>
            /\ step.do \in {"ls_del", "lr_add"} => Settled(lb, port)'
        BY <1>1, <1>3, <1>4, <1>6, <3>1, CommittedPlace
      <4>3. rest # <<>> => step.do = "ls_add"
        BY <1>1, <1>3, ApiRest DEF DInv, BInv
      <4>. QED  BY <2>4, <2>7, <3>1, <4>1, <4>2, <4>3
    <3>2. CASE lb # step.lb
      <4>1. lb \in Lb /\ lb \in live /\ ~Adding(lb)
        BY <1>5, <2>3, <3>2 DEF Compact
      <4>2. Settled(lb, port)
        BY <2>1, <2>2, <4>1 DEF Placed
      <4>3. On(lb)' = On(lb) /\ Switches(lb)' = Switches(lb)
        BY <1>4, <2>4, <3>2, <4>1, RowMoved DEF DInv, BInv
      <4>. QED  BY <1>2, <2>7, <3>2, <4>2, <4>3 DEF Settled
    <3>. QED  BY <3>1, <3>2
  <2>. QED  BY <1>2, <1>6, <2>1, <2>5, <2>8, ApiPlaces
<1>. QED  BY <1>5, <1>6 DEF Placements

-----------------------------------------------------------------------------
(* The theorems about the places of rows                                   *)

LEMMA InitPlaces == Init => DInv
<1>. SUFFICES ASSUME Init PROVE DInv
  OBVIOUS
<1>1. BInv
  BY InitColumns
<1>2. /\ events = <<>> /\ todo["agent"] = <<>> /\ todo["api"] = <<>>
      /\ live = {} /\ port = {} /\ \A s \in Switch : lsLb[s] = {}
  BY DEF Init, Process
<1>3. Len(events) = 0 /\ Len(todo["agent"]) = 0 /\ Len(todo["api"]) = 0
  <2>1. Len(<<>>) = 0
    OBVIOUS
  <2>. QED  BY <1>2, <2>1
<1>4. Pending = {}
  BY <1>3 DEF Pending
<1>5. LiveOnly /\ OneRouter(port) /\ Heard /\ Lists /\ Directed /\ Placed
  BY <1>2, <1>3, <1>4 DEF LiveOnly, OneRouter, Heard, Lists, Directed, Placed
<1>. QED  BY <1>1, <1>5 DEF DInv, Placements

LEMMA NextPlaces ==
    ASSUME DInv, [Next]_vars
    PROVE  DInv'
<1>1. BInv' /\ AInv'
  <2>1. BInv'
    BY NextColumns DEF DInv
  <2>. QED  BY <2>1 DEF BInv
<1>2. CASE Next
  <2>1. UNCHANGED world
    BY <1>2 DEF Next
  <2>2. ASSUME NEW p \in Process, Prepare(p) \/ Commit(p) \/ FindRouter(p)
        PROVE  LiveOnly' /\ Placements'
    BY <1>1, <2>1, <2>2, PreparePlaces, CommitAgentPlaces, CommitApiPlaces, FindPlaces,
       FindRouterAgent DEF Process, DInv, BInv
  <2>3. ASSUME TakeEvent \/ LrpCreated \/ LrpDeleted
        PROVE  LiveOnly' /\ Placements'
    BY <2>1, <2>3, TakePlaces, LrpCreatedPlaces, LrpDeletedPlaces
  <2>4. ASSUME NEW lb \in Lb, LbCreate(lb) \/ LbDelete(lb)
        PROVE  LiveOnly' /\ Placements'
    BY <1>1, <2>1, <2>4, LbCreatePlaces, LbDeletePlaces
  <2>5. ASSUME NEW m \in Member, MemberAdd(m) \/ MemberRemove(m)
        PROVE  LiveOnly' /\ Placements'
    BY <1>1, <2>1, <2>5, MemberAddPlaces, MemberRemovePlaces
  <2>6. ASSUME NEW r \in Router, NEW s \in Switch, PortCreate(r, s) \/ PortDelete(r, s)
        PROVE  LiveOnly' /\ Placements'
    BY <2>1, <2>6, PortCreatePlaces, PortDeletePlaces
  <2>7. LiveOnly' /\ Placements'
    BY <1>2, <2>2, <2>3, <2>4, <2>5, <2>6 DEF Next
  <2>. QED  BY <1>1, <2>7 DEF DInv
<1>3. CASE UNCHANGED vars
  <2>1. LiveOnly' /\ Placements'
    BY <1>3, PlacesFrame DEF vars
  <2>. QED  BY <1>1, <2>1 DEF DInv
<1>. QED  BY <1>2, <1>3

\* At a quiet moment of a calm world a compact row is where it belongs.
LEMMA QuietPlaces ==
    ASSUME DInv, Quiet, world = "calm", NEW lb \in live \cap Compact
    PROVE  Settled(lb, port) /\ todo["api"] = <<>>
<1>1. /\ events = <<>> /\ todo["agent"] = <<>> /\ todo["api"] = <<>>
  BY DEF Quiet, Busy, Process
<1>2. Pending = {} /\ Listed(lb) = {} /\ ~Adding(lb)
  BY <1>1, IdleAgent DEF DInv, BInv, Adding
<1>. QED  BY <1>1, <1>2, Alone DEF Placed

\* Where each row is, between any two steps of the handlers.
THEOREM PlaceInvariance == Spec => []DInv
<1>. QED  BY InitPlaces, NextPlaces, PTL DEF Spec

\* At every quiet moment of a calm world the router of the VIP's switch has the row of
\* a compact load balancer, and so has every switch of that router: lb_create and
\* lb_create_lrp_assoc together miss none, in whatever order ports come and go.
THEOREM RoutersCovered == Spec => []RouterCovered
<1>1. ASSUME DInv PROVE RouterCovered
  <2>. SUFFICES ASSUME Quiet, world = "calm", NEW lb \in live \cap Compact,
                       NEW r \in RoutersOf(VipSwitch[lb])
                PROVE  lb \in lrLb[r] /\ \A s \in SwitchesOf(r) : lb \in lsLb[s]
    BY DEF RouterCovered
  <2>1. On(lb) = Home(lb, port) /\ Switches(lb) = Place(lb, port)
    BY <1>1, QuietPlaces DEF Settled
  <2>2. r \in Home(lb, port)
    BY HomeIsRouters
  <2>3. \A s \in SwitchesOf(r) : s \in Place(lb, port)
    BY <2>2, HomePlace DEF SwitchesOf, Ports
  <2>. QED  BY <2>1, <2>2, <2>3 DEF On, Switches
<1>. QED  BY <1>1, PlaceInvariance, PTL

\* At every quiet moment of a calm world a router that has the row of a compact load
\* balancer has a switch with references of it: lb_delete_lrp_assoc and _lb_delete
\* leave no router behind.
THEOREM RoutersNeeded == Spec => []RouterNeeded
<1>1. ASSUME DInv PROVE RouterNeeded
  <2>. SUFFICES ASSUME Quiet, world = "calm", NEW lb \in live \cap Compact,
                       NEW r \in Router, lb \in lrLb[r]
                PROVE  \E s \in SwitchesOf(r) : lsRefs[lb][s] > 0
    BY DEF RouterNeeded
  <2>1. Settled(lb, port) /\ todo["api"] = <<>>
    BY <1>1, QuietPlaces
  <2>2. r \in Home(lb, port)
    BY <2>1 DEF Settled, On
  <2>3. PICK v : v = VipSwitch[lb]
    OBVIOUS
  <2>4. v \notin External /\ <<r, v>> \in port
    BY <2>2, <2>3, HomePlace
  <2>5. \A s : Due("ls_add", lb, s) = 0 /\ Due("ls_del", lb, s) = 0
    BY <2>1 DEF Due
  <2>6. v \in Switch /\ lsRefs[lb][v] >= 1 + Due("ls_del", lb, v)
    BY <1>1, <2>3, <2>4, <2>5, VipAttached DEF DInv
  <2>7. lsRefs[lb][v] \in Nat
    BY <1>1, <2>6 DEF DInv, BInv, AInv, TypeOK, Compact
  <2>8. v \in SwitchesOf(r) /\ lsRefs[lb][v] > 0
    BY <2>4, <2>5, <2>6, <2>7 DEF SwitchesOf, Ports
  <2>. QED  BY <2>8
<1>. QED  BY <1>1, PlaceInvariance, PTL
=============================================================================
