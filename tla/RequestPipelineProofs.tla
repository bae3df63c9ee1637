----------------------- MODULE RequestPipelineProofs -----------------------
(***************************************************************************)
(* What holds of RequestPipeline for any number of helpers, pools and      *)
(* members.                                                                *)
(*                                                                         *)
(* While every call has one status, with statuses refused and processes    *)
(* restarted, the inductive invariant PInv says that at most one request   *)
(* with a status is anywhere, in a queue or under way, that there is none  *)
(* while the load balancer takes calls, and how far the database is from   *)
(* Octavia's records at each phase of that request.                        *)
(*                                                                         *)
(* With every call in one process, SInv says which requests make up for    *)
(* each difference between the row and Octavia's records.                  *)
(***************************************************************************)
EXTENDS RequestPipeline, FiniteSetTheorems, TLAPS

\* Requests of calls with one status, and those of them that have it.
Counted == [op : {"member_create", "member_delete"}, on : Member]
Plain   == Counted \cup [op : {"dvr"}, on : Member]
PlainJob ==
    {Idle}
    \cup [phase : {"write", "record"}, req : Counted, seen : SUBSET Member]
    \cup [phase : {"status"}, req : Counted]
    \cup [phase : {"send"}, req : Counted, tries : 0..(MaxAttempts - 1)]

\* Where a queue has requests with a status, and who is busy with one.
Real(q) == {i \in DOMAIN q : q[i].op # "dvr"}
Busy(w) == job[w] # Idle

\* Octavia's members without and with the effect of a request.
Before(req) == IF req.op = "member_create" THEN oMembers \ {req.on} ELSE oMembers
After(req)  == IF req.op = "member_create" THEN oMembers ELSE oMembers \ {req.on}

Shows(listed, recorded) == row = listed /\ vips = listed /\ statuses = recorded

PlainTypes ==
    /\ pending \in BOOLEAN
    /\ oPools = Pool /\ keys = Pool
    /\ oMembers \subseteq Member
    /\ queue \in [Worker -> Seq(Plain)]
    /\ job \in [Worker -> PlainJob]

\* At most one request with a status, and none while calls are taken.
Alone ==
    \A v, w \in Worker :
       /\ Busy(v) /\ Busy(w) => v = w
       /\ Busy(v) => Real(queue[w]) = {}
       /\ \A i \in Real(queue[v]), j \in Real(queue[w]) : v = w /\ i = j
       /\ ~pending => ~Busy(w) /\ Real(queue[w]) = {}

\* What the database shows before a request is taken, and in its phases.
Untouched(req) == req.on \in oMembers /\ Shows(Before(req), Before(req))

PhaseOK(j) ==
    /\ j.req.on \in oMembers
    /\ j.phase = "write" => j.seen = row /\ Shows(Before(j.req), Before(j.req))
    /\ j.phase \in {"status", "record"} => Shows(After(j.req), Before(j.req))
    /\ j.phase = "record" => j.seen = statuses
    /\ j.phase = "send" => Shows(After(j.req), After(j.req))

Phases ==
    /\ ~pending => Shows(oMembers, oMembers)
    /\ \A w \in Worker : \A i \in Real(queue[w]) : Untouched(queue[w][i])
    /\ \A w \in Worker : Busy(w) => PhaseOK(job[w])

PInv == OneStatus => PlainTypes /\ Alone /\ Phases

-----------------------------------------------------------------------------
(* Queues                                                                  *)

LEMMA TailOfQueue ==
    ASSUME NEW q \in Seq(Plain), q # <<>>
    PROVE  /\ Head(q) \in Plain /\ Tail(q) \in Seq(Plain)
           /\ Head(q) = q[1] /\ 1 \in DOMAIN q
           /\ \A i \in Real(Tail(q)) : i + 1 \in Real(q) /\ Tail(q)[i] = q[i + 1]
           /\ Real(Tail(q)) # {} /\ Head(q).op # "dvr" =>
                 \E i, j \in Real(q) : i # j
<1>1. /\ Len(q) \in Nat \ {0} /\ DOMAIN q = 1..Len(q) /\ Head(q) = q[1]
      /\ Head(q) \in Plain
  OBVIOUS
<1>2. /\ Tail(q) \in Seq(Plain) /\ Len(Tail(q)) = Len(q) - 1
      /\ DOMAIN Tail(q) = 1..(Len(q) - 1)
      /\ \A i \in 1..(Len(q) - 1) : Tail(q)[i] = q[i + 1]
  OBVIOUS
<1>3. \A i \in Real(Tail(q)) : i + 1 \in Real(q) /\ Tail(q)[i] = q[i + 1] /\ i + 1 # 1
  BY <1>1, <1>2 DEF Real
<1>4. Head(q).op # "dvr" => 1 \in Real(q)
  BY <1>1 DEF Real
<1>5. Real(Tail(q)) # {} /\ Head(q).op # "dvr" => \E i, j \in Real(q) : i # j
  BY <1>3, <1>4
<1>6. 1 \in DOMAIN q
  BY <1>1
<1> QED BY <1>1, <1>2, <1>3, <1>5, <1>6

LEMMA QueueGrows ==
    ASSUME NEW q \in Seq(Plain), Real(q) = {},
           NEW a \in Counted, NEW b \in [op : {"dvr"}, on : Member]
    PROVE  /\ q \o <<a, b>> \in Seq(Plain)
           /\ Real(q \o <<a, b>>) = {Len(q) + 1}
           /\ (q \o <<a, b>>)[Len(q) + 1] = a
<1> DEFINE s == q \o <<a, b>>
<1>1. a \in Plain /\ b \in Plain /\ a.op # "dvr" /\ b.op = "dvr"
  BY DEF Plain, Counted
<1>2. /\ Len(q) \in Nat /\ DOMAIN q = 1..Len(q)
      /\ s \in Seq(Plain) /\ Len(s) = Len(q) + 2 /\ DOMAIN s = 1..(Len(q) + 2)
      /\ s[Len(q) + 1] = a /\ s[Len(q) + 2] = b
      /\ \A i \in 1..Len(q) : s[i] = q[i]
  BY <1>1
<1>3. \A i \in 1..Len(q) : q[i].op = "dvr"
  BY <1>2 DEF Real
<1>4. Real(s) = {Len(q) + 1}
  <2>1. \A i \in DOMAIN s : s[i].op # "dvr" <=> i = Len(q) + 1
    <3> SUFFICES ASSUME NEW i \in 1..(Len(q) + 2)
                 PROVE  s[i].op # "dvr" <=> i = Len(q) + 1
      BY <1>2
    <3>1. i \in 1..Len(q) \/ i = Len(q) + 1 \/ i = Len(q) + 2
      BY <1>2
    <3> QED BY <3>1, <1>1, <1>2, <1>3
  <2> QED BY <2>1, <1>2 DEF Real
<1> QED BY <1>2, <1>4

-----------------------------------------------------------------------------
(* The first state, calls, and the steps of a helper                       *)

LEMMA InitOK == Init => PInv
<1> SUFFICES ASSUME Init PROVE PInv
  OBVIOUS
<1>1. \A w \in Worker : queue[w] = <<>> /\ job[w] = Idle
  BY DEF Init
<1>2. <<>> \in Seq(Plain) /\ Real(<<>>) = {}
  BY DEF Real
<1>3. PlainTypes
  BY <1>2 DEF Init, PlainTypes, PlainJob
<1>4. Alone /\ Phases
  BY <1>1, <1>2 DEF Init, Alone, Phases, Busy, Shows
<1> QED BY <1>3, <1>4 DEF PInv

\* A call of one status is accepted while nothing with a status is anywhere.
LEMMA AcceptOK ==
    ASSUME OneStatus, PInv, NEW w \in Worker, NEW m \in Member,
           \/ CreateMember(w, m) \/ DeleteMember(w, m)
    PROVE  PInv'
<1>1. PlainTypes /\ Alone /\ Phases
  BY DEF PInv
<1>2. PICK op \in {"member_create", "member_delete"} :
         /\ ~pending /\ pending' = TRUE
         /\ queue' = [queue EXCEPT ![w] =
                         @ \o <<[op |-> op, on |-> m], [op |-> "dvr", on |-> m]>>]
         /\ oMembers' = oMembers \cup {m}
         /\ op = "member_create" <=> m \notin oMembers
         /\ UNCHANGED <<oPools, job, nb, lost, deployment>>
  <2>1. CASE CreateMember(w, m)
    BY <2>1 DEF CreateMember, Accept, Enqueue, CreateRequests, Unused
  <2>2. CASE DeleteMember(w, m)
    BY <2>2 DEF DeleteMember, Accept, Enqueue, DeleteRequests
  <2> QED BY <2>1, <2>2
<1> DEFINE a == [op |-> op, on |-> m]
           b == [op |-> "dvr", on |-> m]
           q == queue[w]
<1>3. a \in Counted /\ b \in [op : {"dvr"}, on : Member]
  BY DEF Counted
<1>4. q \in Seq(Plain) /\ Real(q) = {}
  BY <1>1, <1>2 DEF PlainTypes, Alone
<1>5. /\ q \o <<a, b>> \in Seq(Plain)
      /\ Real(q \o <<a, b>>) = {Len(q) + 1}
      /\ (q \o <<a, b>>)[Len(q) + 1] = a
  BY <1>3, <1>4, QueueGrows
<1> HIDE DEF a, b, q
<1>6. /\ \A v \in Worker : queue'[v] = IF v = w THEN q \o <<a, b>> ELSE queue[v]
      /\ \A v \in Worker : Real(queue[v]) = {} /\ ~Busy(v)
  BY <1>1, <1>2 DEF PlainTypes, Alone, a, b, q
<1>7. PlainTypes'
  BY <1>1, <1>2, <1>5 DEF PlainTypes, nb, a, b, q
<1>8. /\ \A v \in Worker : Real(queue[v])' = IF v = w THEN {Len(q) + 1} ELSE {}
      /\ \A v \in Worker : ~Busy(v)'
  <2>1. \A v \in Worker : Real(queue[v])' = Real(queue'[v])
    BY DEF Real
  <2> QED BY <1>2, <1>5, <1>6, <2>1 DEF Busy
<1>9. Alone'
  <2>1. \A u, v \in Worker :
           \A i \in Real(queue[u])', j \in Real(queue[v])' : u = v /\ i = j
    BY <1>8
  <2> QED BY <1>2, <1>8, <2>1 DEF Alone
<1>10. Phases'
  <2>1. Shows(oMembers, oMembers)
    BY <1>1, <1>2 DEF Phases
  <2>2. Untouched(a)'
    BY <1>2, <2>1 DEF Untouched, Shows, Before, nb, a
  <2>3. \A v \in Worker : \A i \in Real(queue[v])' : queue'[v][i] = a
    BY <1>5, <1>6, <1>8
  <2> QED BY <1>2, <1>8, <2>2, <2>3 DEF Phases
<1> QED BY <1>7, <1>9, <1>10 DEF PInv

LEMMA BeginOK ==
    ASSUME OneStatus, PInv, NEW w \in Worker, Begin(w)
    PROVE  PInv'
<1> DEFINE q == queue[w]
<1>1. PlainTypes /\ Alone /\ Phases
  BY DEF PInv
<1>2. q \in Seq(Plain) /\ q # <<>> /\ queue' = [queue EXCEPT ![w] = Tail(q)]
      /\ UNCHANGED <<octavia, nb, lost, deployment>>
  BY <1>1 DEF PlainTypes, Begin
<1>3. PICK req \in Plain :
      /\ req = Head(q) /\ Tail(q) \in Seq(Plain) /\ req = q[1] /\ 1 \in DOMAIN q
      /\ \A i \in Real(Tail(q)) : i + 1 \in Real(q) /\ Tail(q)[i] = q[i + 1]
      /\ Real(Tail(q)) # {} /\ req.op # "dvr" => \E i, j \in Real(q) : i # j
  BY <1>2, TailOfQueue
<1>4. /\ \A v \in Worker \ {w} : queue'[v] = queue[v]
      /\ queue'[w] = Tail(q)
      /\ \A v \in Worker : Real(queue[v])' = Real(queue'[v])
  BY <1>1, <1>2 DEF PlainTypes, Real
<1>5. CASE req.op = "dvr"
  <2>1. UNCHANGED job
    BY <1>3, <1>5 DEF Begin
  <2>2. PlainTypes'
    BY <1>1, <1>2, <1>3, <2>1 DEF PlainTypes, octavia, nb
  <2>3. \A v \in Worker : Busy(v)' <=> Busy(v)
    BY <2>1 DEF Busy
  <2>4. \A v \in Worker : \A i \in Real(queue[v])' :
           \E k \in Real(queue[v]) : /\ queue'[v][i] = queue[v][k]
                                     /\ k = IF v = w THEN i + 1 ELSE i
    BY <1>3, <1>4
  <2>5. \A v \in Worker : \A i \in Real(queue[v])' : i \in Int
    BY <2>2 DEF Real, PlainTypes
  <2>6. Alone'
    <3>1. \A v \in Worker : Real(queue[v]) = {} => Real(queue[v])' = {}
      BY <2>4
    <3>2. \A u, v \in Worker :
             \A i \in Real(queue[u])', j \in Real(queue[v])' : u = v /\ i = j
      <4> SUFFICES ASSUME NEW u \in Worker, NEW v \in Worker,
                          NEW i \in Real(queue[u])', NEW j \in Real(queue[v])'
                   PROVE  u = v /\ i = j
        OBVIOUS
      <4>1. PICK k \in Real(queue[u]) : k = IF u = w THEN i + 1 ELSE i
        BY <2>4
      <4>2. PICK l \in Real(queue[v]) : l = IF v = w THEN j + 1 ELSE j
        BY <2>4
      <4>3. u = v /\ k = l
        BY <1>1 DEF Alone
      <4>4. CASE u = w
        <5>1. i \in Int /\ j \in Int
          BY <2>5
        <5>2. v = w /\ i + 1 = j + 1
          BY <4>1, <4>2, <4>3, <4>4
        <5> QED BY <5>1, <5>2, <4>4
      <4>5. CASE u # w
        BY <4>1, <4>2, <4>3, <4>5
      <4> QED BY <4>4, <4>5
    <3> QED BY <1>1, <1>2, <2>3, <3>1, <3>2 DEF Alone, octavia
  <2>7. Phases'
    <3>1. \A r : Untouched(r)' = Untouched(r) /\ PhaseOK(r)' = PhaseOK(r)
      BY <1>2 DEF Untouched, PhaseOK, Before, After, Shows, octavia, nb
    <3>2. Shows(oMembers, oMembers)' = Shows(oMembers, oMembers) /\ pending' = pending
      BY <1>2 DEF Shows, octavia, nb
    <3>3. \A v \in Worker : \A i \in Real(queue[v])' : \A r :
             r = queue'[v][i] => Untouched(r)'
      BY <1>1, <2>4, <3>1 DEF Phases
    <3>4. (\A v \in Worker : \A i \in Real(queue[v]) : Untouched(queue[v][i]))'
      BY <3>3
    <3>5. \A v \in Worker : \A j : j = job'[v] /\ Busy(v)' => PhaseOK(j)'
      BY <1>1, <2>1, <2>3, <3>1 DEF Phases
    <3>6. (\A v \in Worker : Busy(v) => PhaseOK(job[v]))'
      BY <3>5
    <3> QED BY <1>1, <3>2, <3>4, <3>6 DEF Phases
  <2> QED BY <2>2, <2>6, <2>7 DEF PInv
<1>6. CASE req.op # "dvr"
  <2>1. req \in Counted /\ 1 \in Real(q)
    BY <1>3, <1>6 DEF Plain, Real
  <2>2. /\ \A v \in Worker : ~Busy(v)
        /\ \A v \in Worker \ {w} : Real(queue[v]) = {}
        /\ Real(Tail(q)) = {}
        /\ pending
    BY <1>1, <1>3, <1>6, <2>1 DEF Alone, PlainTypes
  <2>3. Untouched(req)
    BY <1>1, <1>3, <2>1 DEF Phases
  <2>4. req.op \in {"member_create", "member_delete"} /\ req.on \in Member
    BY <2>1 DEF Counted
  <2>5. PICK j : /\ j = [phase |-> "write", req |-> req, seen |-> row]
                 /\ job' = [job EXCEPT ![w] = j]
    BY <1>1, <1>3, <2>4, PipelineAssumption DEF Begin, Becomes, PlainTypes
  <2>6. row \subseteq Member
    BY <1>1, <2>3 DEF PlainTypes, Untouched, Shows, Before
  <2>7. j \in PlainJob /\ j # Idle
    BY <2>1, <2>5, <2>6 DEF PlainJob, Idle
  <2>8. PlainTypes'
    BY <1>1, <1>2, <1>3, <2>5, <2>7 DEF PlainTypes, octavia, nb
  <2>9. /\ \A v \in Worker : Real(queue[v])' = {}
        /\ \A v \in Worker : Busy(v)' => v = w
        /\ job'[w] = j
    BY <1>1, <1>4, <2>2, <2>5 DEF Busy, PlainTypes
  <2>10. Alone'
    BY <1>2, <2>2, <2>9 DEF Alone, octavia
  <2>11. Phases'
    <3>1. PhaseOK(j)'
      BY <1>2, <2>3, <2>5 DEF PhaseOK, Untouched, octavia, nb, Shows, Before
    <3> QED BY <1>2, <2>2, <2>9, <3>1 DEF Phases, octavia
  <2> QED BY <2>8, <2>10, <2>11 DEF PInv
<1> QED BY <1>5, <1>6

\* A step of the busy helper, which leaves all queues alone.
LEMMA BusyStep ==
    ASSUME OneStatus, PInv, NEW w \in Worker, Busy(w), NEW j \in PlainJob,
           UNCHANGED <<queue, oPools, keys>>, job' = [job EXCEPT ![w] = j],
           oMembers' \subseteq oMembers,
           pending' \in BOOLEAN,
           ~pending' => j = Idle /\ Shows(oMembers, oMembers)',
           j # Idle => PhaseOK(j)'
    PROVE  PInv'
<1>1. PlainTypes /\ Alone /\ Phases
  BY DEF PInv
<1>2. PlainTypes'
  BY <1>1 DEF PlainTypes
<1>3. /\ \A v \in Worker : Real(queue[v])' = {}
      /\ \A v \in Worker : Busy(v)' => v = w /\ j # Idle
      /\ job'[w] = j
  <2>1. \A v \in Worker : Real(queue[v])' = Real(queue[v])
    BY DEF Real
  <2>2. \A v \in Worker : Real(queue[v]) = {} /\ (Busy(v) => v = w)
    BY <1>1 DEF Alone
  <2> QED BY <1>1, <2>1, <2>2 DEF PlainTypes, Busy
<1>4. Alone'
  BY <1>3 DEF Alone
<1>5. Phases'
  BY <1>3 DEF Phases
<1> QED BY <1>2, <1>4, <1>5 DEF PInv

\* What is known of a helper in the middle of a request.
LEMMA AtWork ==
    ASSUME OneStatus, PInv, NEW w \in Worker, ~Phase(w, "idle")
    PROVE  /\ Busy(w) /\ pending /\ PhaseOK(job[w]) /\ job \in [Worker -> PlainJob]
           /\ job[w].req \in Counted /\ job[w].req.on \in Member
           /\ job[w].req.op \in {"member_create", "member_delete"}
           /\ job[w].phase \in {"write", "record"} => job[w].seen \subseteq Member
           /\ job[w].phase = "send" => job[w] \in
                 [phase : {"send"}, req : Counted, tries : 0..(MaxAttempts - 1)]
           /\ oPools = Pool /\ keys = Pool
<1>1. PlainTypes /\ Alone /\ Phases
  BY DEF PInv
<1>2. Busy(w)
  BY DEF Busy, Phase, Idle
<1>3. job[w] \in PlainJob /\ job \in [Worker -> PlainJob]
  BY <1>1 DEF PlainTypes
<1>4. job[w].req \in Counted
  BY <1>2, <1>3 DEF PlainJob, Busy
<1>5. pending /\ PhaseOK(job[w])
  BY <1>1, <1>2 DEF Alone, Phases, PlainTypes
<1>6. /\ job[w].phase \in {"write", "record"} => job[w].seen \subseteq Member
      /\ job[w].phase = "send" => job[w] \in
            [phase : {"send"}, req : Counted, tries : 0..(MaxAttempts - 1)]
  BY <1>2, <1>3 DEF PlainJob, Busy
<1>7. oPools = Pool /\ keys = Pool
  BY <1>1 DEF PlainTypes
<1> QED BY <1>2, <1>3, <1>4, <1>5, <1>6, <1>7 DEF Counted

LEMMA WriteOK ==
    ASSUME OneStatus, PInv, NEW w \in Worker, Write(w)
    PROVE  PInv'
<1>1. Phase(w, "write") /\ ~Phase(w, "idle")
  BY DEF Write, Phase
<1>2. /\ Busy(w) /\ pending /\ PhaseOK(job[w]) /\ job \in [Worker -> PlainJob]
      /\ job[w].req \in Counted /\ job[w].req.on \in Member
      /\ job[w].req.op \in {"member_create", "member_delete"}
      /\ oPools = Pool /\ keys = Pool
  BY <1>1, AtWork
<1>3. PICK req : req = job[w].req
  OBVIOUS
<1>4. PICK j : j = [phase |-> "status", req |-> req]
  OBVIOUS
<1>5. job' = [job EXCEPT ![w] = j] /\ UNCHANGED <<octavia, queue, statuses, deployment>>
  BY <1>2, <1>3, <1>4 DEF Write, Becomes
<1>6. j \in PlainJob /\ j # Idle /\ j.req = req /\ j.phase = "status"
  BY <1>2, <1>3, <1>4 DEF PlainJob, Idle
<1>7. /\ req.on \in oMembers /\ job[w].seen = row
      /\ row = Before(req) /\ vips = Before(req) /\ statuses = Before(req)
  BY <1>1, <1>2, <1>3 DEF PhaseOK, Phase, Shows
<1>8. PoolOf[req.on] \in Pool /\ req.on \in MembersOf(PoolOf[req.on])
  BY <1>2, <1>3, PipelineAssumption DEF MembersOf
<1>9. keys' = keys /\ row' = After(req) /\ vips' = After(req)
  <2>1. CASE req.op = "member_create"
    <3>1. WritePool(w, PoolOf[req.on], row \cup {req.on})
      BY <2>1, <1>3, <1>7 DEF Write, Before
    <3>2. After(req) = row \cup {req.on}
      BY <2>1, <1>7 DEF Before, After
    <3> QED BY <1>2, <1>8, <3>1, <3>2 DEF WritePool
  <2>2. CASE req.op = "member_delete"
    <3>1. WritePool(w, PoolOf[req.on], row \ {req.on})
      BY <2>2, <1>3, <1>7 DEF Write, Before
    <3>2. row = oMembers /\ After(req) = row \ {req.on}
      BY <2>2, <1>7 DEF Before, After
    <3> QED BY <1>2, <1>8, <3>1, <3>2 DEF WritePool
  <2> QED BY <1>2, <1>3, <2>1, <2>2
<1>10. PhaseOK(j)'
  BY <1>5, <1>6, <1>7, <1>9 DEF PhaseOK, Shows, After, Before, octavia
<1> QED BY <1>2, <1>5, <1>6, <1>9, <1>10, BusyStep DEF octavia

LEMMA ReadStatusesOK ==
    ASSUME OneStatus, PInv, NEW w \in Worker, ReadStatuses(w)
    PROVE  PInv'
<1>1. Phase(w, "status") /\ ~Phase(w, "idle")
  BY DEF ReadStatuses, Phase
<1>2. /\ Busy(w) /\ pending /\ PhaseOK(job[w]) /\ job[w].req \in Counted
      /\ job[w].req.on \in Member
  BY <1>1, AtWork
<1>3. PICK j : j = [phase |-> "record", req |-> job[w].req, seen |-> statuses]
  OBVIOUS
<1>4. job' = [job EXCEPT ![w] = j] /\ UNCHANGED <<octavia, queue, nb, deployment>>
  BY <1>3 DEF ReadStatuses, Becomes
<1>5. PlainTypes /\ statuses = Before(job[w].req)
  BY <1>1, <1>2 DEF PInv, PhaseOK, Phase, Shows
<1>6. j \in PlainJob /\ j # Idle
  BY <1>2, <1>3, <1>5 DEF PlainJob, Idle, PlainTypes, Before
<1>7. PhaseOK(j)'
  BY <1>1, <1>2, <1>3, <1>4 DEF PhaseOK, Phase, Shows, After, Before, octavia, nb
<1> QED BY <1>2, <1>4, <1>6, <1>7, BusyStep DEF octavia, nb

LEMMA RecordOK ==
    ASSUME OneStatus, PInv, NEW w \in Worker, Record(w)
    PROVE  PInv'
<1>1. Phase(w, "record") /\ ~Phase(w, "idle")
  BY DEF Record, Phase
<1>2. /\ Busy(w) /\ pending /\ PhaseOK(job[w]) /\ job[w].req \in Counted
      /\ job[w].req.on \in Member /\ oPools = Pool /\ keys = Pool
      /\ job[w].req.op \in {"member_create", "member_delete"}
  BY <1>1, AtWork
<1>3. PICK req : req = job[w].req
  OBVIOUS
<1>4. PICK j : j = [phase |-> "send", req |-> req, tries |-> 0]
  OBVIOUS
<1>5. /\ job' = [job EXCEPT ![w] = j]
      /\ UNCHANGED <<octavia, queue, keys, row, vips, deployment>>
      /\ statuses' = IF req.op = "member_delete" THEN job[w].seen \ {req.on}
                                                 ELSE job[w].seen \cup {req.on}
  BY <1>2, <1>3, <1>4 DEF Record, Becomes
<1>6. j \in PlainJob /\ j # Idle
  BY <1>2, <1>3, <1>4, PipelineAssumption DEF PlainJob, Idle
<1>7. PhaseOK(j)'
  <2>1. /\ req.on \in oMembers /\ job[w].seen = Before(req)
        /\ row = After(req) /\ vips = After(req)
    BY <1>1, <1>2, <1>3 DEF PhaseOK, Phase, Shows
  <2>2. statuses' = After(req)
    BY <1>2, <1>3, <1>5, <2>1 DEF Before, After
  <2> QED BY <1>4, <1>5, <2>1, <2>2 DEF PhaseOK, Shows, After, octavia
<1> QED BY <1>2, <1>5, <1>6, <1>7, BusyStep DEF octavia

LEMMA SendOK ==
    ASSUME OneStatus, PInv, NEW w \in Worker, Send(w) \/ SendFails(w)
    PROVE  PInv'
<1>1. Phase(w, "send") /\ ~Phase(w, "idle")
  BY DEF Send, SendFails, Phase
<1>2. /\ Busy(w) /\ pending /\ PhaseOK(job[w]) /\ job[w].req \in Counted
      /\ job[w].req.on \in Member
      /\ job[w].req.op \in {"member_create", "member_delete"}
      /\ job[w] \in [phase : {"send"}, req : Counted, tries : 0..(MaxAttempts - 1)]
  BY <1>1, AtWork DEF Phase
<1>3. PICK req : req = job[w].req
  OBVIOUS
<1>4. Shows(After(req), After(req)) /\ req.on \in oMembers
  BY <1>1, <1>2, <1>3 DEF PhaseOK, Phase
<1>5. CASE Send(w)
  <2>1. /\ job' = [job EXCEPT ![w] = Idle] /\ pending' = FALSE
        /\ UNCHANGED <<queue, oPools, nb, deployment>> /\ oMembers' = After(req)
    BY <1>2, <1>3, <1>5 DEF Send, Becomes, After
  <2>2. Idle \in PlainJob
    BY DEF PlainJob
  <2>3. oMembers' \subseteq oMembers /\ Shows(oMembers, oMembers)'
    BY <1>4, <2>1 DEF Shows, After, nb
  <2> QED BY <1>2, <2>1, <2>2, <2>3, BusyStep DEF nb
<1>6. CASE SendFails(w)
  <2>1. PICK j : /\ j \in {Idle, [job[w] EXCEPT !.tries = job[w].tries + 1]}
                 /\ job[w].tries + 1 = MaxAttempts => j = Idle
                 /\ job' = [job EXCEPT ![w] = j]
    BY <1>6 DEF SendFails, Becomes
  <2>2. UNCHANGED <<octavia, queue, nb, deployment>>
    BY <1>6 DEF SendFails
  <2>3. j # Idle => j.req = req /\ j.phase = "send"
    BY <1>2, <1>3, <2>1
  <2>4. j \in PlainJob
    BY <1>2, <2>1, PipelineAssumption DEF PlainJob
  <2>5. j # Idle => PhaseOK(j)'
    BY <1>4, <2>2, <2>3 DEF PhaseOK, Shows, After, octavia, nb
  <2> QED BY <1>2, <2>1, <2>2, <2>4, <2>5, BusyStep DEF octavia, nb
<1> QED BY <1>5, <1>6

LEMMA RestartOK ==
    ASSUME OneStatus, PInv, NEW w \in Worker, Restart(w)
    PROVE  PInv'
<1>1. PlainTypes /\ Alone /\ Phases
  BY DEF PInv
<1>2. /\ queue' = [queue EXCEPT ![w] = <<>>] /\ job' = [job EXCEPT ![w] = Idle]
      /\ UNCHANGED <<octavia, nb, deployment>>
  BY DEF Restart, Becomes
<1>3. <<>> \in Seq(Plain) /\ Real(<<>>) = {} /\ Idle \in PlainJob
  BY DEF Real, PlainJob
<1>4. PlainTypes'
  BY <1>1, <1>2, <1>3 DEF PlainTypes, octavia, nb
<1>5. /\ \A v \in Worker : Real(queue[v])' = IF v = w THEN {} ELSE Real(queue[v])
      /\ \A v \in Worker : v # w => queue'[v] = queue[v] /\ job'[v] = job[v]
      /\ \A v \in Worker : Busy(v)' => v # w /\ Busy(v)
  <2>1. \A v \in Worker : Real(queue[v])' = Real(queue'[v])
    BY DEF Real
  <2> QED BY <1>1, <1>2, <1>3, <2>1 DEF PlainTypes, Busy
<1>6. Alone'
  <2>1. \A u, v \in Worker :
           \A i \in Real(queue[u])', j \in Real(queue[v])' : u = v /\ i = j
    BY <1>1, <1>5 DEF Alone
  <2> QED BY <1>1, <1>2, <1>5, <2>1 DEF Alone, octavia
<1>7. Phases'
  <2>1. \A r : Untouched(r)' = Untouched(r) /\ PhaseOK(r)' = PhaseOK(r)
    BY <1>2 DEF Untouched, PhaseOK, Before, After, Shows, octavia, nb
  <2>2. Shows(oMembers, oMembers)' = Shows(oMembers, oMembers) /\ pending' = pending
    BY <1>2 DEF Shows, octavia, nb
  <2>3. \A v \in Worker : \A i \in Real(queue[v])' : \A r :
           r = queue'[v][i] => Untouched(r)'
    BY <1>1, <1>5, <2>1 DEF Phases
  <2>4. (\A v \in Worker : \A i \in Real(queue[v]) : Untouched(queue[v][i]))'
    BY <2>3
  <2>5. \A v \in Worker : \A j : j = job'[v] /\ Busy(v)' => PhaseOK(j)'
    BY <1>1, <1>5, <2>1 DEF Phases
  <2>6. (\A v \in Worker : Busy(v) => PhaseOK(job[v]))'
    BY <2>5
  <2> QED BY <1>1, <2>2, <2>4, <2>6 DEF Phases
<1> QED BY <1>4, <1>6, <1>7 DEF PInv

LEMMA DeploymentStays == [Next]_vars => deployment' = deployment
<1> SUFFICES ASSUME [Next]_vars PROVE deployment' = deployment
  OBVIOUS
<1>1. CASE UNCHANGED vars
  BY <1>1 DEF vars
<1>2. ASSUME NEW w \in Worker, Step(w) \/ Restart(w) PROVE deployment' = deployment
  BY <1>2 DEF Step, Begin, Write, ReadStatuses, Record, Send, SendFails, Restart
<1>3. ASSUME NEW w \in Worker, NEW m \in Member, CreateMember(w, m) \/ DeleteMember(w, m)
      PROVE  deployment' = deployment
  BY <1>3 DEF CreateMember, DeleteMember, Accept
<1>4. ASSUME NEW w \in Worker, NEW p \in Pool,
             DeletePool(w, p) \/ \E wanted \in SUBSET MembersOf(p) : BatchUpdate(w, p, wanted)
      PROVE  deployment' = deployment
  BY <1>4 DEF DeletePool, BatchUpdate, Accept
<1> QED BY <1>1, <1>2, <1>3, <1>4 DEF Next

LEMMA NextOK == PInv /\ [Next]_vars => PInv'
<1> SUFFICES ASSUME PInv, [Next]_vars PROVE PInv'
  OBVIOUS
<1>1. deployment' = deployment
  BY DeploymentStays
<1>2. OneStatus' = OneStatus
  BY <1>1 DEF OneStatus
<1>3. CASE ~OneStatus
  BY <1>2, <1>3 DEF PInv
<1>4. CASE OneStatus /\ UNCHANGED vars
  <2>1. UNCHANGED <<pending, oPools, oMembers, queue, job, keys, row, vips, statuses>>
    BY <1>4 DEF vars, octavia, nb
  <2>2. PlainTypes /\ Alone /\ Phases
    BY <1>4 DEF PInv
  <2>3. PlainTypes' /\ Alone' /\ Phases'
    BY <2>1, <2>2 DEF PlainTypes, Alone, Phases, Busy, Untouched, PhaseOK, Before,
                      After, Shows
  <2> QED BY <2>3 DEF PInv
<1>5. CASE OneStatus /\ Next
  <2>1. "pool_delete" \notin deployment.calls /\ "batch" \notin deployment.calls
    BY <1>5 DEF OneStatus
  <2>2. PICK w \in Worker :
           \/ \E m \in Member : CreateMember(w, m) \/ DeleteMember(w, m)
           \/ Step(w)
           \/ Restart(w)
    BY <1>5, <2>1 DEF Next, DeletePool, BatchUpdate
  <2>3. CASE \E m \in Member : CreateMember(w, m) \/ DeleteMember(w, m)
    BY <1>5, <2>3, AcceptOK
  <2>4. CASE Step(w)
    BY <1>5, <2>4, BeginOK, WriteOK, ReadStatusesOK, RecordOK, SendOK DEF Step
  <2>5. CASE Restart(w)
    BY <1>5, <2>5, RestartOK
  <2> QED BY <2>2, <2>3, <2>4, <2>5
<1> QED BY <1>3, <1>4, <1>5

-----------------------------------------------------------------------------
(* Theorems                                                                *)

\* Whatever the calls, statuses refused and restarts: as long as every call has one
\* status, at most one request with a status exists, and the database lags behind
\* Octavia's records by that request only.
THEOREM Invariance == Spec => []PInv
<1>1. Init => PInv
  BY InitOK
<1>2. PInv /\ [Next]_vars => PInv'
  BY NextOK
<1> QED BY <1>1, <1>2, PTL DEF Spec

\* Where every call has one status, the database shows exactly the members that
\* Octavia has whenever it takes calls (_add_member, _remove_member,
\* _update_external_ids_member_status, and the status as the last step).
THEOREM DatabaseFollows == Spec => []InSync
<1>1. PInv => InSync
  BY DEF PInv, Phases, Shows, InSync
<1> QED BY <1>1, Invariance, PTL

-----------------------------------------------------------------------------
(* One handler at a time                                                   *)

\* Where two processes take calls, every call has one status.
Separate ==
    \A d \in Deployments : \/ d.calls \subseteq {"create", "delete"}
                          \/ \A v, w \in d.workers : v = w

\* Only processes that take calls have something to do.
Workers ==
    /\ deployment \in Deployments
    /\ DOMAIN queue = Worker /\ DOMAIN job = Worker
    /\ \A w \in Worker : queue[w] # <<>> \/ job[w] # Idle => w \in deployment.workers

LEMMA WorkersOK == Workers /\ [Next]_vars => Workers'
<1> SUFFICES ASSUME Workers, [Next]_vars PROVE Workers'
  OBVIOUS
<1>1. deployment' = deployment
  BY DeploymentStays
<1>2. CASE UNCHANGED vars
  BY <1>2 DEF vars, Workers
<1>3. ASSUME NEW w \in Worker, w \in deployment.workers,
             \E q : queue' = queue \/ queue' = [queue EXCEPT ![w] = q],
             \E j : job' = job \/ job' = [job EXCEPT ![w] = j]
      PROVE  Workers'
  BY <1>1, <1>3 DEF Workers
<1>4. ASSUME NEW w \in Worker, Step(w) PROVE Workers'
  <2>1. queue[w] # <<>> \/ job[w] # Idle
    BY <1>4 DEF Step, Begin, Write, ReadStatuses, Record, Send, SendFails, Phase, Idle
  <2>2. \E q : queue' = queue \/ queue' = [queue EXCEPT ![w] = q]
    BY <1>4 DEF Step, Begin, Write, ReadStatuses, Record, Send, SendFails
  <2>3. \E j : job' = job \/ job' = [job EXCEPT ![w] = j]
    <3>1. CASE Begin(w)
      BY <3>1 DEF Begin, Becomes
    <3>2. CASE Write(w)
      BY <3>2 DEF Write, Becomes
    <3>3. CASE ~Begin(w) /\ ~Write(w)
      BY <1>4, <3>3 DEF Step, ReadStatuses, Record, Send, SendFails, Becomes
    <3> QED BY <3>1, <3>2, <3>3
  <2> QED BY <1>3, <2>1, <2>2, <2>3 DEF Workers
<1>5. ASSUME NEW w \in Worker, Restart(w) PROVE Workers'
  BY <1>3, <1>5 DEF Restart, Becomes, Workers
<1>6. ASSUME NEW w \in Worker, NEW requests, Accept(w, requests) PROVE Workers'
  BY <1>3, <1>6 DEF Accept, Enqueue
<1>7. ASSUME NEW w \in Worker, NEW m \in Member, CreateMember(w, m) \/ DeleteMember(w, m)
      PROVE  Workers'
  BY <1>6, <1>7 DEF CreateMember, DeleteMember
<1>8. ASSUME NEW w \in Worker, NEW p \in Pool,
             DeletePool(w, p) \/ \E wanted \in SUBSET MembersOf(p) : BatchUpdate(w, p, wanted)
      PROVE  Workers'
  BY <1>6, <1>8 DEF DeletePool, BatchUpdate
<1> QED BY <1>2, <1>4, <1>5, <1>7, <1>8 DEF Next

\* Two threads are never both in a handler: where two processes take calls, Octavia's
\* lock keeps them apart, in spite of refused statuses and restarts (add_request,
\* request_handler).
THEOREM HandlersAlone == ASSUME Separate PROVE Spec => []OneHandlerAtATime
<1>1. Init => Workers
  BY DEF Init, Workers
<1>2. Workers /\ [Next]_vars => Workers'
  BY WorkersOK
<1>3. Workers /\ PInv => OneHandlerAtATime
  <2> SUFFICES ASSUME Workers, PInv PROVE OneHandlerAtATime
    OBVIOUS
  <2>1. CASE OneStatus
    BY <2>1 DEF PInv, Alone, Busy, OneHandlerAtATime
  <2>2. CASE ~OneStatus
    BY <2>2, Separate DEF Separate, Workers, OneStatus, OneHandlerAtATime
  <2> QED BY <2>1, <2>2
<1> QED BY <1>1, <1>2, <1>3, Invariance, PTL DEF Spec

-----------------------------------------------------------------------------
(* The helpers keep the promise of CallService                              *)

\* After a loss nothing with a status is left, and no call is taken.
Stuck == OneStatus /\ lost => /\ pending
                             /\ \A w \in Worker : ~Busy(w) /\ Real(queue[w]) = {}

RInv == PInv /\ Stuck /\ lost \in BOOLEAN

LEMMA WaitingIs ==
    ASSUME NEW w \in Worker, queue[w] \in Seq(Plain)
    PROVE  /\ Real(queue[w]) = {} => \A req \in Range(queue[w]) : req.op = "dvr"
           /\ (\A req \in Range(queue[w]) : req.op = "dvr") => Real(queue[w]) = {}
           /\ Waiting(w) = Range(queue[w]) \cup (IF Busy(w) THEN {job[w].req} ELSE {})
BY DEF Real, Range, Waiting, Busy

\* What is doomed while one helper is busy, and while nothing waits.
LEMMA DoomedWhenBusy ==
    ASSUME OneStatus, PInv, NEW w \in Worker, Busy(w)
    PROVE  oMembers \ Doomed = After(job[w].req)
<1>1. PlainTypes /\ Alone
  BY DEF PInv
<1>2. ~Phase(w, "idle")
  BY <1>1 DEF Busy, Phase, PlainTypes, PlainJob, Idle
<1>3. /\ job[w].req.op \in {"member_create", "member_delete"}
      /\ job[w].req.on \in Member
  BY <1>2, AtWork
<1>4. \A v \in Worker : \A req \in Waiting(v) :
         req.op = "dvr" \/ (v = w /\ req = job[w].req)
  BY <1>1, WaitingIs DEF Alone, PlainTypes
<1>5. job[w].req \in Waiting(w)
  BY <1>1, WaitingIs DEF PlainTypes
<1>6. Doomed = IF job[w].req.op = "member_delete" THEN {job[w].req.on} ELSE {}
  BY <1>3, <1>4, <1>5 DEF Doomed, Unfinished
<1> QED BY <1>3, <1>6 DEF After

LEMMA DoomedWhenFree ==
    PlainTypes /\ (\A w \in Worker : ~Busy(w) /\ Real(queue[w]) = {}) => Doomed = {}
<1> SUFFICES ASSUME PlainTypes, \A w \in Worker : ~Busy(w) /\ Real(queue[w]) = {}
             PROVE  Doomed = {}
  OBVIOUS
<1>1. \A v \in Worker : \A req \in Waiting(v) : req.op = "dvr"
  BY WaitingIs DEF PlainTypes
<1> QED BY <1>1 DEF Doomed, Unfinished

LEMMA DoomedNextWhenFree ==
    /\ PlainTypes'
    /\ \A w \in Worker : ~Busy(w)' /\ Real(queue[w])' = {}
    => Doomed' = {}
<1>1. (PlainTypes /\ (\A w \in Worker : ~Busy(w) /\ Real(queue[w]) = {})
         => Doomed = {})'
  BY DoomedWhenFree, PTL
<1> QED BY <1>1

\* Taking a request changes nothing of what waits, but for a request without status.
LEMMA TakingKeeps ==
    ASSUME OneStatus, PInv, NEW w \in Worker, Begin(w)
    PROVE  Doomed' = Doomed
<1> DEFINE q == queue[w]
<1>1. PlainTypes
  BY DEF PInv
<1>2. q \in Seq(Plain) /\ q # <<>> /\ queue' = [queue EXCEPT ![w] = Tail(q)]
      /\ ~Busy(w)
  BY <1>1 DEF PlainTypes, PlainJob, Begin, Busy, Phase, Idle
<1>3. Range(q) = {Head(q)} \cup Range(Tail(q)) /\ Head(q) \in Plain
  <2>1. /\ DOMAIN q = 1..Len(q) /\ Len(q) \in Nat \ {0} /\ Head(q) = q[1]
        /\ DOMAIN Tail(q) = 1..(Len(q) - 1) /\ Head(q) \in Plain
        /\ \A i \in 1..(Len(q) - 1) : Tail(q)[i] = q[i + 1]
    BY <1>2
  <2>2. ASSUME NEW i \in 1..Len(q), i # 1
        PROVE  i - 1 \in DOMAIN Tail(q) /\ Tail(q)[i - 1] = q[i]
    <3>1. i - 1 \in 1..(Len(q) - 1) /\ (i - 1) + 1 = i
      BY <2>1, <2>2
    <3> QED BY <2>1, <3>1
  <2>3. \A i \in 1..(Len(q) - 1) : i + 1 \in 1..Len(q)
    BY <2>1
  <2>4. \A i \in 1..Len(q) : q[i] = Head(q) \/ q[i] \in Range(Tail(q))
    BY <2>1, <2>2 DEF Range
  <2> QED BY <2>1, <2>3, <2>4 DEF Range
<1>4. \A v \in Worker \ {w} : Waiting(v)' = Waiting(v)
  BY <1>1, <1>2 DEF PlainTypes, Waiting, Begin, Becomes
<1>5. CASE Head(q).op = "dvr"
  <2>1. Waiting(w) = {Head(q)} \cup Waiting(w)'
    <3>1. UNCHANGED job /\ queue'[w] = Tail(q)
      BY <1>1, <1>2, <1>5 DEF Begin, PlainTypes
    <3> QED BY <1>2, <1>3, <3>1 DEF Waiting, Busy
  <2> QED BY <1>4, <1>5, <2>1 DEF Doomed, Unfinished
<1>6. CASE Head(q).op # "dvr"
  <2>1. Head(q).op \in {"member_create", "member_delete"} /\ Head(q).on \in Member
    BY <1>3, <1>6 DEF Plain, Counted
  <2>2. /\ queue'[w] = Tail(q)
        /\ job'[w] = [phase |-> "write", req |-> Head(q), seen |-> row]
    BY <1>1, <1>2, <2>1, PipelineAssumption DEF Begin, Becomes, PlainTypes
  <2>3. Waiting(w) = Waiting(w)'
    BY <1>2, <1>3, <2>2 DEF Waiting, Busy, Idle
  <2> QED BY <1>4, <2>3 DEF Doomed, Unfinished
<1> QED BY <1>5, <1>6

\* Every step of the helpers is one of CallService, or changes nothing there.
LEMMA StepRefines == RInv /\ [Next]_vars => Stuck' /\ [Promise!Next]_Promise!vars
<1> SUFFICES ASSUME RInv, [Next]_vars
             PROVE  Stuck' /\ [Promise!Next]_Promise!vars
  OBVIOUS
<1>1. PInv /\ PInv' /\ deployment' = deployment /\ OneStatus' = OneStatus
  BY NextOK, DeploymentStays DEF RInv, OneStatus
<1>2. CASE ~OneStatus
  BY <1>1, <1>2 DEF Stuck, Promise!vars
<1>3. CASE OneStatus /\ UNCHANGED vars
  <2>1. UNCHANGED <<pending, oMembers, queue, job, vips, lost>>
    BY <1>3 DEF vars, octavia, nb
  <2>2. UNCHANGED Doomed /\ Stuck' = Stuck
    BY <1>1, <2>1 DEF Doomed, Unfinished, Waiting, Stuck, Busy, Real
  <2> QED BY <1>1, <2>1, <2>2 DEF Promise!vars, RInv
<1> SUFFICES ASSUME OneStatus, Next PROVE Stuck' /\ [Promise!Next]_Promise!vars
  BY <1>2, <1>3 DEF vars
<1>4. PlainTypes /\ Alone /\ Phases /\ Stuck /\ PlainTypes' /\ Alone' /\ Phases'
  BY <1>1 DEF PInv, RInv
<1>5. \A v \in Worker : Real(queue[v])' = Real(queue'[v])
  BY DEF Real
<1>6. ASSUME NEW w \in Worker, NEW m \in Member, CreateMember(w, m) \/ DeleteMember(w, m)
      PROVE  Stuck' /\ [Promise!Next]_Promise!vars
  <2>1. ~pending /\ pending' = TRUE /\ UNCHANGED <<vips, lost>>
    BY <1>6 DEF CreateMember, DeleteMember, Accept, nb
  <2>2. Promise!Accept
    BY <1>1, <1>4, <2>1 DEF Promise!Accept, PlainTypes
  <2> QED BY <1>4, <2>1, <2>2 DEF Stuck, Promise!Next
<1>7. ASSUME NEW w \in Worker, Begin(w)
      PROVE  Stuck' /\ [Promise!Next]_Promise!vars
  <2>1. UNCHANGED <<pending, oMembers, vips, lost>>
    BY <1>7 DEF Begin, octavia, nb
  <2>2. UNCHANGED Doomed
    BY <1>1, <1>7, TakingKeeps
  <2>3. Stuck'
    <3> SUFFICES ASSUME lost PROVE Stuck'
      BY <2>1 DEF Stuck
    <3>1. /\ pending /\ \A v \in Worker : ~Busy(v) /\ Real(queue[v]) = {}
          /\ queue[w] \in Seq(Plain) /\ queue[w] # <<>>
          /\ queue' = [queue EXCEPT ![w] = Tail(queue[w])]
      BY <1>4, <1>7 DEF Stuck, PlainTypes, Begin
    <3>2. PICK q \in Seq(Plain) : q = queue[w] /\ q # <<>>
      BY <3>1
    <3>3. Head(q).op = "dvr" /\ Real(Tail(q)) = {}
      BY <3>1, <3>2, TailOfQueue DEF Real
    <3>4. UNCHANGED job
      BY <1>7, <3>2, <3>3 DEF Begin
    <3> QED BY <1>4, <1>5, <2>1, <3>1, <3>2, <3>3, <3>4 DEF Stuck, Busy, PlainTypes
  <2> QED BY <1>1, <2>1, <2>2, <2>3 DEF Promise!vars
<1>8. ASSUME NEW w \in Worker, Write(w) \/ ReadStatuses(w) \/ Record(w)
      PROVE  Stuck' /\ [Promise!Next]_Promise!vars
  <2>1. ~Phase(w, "idle") /\ ~Phase(w, "send")
    BY <1>8 DEF Write, ReadStatuses, Record, Phase
  <2>2. /\ Busy(w) /\ pending /\ PhaseOK(job[w]) /\ job \in [Worker -> PlainJob]
        /\ job[w].req.op \in {"member_create", "member_delete"}
        /\ oPools = Pool /\ keys = Pool
    BY <1>1, <2>1, AtWork
  <2>3. ~lost /\ UNCHANGED <<pending, oMembers, lost>>
    BY <1>4, <1>8, <2>2 DEF Stuck, Write, ReadStatuses, Record, octavia
  <2>4. job'[w] # Idle /\ job'[w].req = job[w].req
    BY <1>8, <2>2 DEF Write, ReadStatuses, Record, Becomes, Idle
  <2>5. oMembers \ Doomed = After(job[w].req)
    BY <1>1, <2>2, DoomedWhenBusy
  <2>6. (oMembers \ Doomed)' = After(job[w].req)
    <3>1. UNCHANGED queue
      BY <1>8 DEF Write, ReadStatuses, Record
    <3>2. \A v \in Worker \ {w} : job'[v] = job[v]
      BY <1>8, <2>2 DEF Write, ReadStatuses, Record, Becomes
    <3>3. \A v \in Worker : Waiting(v)' = Waiting(v)
      BY <2>2, <2>4, <3>1, <3>2 DEF Waiting, Busy
    <3> QED BY <2>3, <2>5, <3>3 DEF Doomed, Unfinished
  <2>7. CASE vips' = vips
    BY <1>1, <2>3, <2>5, <2>6, <2>7 DEF Promise!vars, Stuck
  <2>8. CASE vips' # vips
    <3>1. Write(w)
      BY <1>8, <2>8 DEF ReadStatuses, Record, nb
    <3>2. job'[w].phase = "status"
      BY <2>2, <3>1 DEF Write, Becomes
    <3>3. vips' = After(job[w].req)
      BY <1>1, <1>4, <2>3, <2>4, <3>2 DEF Phases, PhaseOK, Busy, Shows, After
    <3>4. Promise!Apply
      BY <1>1, <2>2, <2>3, <2>5, <2>6, <2>8, <3>3 DEF Promise!Apply
    <3> QED BY <2>3, <3>4 DEF Promise!Next, Stuck
  <2> QED BY <2>7, <2>8
<1>9. ASSUME NEW w \in Worker, Send(w) \/ SendFails(w)
      PROVE  Stuck' /\ [Promise!Next]_Promise!vars
  <2>1. Phase(w, "send") /\ ~Phase(w, "idle")
    BY <1>9 DEF Send, SendFails, Phase
  <2>2. /\ Busy(w) /\ pending /\ PhaseOK(job[w]) /\ job \in [Worker -> PlainJob]
        /\ job[w].req.op \in {"member_create", "member_delete"}
    BY <1>1, <2>1, AtWork
  <2>3. PICK req : req = job[w].req
    OBVIOUS
  <2>4. ~lost /\ oMembers \ Doomed = After(req) /\ vips = After(req)
    BY <1>1, <1>4, <2>1, <2>2, <2>3, DoomedWhenBusy DEF Stuck, PhaseOK, Phase, Shows
  <2>5. \A v \in Worker : (v # w => ~Busy(v)) /\ Real(queue[v]) = {}
    BY <1>4, <2>2 DEF Alone
  <2>6. CASE Send(w)
    <3>1. /\ pending' = FALSE /\ oMembers' = After(req)
          /\ UNCHANGED <<queue, vips, lost>> /\ job' = [job EXCEPT ![w] = Idle]
      BY <2>2, <2>3, <2>6 DEF Send, After, Becomes, nb
    <3>2. \A v \in Worker : ~Busy(v)' /\ Real(queue[v])' = {}
      BY <1>4, <3>1 DEF Alone
    <3>3. Doomed' = {}
      BY <1>4, <3>2, DoomedNextWhenFree
    <3>4. Promise!Answer
      BY <1>1, <2>2, <2>4, <3>1, <3>3 DEF Promise!Answer
    <3> QED BY <2>4, <3>1, <3>4 DEF Stuck, Promise!Next
  <2>7. CASE SendFails(w)
    <3>1. UNCHANGED <<pending, oMembers, vips, queue>>
      BY <2>7 DEF SendFails, octavia, nb
    <3>2. CASE lost'
      <4>1. job' = [job EXCEPT ![w] = Idle]
        BY <2>4, <2>7, <3>2 DEF SendFails, Becomes
      <4>2. Stuck'
        BY <1>5, <2>2, <2>5, <3>1, <4>1 DEF Stuck, Busy
      <4>3. Promise!Abandon
        BY <1>1, <1>4, <2>2, <2>4, <3>1, <3>2 DEF Promise!Abandon, PlainTypes
      <4> QED BY <4>2, <4>3 DEF Promise!Next
    <3>3. CASE ~lost'
      <4>1. job' = [job EXCEPT ![w] = [job[w] EXCEPT !.tries = job[w].tries + 1]]
        BY <2>4, <2>7, <3>3 DEF SendFails, Becomes
      <4>2. job'[w] # Idle /\ job'[w].req = job[w].req
        <5>1. job[w] \in [phase : {"send"}, req : Counted, tries : 0..(MaxAttempts - 1)]
          BY <1>1, <2>1, AtWork DEF Phase
        <5> QED BY <2>2, <4>1, <5>1 DEF Idle
      <4>3. \A v \in Worker : Waiting(v)' = Waiting(v)
        BY <2>2, <3>1, <4>1, <4>2 DEF Waiting, Busy
      <4>4. UNCHANGED Doomed
        BY <4>3 DEF Doomed, Unfinished
      <4> QED BY <1>1, <2>4, <3>1, <3>3, <4>4 DEF Stuck, Promise!vars
    <3> QED BY <3>2, <3>3
  <2> QED BY <1>9, <2>6, <2>7
<1>10. ASSUME NEW w \in Worker, Restart(w)
       PROVE  Stuck' /\ [Promise!Next]_Promise!vars
  <2>1. /\ queue' = [queue EXCEPT ![w] = <<>>] /\ job' = [job EXCEPT ![w] = Idle]
        /\ lost' = (lost \/ \E req \in Waiting(w) : req.op # "dvr")
        /\ UNCHANGED <<pending, oMembers, vips>>
    BY <1>10 DEF Restart, Becomes, octavia, nb
  <2>2. /\ Waiting(w)' = {} /\ ~Busy(w)' /\ Real(queue[w])' = {}
        /\ \A v \in Worker \ {w} : /\ Waiting(v)' = Waiting(v) /\ Busy(v)' = Busy(v)
                                   /\ Real(queue[v])' = Real(queue[v])
    BY <1>4, <1>5, <2>1 DEF PlainTypes, Waiting, Busy, Range, Real
  <2>3. (\E req \in Waiting(w) : req.op # "dvr") <=> Busy(w) \/ Real(queue[w]) # {}
    <3>1. Busy(w) => job[w].req.op # "dvr"
      BY <1>4 DEF PlainTypes, PlainJob, Busy, Counted
    <3> QED BY <1>4, <3>1, WaitingIs DEF PlainTypes
  <2>4. CASE lost
    <3>1. \A v \in Worker : ~Busy(v) /\ Real(queue[v]) = {}
      BY <1>4, <2>4 DEF Stuck
    <3>2. Doomed = {}
      BY <1>4, <3>1, DoomedWhenFree
    <3>3. \A v \in Worker : ~Busy(v)' /\ Real(queue[v])' = {}
      BY <2>2, <3>1
    <3>4. Doomed' = {}
      BY <1>4, <3>3, DoomedNextWhenFree
    <3> QED BY <1>1, <1>4, <2>1, <2>4, <3>2, <3>3, <3>4 DEF Stuck, Promise!vars
  <2>5. CASE ~lost /\ (Busy(w) \/ Real(queue[w]) # {})
    <3>1. pending /\ lost'
      BY <1>4, <2>1, <2>3, <2>5 DEF Alone, PlainTypes
    <3>2. \A v \in Worker \ {w} : ~Busy(v) /\ Real(queue[v]) = {}
      BY <1>4, <2>5 DEF Alone
    <3>3. Stuck'
      BY <2>1, <2>2, <3>1, <3>2 DEF Stuck
    <3>4. Promise!Abandon
      BY <1>1, <1>4, <2>1, <2>5, <3>1 DEF Promise!Abandon, PlainTypes
    <3> QED BY <3>3, <3>4 DEF Promise!Next
  <2>6. CASE ~lost /\ ~Busy(w) /\ Real(queue[w]) = {}
    <3>1. ~lost'
      BY <2>1, <2>3, <2>6
    <3>2. \A req \in Waiting(w) : req.op = "dvr"
      BY <2>3, <2>6
    <3>3. UNCHANGED Doomed
      BY <2>2, <3>2 DEF Doomed, Unfinished
    <3> QED BY <1>1, <2>1, <2>6, <3>1, <3>3 DEF Stuck, Promise!vars
  <2> QED BY <2>4, <2>5, <2>6
<1> QED
  <2>1. "pool_delete" \notin deployment.calls /\ "batch" \notin deployment.calls
    BY DEF OneStatus
  <2>2. PICK w \in Worker :
           \/ \E m \in Member : CreateMember(w, m) \/ DeleteMember(w, m)
           \/ Step(w)
           \/ Restart(w)
    BY <2>1 DEF Next, DeletePool, BatchUpdate
  <2> QED BY <1>6, <1>7, <1>8, <1>9, <1>10, <2>2 DEF Step

LEMMA RInvInit == Init => RInv /\ Promise!Init
<1> SUFFICES ASSUME Init PROVE RInv /\ Promise!Init
  OBVIOUS
<1>1. PInv
  BY InitOK
<1>2. lost = FALSE /\ pending = FALSE /\ oMembers = {} /\ vips = {}
  BY DEF Init
<1>3. Stuck /\ lost \in BOOLEAN
  BY <1>2 DEF Stuck
<1> QED BY <1>1, <1>2, <1>3 DEF RInv, Promise!Init

LEMMA LossIsKnown == lost \in BOOLEAN /\ [Next]_vars => lost' \in BOOLEAN
<1> SUFFICES ASSUME lost \in BOOLEAN, [Next]_vars PROVE lost' \in BOOLEAN
  OBVIOUS
<1>1. CASE UNCHANGED vars
  BY <1>1 DEF vars
<1>2. ASSUME NEW w \in Worker, SendFails(w) \/ Restart(w)
      PROVE  lost' \in BOOLEAN
  BY <1>2 DEF SendFails, Restart
<1>3. ASSUME NEW w \in Worker, ~SendFails(w), ~Restart(w),
             \/ \E m \in Member : CreateMember(w, m) \/ DeleteMember(w, m)
             \/ \E p \in Pool : \/ DeletePool(w, p)
                                \/ \E wanted \in SUBSET MembersOf(p) :
                                      BatchUpdate(w, p, wanted)
             \/ Step(w)
      PROVE  lost' = lost
  <2>1. CASE \E requests : Accept(w, requests)
    BY <2>1 DEF Accept
  <2>2. CASE Step(w)
    BY <1>3, <2>2 DEF Step, Begin, Write, ReadStatuses, Record, Send
  <2> QED BY <1>3, <2>1, <2>2 DEF CreateMember, DeleteMember, DeletePool, BatchUpdate
<1> QED BY <1>1, <1>2, <1>3 DEF Next

\* Whatever the users call, the helpers do, Octavia refuses and the operator
\* restarts: when every call is one request with a status, what the code does is
\* what CallService allows.  Who is served changes while the load balancer is
\* locked, to what the call wants and at one stroke (_add_member and
\* _remove_member commit vips with the member list), and the status that unlocks
\* it is sent after that (_update_status_to_octavia).
THEOREM Refinement == Spec => Promise!Init /\ [][Promise!Next]_Promise!vars
<1>1. Init => RInv /\ Promise!Init
  BY RInvInit
<1>2. RInv /\ [Next]_vars => RInv' /\ [Promise!Next]_Promise!vars
  BY NextOK, StepRefines, LossIsKnown DEF RInv
<1> QED BY <1>1, <1>2, PTL DEF Spec

-----------------------------------------------------------------------------
(* Types, whatever is called and whatever fails                            *)

\* A status is dropped at the last attempt, and the deletion of a pool records no
\* member status.
InPhase(j) ==
    /\ j.phase = "send" => j.tries < MaxAttempts
    /\ j.phase \in {"status", "record"} => j.req.op \in MemberOp

TInv == TypeOK /\ \A w \in Worker : InPhase(job[w])

\* An order of a finite set is a sequence of its elements that leaves none out.
LEMMA OrderOf ==
    ASSUME NEW S, IsFiniteSet(S), NEW order \in SetToSeqs(S)
    PROVE  /\ order \in Seq(S)
           /\ \A x \in S : \E i \in DOMAIN order : order[i] = x
<1> DEFINE n == Cardinality(S)
<1>1. n \in Nat
  BY FS_CardinalityType
<1>2. /\ order \in [1..n -> S]
      /\ \A i, j \in 1..n : i # j => order[i] # order[j]
  BY DEF SetToSeqs
<1>3. order \in Injection(1..n, S)
  BY <1>2 DEF Injection, IsInjective
<1>4. Cardinality(1..n) = n /\ IsFiniteSet(1..n)
  BY <1>1, FS_Interval
<1>5. order \in Surjection(1..n, S)
  BY <1>3, <1>4, FS_Injection
<1>6. \A x \in S : \E i \in 1..n : order[i] = x
  BY <1>5 DEF Surjection
<1> HIDE DEF n
<1> QED BY <1>1, <1>2, <1>6

LEMMA DeletionsAre ==
    ASSUME NEW S \in SUBSET Member, NEW list \in Seq(S)
    PROVE  /\ Deletions(list) \in Seq(Request)
           /\ \A i \in DOMAIN Deletions(list) :
                 /\ Deletions(list)[i].op \in {"member_delete", "dvr"}
                 /\ Deletions(list)[i].on \in S
<1>1. Len(list) \in Nat /\ DOMAIN list = 1..Len(list)
  OBVIOUS
<1>2. ASSUME NEW i \in 1..(2 * Len(list))
      PROVE  list[(i + 1) \div 2] \in S
  <2>1. (i + 1) \div 2 \in 1..Len(list)
    BY <1>1
  <2> QED BY <1>1, <2>1
<1>3. ASSUME NEW i \in 1..(2 * Len(list))
      PROVE  /\ Deletions(list)[i].op \in {"member_delete", "dvr"}
             /\ Deletions(list)[i].on \in S
             /\ Deletions(list)[i] \in Request
  <2>1. PICK m \in S : m = list[(i + 1) \div 2]
    BY <1>2
  <2>2. Deletions(list)[i] \in {[op |-> "member_delete", on |-> m], [op |-> "dvr", on |-> m]}
    BY <2>1 DEF Deletions, DeleteRequests
  <2> QED BY <2>2 DEF Request, MemberOp
<1>4. DOMAIN Deletions(list) = 1..(2 * Len(list))
      /\ Deletions(list) = [i \in 1..(2 * Len(list)) |-> Deletions(list)[i]]
  BY DEF Deletions
<1>5. 2 * Len(list) \in Nat
  BY <1>1
<1> QED BY <1>3, <1>4, <1>5

LEMMA AcceptTypes ==
    ASSUME TInv, NEW w \in Worker, NEW r \in Seq(Request), Accept(w, r),
           oPools' = oPools, oMembers' \subseteq Member
    PROVE  TInv'
<1>1. queue' = [queue EXCEPT ![w] = queue[w] \o r] /\ pending' = TRUE
      /\ UNCHANGED <<job, keys, row, vips, statuses, lost, deployment>>
  BY DEF Accept, Enqueue, nb
<1>2. queue[w] \o r \in Seq(Request)
  BY DEF TInv, TypeOK
<1>3. queue' \in [Worker -> Seq(Request)]
  BY <1>1, <1>2 DEF TInv, TypeOK
<1> QED BY <1>1, <1>3 DEF TInv, TypeOK

\* What a call of the batch asks for.
BatchOf(p, wanted, kept) ==
    [i \in DOMAIN kept |->
        [op |-> IF kept[i] \in row \cap MembersOf(p) THEN "member_update"
                ELSE "member_create",
         on |-> kept[i]]]

LEMMA BatchTypes ==
    ASSUME NEW p, NEW wanted \in SUBSET Member, NEW kept \in Seq(wanted)
    PROVE  /\ BatchOf(p, wanted, kept) \in Seq(Request)
           /\ DOMAIN BatchOf(p, wanted, kept) = DOMAIN kept
<1>1. ASSUME NEW i \in DOMAIN kept
      PROVE  BatchOf(p, wanted, kept)[i] \in Request
  <2>1. kept[i] \in Member
    OBVIOUS
  <2>2. PICK op \in {"member_update", "member_create"} :
           BatchOf(p, wanted, kept)[i] = [op |-> op, on |-> kept[i]]
    BY DEF BatchOf
  <2> QED BY <2>1, <2>2 DEF Request, MemberOp
<1>2. DOMAIN BatchOf(p, wanted, kept) = DOMAIN kept
      /\ BatchOf(p, wanted, kept) = [i \in DOMAIN kept |-> BatchOf(p, wanted, kept)[i]]
  BY DEF BatchOf
<1>3. Len(kept) \in Nat /\ DOMAIN kept = 1..Len(kept)
  OBVIOUS
<1> QED BY <1>1, <1>2, <1>3

\* Each call, as what it adds to Octavia's members and to a queue.
LEMMA Calls ==
    ASSUME TInv, NEW w \in Worker,
           \/ \E m \in Member : CreateMember(w, m) \/ DeleteMember(w, m)
           \/ \E p \in Pool : \/ DeletePool(w, p)
                              \/ \E wanted \in SUBSET MembersOf(p) :
                                    BatchUpdate(w, p, wanted)
    PROVE  \E r \in Seq(Request), added \in SUBSET Member :
              /\ Accept(w, r)
              /\ oPools' = oPools /\ oMembers' = oMembers \cup added
              /\ \A m \in added : PoolOf[m] \in oPools
              /\ \A i \in DOMAIN r : r[i].op = "member_create" =>
                    r[i].on \in added \ Doomed
              /\ \A m \in added : \/ m \in row
                                  \/ \E i \in DOMAIN r : r[i].op = "member_create"
                                                         /\ r[i].on = m
              /\ \A i, j \in DOMAIN r :
                    i < j /\ r[i].op = "member_delete" => r[j].op # "member_create"
<1> DEFINE Asks(r, added) ==
              /\ \A i \in DOMAIN r : r[i].op = "member_create" =>
                    r[i].on \in added \ Doomed
              /\ \A m \in added : \/ m \in row
                                  \/ \E i \in DOMAIN r : r[i].op = "member_create"
                                                         /\ r[i].on = m
              /\ \A i, j \in DOMAIN r :
                    i < j /\ r[i].op = "member_delete" => r[j].op # "member_create"
<1> SUFFICES \E r \in Seq(Request), added \in SUBSET Member :
                /\ Accept(w, r)
                /\ oPools' = oPools /\ oMembers' = oMembers \cup added
                /\ \A m \in added : PoolOf[m] \in oPools
                /\ Asks(r, added)
  OBVIOUS
<1>0. PoolOf \in [Member -> Pool] /\ IsFiniteSet(Member)
      /\ oMembers \subseteq Member /\ row \subseteq Member
  BY PipelineAssumption DEF TInv, TypeOK
<1>1. ASSUME NEW m \in Member, CreateMember(w, m)
      PROVE  \E r \in Seq(Request), added \in SUBSET Member :
                /\ Accept(w, r)
                /\ oPools' = oPools /\ oMembers' = oMembers \cup added
                /\ \A x \in added : PoolOf[x] \in oPools
                /\ Asks(r, added)
  <2>1. PICK r : r = CreateRequests(m)
    OBVIOUS
  <2>2. r \in Seq(Request) /\ DOMAIN r = {1, 2}
        /\ r[1].op = "member_create" /\ r[1].on = m /\ r[2].op = "dvr"
    BY <2>1 DEF CreateRequests, Request, MemberOp
  <2>3. m \notin Doomed
    BY <1>1 DEF CreateMember, Unused, Doomed
  <2>4. Asks(r, {m})
    BY <2>2, <2>3
  <2>5. /\ Accept(w, r) /\ oPools' = oPools /\ oMembers' = oMembers \cup {m}
        /\ PoolOf[m] \in oPools
    BY <1>1, <2>1 DEF CreateMember
  <2> HIDE DEF Asks
  <2> QED BY <2>2, <2>4, <2>5
<1>2. ASSUME NEW m \in Member, DeleteMember(w, m)
      PROVE  \E r \in Seq(Request), added \in SUBSET Member :
                /\ Accept(w, r)
                /\ oPools' = oPools /\ oMembers' = oMembers \cup added
                /\ \A x \in added : PoolOf[x] \in oPools
                /\ Asks(r, added)
  <2>1. PICK r : r = DeleteRequests(m)
    OBVIOUS
  <2>2. r \in Seq(Request) /\ DOMAIN r = {1, 2}
        /\ r[1].op = "member_delete" /\ r[2].op = "dvr"
    BY <2>1 DEF DeleteRequests, Request, MemberOp
  <2>3. Asks(r, {})
    BY <2>2
  <2>4. Accept(w, r) /\ oPools' = oPools /\ oMembers' = oMembers \cup {}
    BY <1>2, <2>1 DEF DeleteMember
  <2> HIDE DEF Asks
  <2> QED BY <2>2, <2>3, <2>4
<1>3. ASSUME NEW p \in Pool, DeletePool(w, p)
      PROVE  \E r \in Seq(Request), added \in SUBSET Member :
                /\ Accept(w, r)
                /\ oPools' = oPools /\ oMembers' = oMembers \cup added
                /\ \A x \in added : PoolOf[x] \in oPools
                /\ Asks(r, added)
  <2>1. PICK S : S = oMembers \cap MembersOf(p)
    OBVIOUS
  <2>2. S \in SUBSET Member /\ IsFiniteSet(S)
    BY <1>0, <2>1, FS_Subset
  <2>3. PICK order \in SetToSeqs(S) :
           Accept(w, Deletions(order) \o <<[op |-> "pool_delete", on |-> p]>>)
    BY <1>3, <2>1 DEF DeletePool
  <2>4. order \in Seq(S)
    BY <2>2, OrderOf
  <2>5. PICK d : d = Deletions(order)
    OBVIOUS
  <2>6. PICK last : last = [op |-> "pool_delete", on |-> p]
    OBVIOUS
  <2>7. d \in Seq(Request) /\ \A i \in DOMAIN d : d[i].op \in {"member_delete", "dvr"}
    BY <2>2, <2>4, <2>5, DeletionsAre
  <2>8. last \in Request /\ last.op = "pool_delete"
    BY <2>6 DEF Request
  <2>9. PICK r : r = d \o <<last>>
    OBVIOUS
  <2>10. /\ r \in Seq(Request) /\ DOMAIN d = 1..Len(d) /\ Len(d) \in Nat
         /\ DOMAIN r = 1..(Len(d) + 1) /\ r[Len(d) + 1] = last
         /\ \A i \in 1..Len(d) : r[i] = d[i]
    BY <2>7, <2>8, <2>9
  <2>11. \A i \in DOMAIN r : r[i].op # "member_create"
    <3> SUFFICES ASSUME NEW i \in DOMAIN r PROVE r[i].op # "member_create"
      OBVIOUS
    <3>1. i \in 1..Len(d) \/ i = Len(d) + 1
      BY <2>10
    <3> QED BY <3>1, <2>7, <2>8, <2>10
  <2>12. Asks(r, {})
    BY <2>11
  <2>13. Accept(w, r) /\ oPools' = oPools /\ oMembers' = oMembers \cup {}
    BY <1>3, <2>3, <2>5, <2>6, <2>9 DEF DeletePool
  <2> HIDE DEF Asks
  <2> QED BY <2>10, <2>12, <2>13
<1>4. ASSUME NEW p \in Pool, NEW wanted \in SUBSET MembersOf(p), BatchUpdate(w, p, wanted)
      PROVE  \E r \in Seq(Request), added \in SUBSET Member :
                /\ Accept(w, r)
                /\ oPools' = oPools /\ oMembers' = oMembers \cup added
                /\ \A x \in added : PoolOf[x] \in oPools
                /\ Asks(r, added)
  <2>1. PICK S : S = (row \cap MembersOf(p)) \ wanted
    OBVIOUS
  <2>2. /\ wanted \in SUBSET Member /\ IsFiniteSet(wanted)
        /\ S \in SUBSET Member /\ IsFiniteSet(S)
    BY <1>0, <2>1, FS_Subset DEF MembersOf
  <2>3. PICK kept \in SetToSeqs(wanted) : \E dropped \in SetToSeqs(S) :
           Accept(w, BatchOf(p, wanted, kept) \o Deletions(dropped))
    BY <1>4, <2>1 DEF BatchUpdate, BatchOf
  <2>4. PICK dropped \in SetToSeqs(S) :
           Accept(w, BatchOf(p, wanted, kept) \o Deletions(dropped))
    BY <2>3
  <2>5. /\ kept \in Seq(wanted) /\ dropped \in Seq(S)
        /\ \A x \in wanted : \E i \in DOMAIN kept : kept[i] = x
    BY <2>2, OrderOf
  <2>6. PICK b : b = BatchOf(p, wanted, kept)
    OBVIOUS
  <2>7. PICK d : d = Deletions(dropped)
    OBVIOUS
  <2>8. b \in Seq(Request) /\ DOMAIN b = DOMAIN kept
    BY <2>2, <2>5, <2>6, BatchTypes
  <2>9. d \in Seq(Request) /\ \A i \in DOMAIN d : d[i].op \in {"member_delete", "dvr"}
    BY <2>2, <2>5, <2>7, DeletionsAre
  <2>10. \A i \in DOMAIN b :
            /\ b[i].on = kept[i] /\ b[i].op \in {"member_update", "member_create"}
            /\ kept[i] \in wanted
            /\ kept[i] \notin row => b[i].op = "member_create"
    BY <2>5, <2>6, <2>8 DEF BatchOf
  <2>11. PICK r : r = b \o d
    OBVIOUS
  <2>12. /\ r \in Seq(Request) /\ Len(b) \in Nat /\ Len(d) \in Nat
         /\ DOMAIN b = 1..Len(b) /\ DOMAIN d = 1..Len(d)
         /\ DOMAIN r = 1..(Len(b) + Len(d))
         /\ \A i \in 1..Len(b) : r[i] = b[i]
         /\ \A i \in DOMAIN r : i > Len(b) => i - Len(b) \in DOMAIN d /\ r[i] = d[i - Len(b)]
    BY <2>8, <2>9, <2>11
  <2>13. \A i \in DOMAIN r :
            \/ /\ i \in DOMAIN b /\ r[i] = b[i]
            \/ i > Len(b) /\ r[i].op \in {"member_delete", "dvr"}
    <3> SUFFICES ASSUME NEW i \in DOMAIN r
                 PROVE  \/ i \in DOMAIN b /\ r[i] = b[i]
                        \/ i > Len(b) /\ r[i].op \in {"member_delete", "dvr"}
      OBVIOUS
    <3>1. CASE i > Len(b)
      BY <3>1, <2>9, <2>12
    <3>2. CASE ~(i > Len(b))
      BY <3>2, <2>12
    <3> QED BY <3>1, <3>2
  <2>14. \A i \in DOMAIN r : r[i].op = "member_create" => r[i].on \in wanted \ Doomed
    BY <1>4, <2>10, <2>13 DEF BatchUpdate
  <2>15. \A m \in wanted : \/ m \in row
                           \/ \E i \in DOMAIN r : r[i].op = "member_create" /\ r[i].on = m
    <3> SUFFICES ASSUME NEW m \in wanted, m \notin row
                 PROVE  \E i \in DOMAIN r : r[i].op = "member_create" /\ r[i].on = m
      OBVIOUS
    <3>1. PICK i \in DOMAIN b : kept[i] = m
      BY <2>5, <2>8
    <3>2. b[i].op = "member_create" /\ b[i].on = m
      BY <2>10, <3>1
    <3>3. i \in DOMAIN r /\ r[i] = b[i]
      BY <2>12
    <3> QED BY <3>2, <3>3
  <2>16. \A i, j \in DOMAIN r :
            i < j /\ r[i].op = "member_delete" => r[j].op # "member_create"
    <3> SUFFICES ASSUME NEW i \in DOMAIN r, NEW j \in DOMAIN r,
                        i < j, r[i].op = "member_delete"
                 PROVE  r[j].op # "member_create"
      OBVIOUS
    <3>1. i > Len(b)
      BY <2>10, <2>13
    <3>2. j \notin DOMAIN b
      BY <2>12, <3>1
    <3> QED BY <2>13, <3>2
  <2>17. Asks(r, wanted)
    BY <2>14, <2>15, <2>16
  <2>18. /\ Accept(w, r) /\ oPools' = oPools /\ oMembers' = oMembers \cup wanted
         /\ \A x \in wanted : PoolOf[x] \in oPools
    BY <1>4, <2>4, <2>6, <2>7, <2>11 DEF BatchUpdate, MembersOf
  <2> HIDE DEF Asks
  <2> QED BY <2>2, <2>12, <2>17, <2>18
<1> HIDE DEF Asks
<1> QED BY <1>1, <1>2, <1>3, <1>4

LEMMA HeadAndTail ==
    ASSUME NEW q \in Seq(Request), q # <<>>
    PROVE  /\ Head(q) \in Request /\ Tail(q) \in Seq(Request)
           /\ Head(q) = q[1] /\ 1 \in DOMAIN q
           /\ \A i \in DOMAIN Tail(q) : i + 1 \in DOMAIN q /\ Tail(q)[i] = q[i + 1]
           /\ \A i \in DOMAIN q : i = 1 \/ \E j \in DOMAIN Tail(q) : Tail(q)[j] = q[i]
<1>1. /\ Len(q) \in Nat \ {0} /\ DOMAIN q = 1..Len(q) /\ Head(q) = q[1]
      /\ Head(q) \in Request
      /\ Tail(q) \in Seq(Request) /\ DOMAIN Tail(q) = 1..(Len(q) - 1)
      /\ \A i \in 1..(Len(q) - 1) : Tail(q)[i] = q[i + 1]
  OBVIOUS
<1>2. ASSUME NEW i \in 1..Len(q), i # 1
      PROVE  \E j \in DOMAIN Tail(q) : Tail(q)[j] = q[i]
  <2>1. i - 1 \in 1..(Len(q) - 1) /\ (i - 1) + 1 = i
    BY <1>1, <1>2
  <2> QED BY <1>1, <2>1
<1>3. \A i \in 1..(Len(q) - 1) : i + 1 \in 1..Len(q)
  BY <1>1
<1>4. 1 \in 1..Len(q)
  BY <1>1
<1> QED BY <1>1, <1>2, <1>3, <1>4

\* A job with a request has the fields of its phase.
LEMMA JobTypes ==
    ASSUME TInv, NEW w \in Worker, ~Phase(w, "idle")
    PROVE  /\ job[w] # Idle /\ job[w].req \in Request
           /\ job[w].phase \in {"write", "status", "record", "send"}
           /\ job[w].phase \in {"write", "record"} => job[w].seen \subseteq Member
           /\ job[w].phase = "send" =>
                 /\ job[w].tries \in 0..(MaxAttempts - 1)
                 /\ job[w] = [phase |-> "send", req |-> job[w].req,
                              tries |-> job[w].tries]
<1>1. job[w] \in Job /\ MaxAttempts \in Nat \ {0}
  BY PipelineAssumption DEF TInv, TypeOK
<1>2. CASE job[w] \in [phase : {"write", "record"}, req : Request, seen : SUBSET Member]
  BY <1>2 DEF Idle
<1>3. CASE job[w] \in [phase : {"status"}, req : Request]
  BY <1>3 DEF Idle
<1>4. CASE job[w] \in [phase : {"send"}, req : Request, tries : 0..MaxAttempts]
  <2>1. job[w].tries \in 0..MaxAttempts /\ job[w].phase = "send"
    BY <1>4
  <2>2. job[w].tries < MaxAttempts
    BY <2>1 DEF TInv, InPhase
  <2>3. job[w].tries \in 0..(MaxAttempts - 1)
    BY <1>1, <2>1, <2>2
  <2> QED BY <1>4, <2>3 DEF Idle
<1> QED BY <1>1, <1>2, <1>3, <1>4 DEF Job, Phase, Idle

\* The requests by what they name.
LEMMA RequestKinds ==
    ASSUME NEW req \in Request
    PROVE  \/ req.op \in MemberOp /\ req.on \in Member /\ PoolOf[req.on] \in Pool
           \/ req.op = "pool_delete" /\ req.on \in Pool
  BY PipelineAssumption DEF Request, MemberOp

LEMMA NewJob ==
    ASSUME TInv, NEW w \in Worker, NEW j \in Job, Becomes(w, j),
           InPhase(j)
    PROVE  /\ job' \in [Worker -> Job] /\ job'[w] = j
           /\ \A v \in Worker : InPhase(job'[v])
<1>1. job \in [Worker -> Job] /\ job' = [job EXCEPT ![w] = j]
  BY DEF TInv, TypeOK, Becomes
<1>2. \A v \in Worker \ {w} : job'[v] = job[v]
  BY <1>1
<1>3. job'[w] = j /\ job' \in [Worker -> Job]
  BY <1>1
<1>4. \A v \in Worker : InPhase(job'[v])
  BY <1>2, <1>3 DEF TInv
<1> QED BY <1>3, <1>4

LEMMA TInvStep == TInv /\ [Next]_vars => TInv'
<1> SUFFICES ASSUME TInv, [Next]_vars PROVE TInv'
  OBVIOUS
<1>0. Idle \in Job /\ InPhase(Idle)
  BY DEF Job, Idle, InPhase
<1>1. CASE UNCHANGED vars
  BY <1>1 DEF TInv, TypeOK, vars, octavia, nb
<1>2. ASSUME NEW w \in Worker,
             \/ \E m \in Member : CreateMember(w, m) \/ DeleteMember(w, m)
             \/ \E p \in Pool : \/ DeletePool(w, p)
                                \/ \E wanted \in SUBSET MembersOf(p) :
                                      BatchUpdate(w, p, wanted)
      PROVE  TInv'
  <2>1. PICK r \in Seq(Request) : \E added \in SUBSET Member :
           Accept(w, r) /\ oPools' = oPools /\ oMembers' = oMembers \cup added
    BY <1>2, Calls
  <2>2. oMembers' \subseteq Member
    BY <2>1 DEF TInv, TypeOK
  <2> QED BY <2>1, <2>2, AcceptTypes
<1>3. ASSUME NEW w \in Worker, Begin(w)
      PROVE  TInv'
  <2>1. queue[w] \in Seq(Request) /\ queue[w] # <<>>
    BY <1>3 DEF Begin, TInv, TypeOK
  <2>2. PICK req \in Request : req = Head(queue[w]) /\ Tail(queue[w]) \in Seq(Request)
    BY <2>1, HeadAndTail
  <2>3. queue' = [queue EXCEPT ![w] = Tail(queue[w])]
        /\ UNCHANGED <<octavia, nb, lost, deployment>>
    BY <1>3 DEF Begin
  <2>4. queue' \in [Worker -> Seq(Request)]
    BY <2>2, <2>3 DEF TInv, TypeOK
  <2>5. \/ UNCHANGED job
        \/ Becomes(w, [phase |-> "write", req |-> req, seen |-> row])
        \/ Becomes(w, [phase |-> "status", req |-> req]) /\ req.op \in MemberOp
    BY <1>3, <2>2 DEF Begin, MemberOp
  <2>6. CASE UNCHANGED job
    BY <2>3, <2>4, <2>6 DEF TInv, TypeOK, octavia, nb
  <2>7. CASE ~UNCHANGED job
    <3>1. PICK j \in Job : Becomes(w, j) /\ InPhase(j)
      BY <2>5, <2>7 DEF Job, InPhase, TInv, TypeOK
    <3>2. /\ job' \in [Worker -> Job]
          /\ \A v \in Worker : InPhase(job'[v])
      BY <3>1, NewJob
    <3> QED BY <2>3, <2>4, <3>2 DEF TInv, TypeOK, octavia, nb
  <2> QED BY <2>6, <2>7
<1>4. ASSUME NEW w \in Worker, Write(w) \/ ReadStatuses(w) \/ Record(w) \/ Send(w)
                               \/ SendFails(w)
      PROVE  TInv'
  <2>1. ~Phase(w, "idle")
    BY <1>4 DEF Write, ReadStatuses, Record, Send, SendFails, Phase
  <2>2. PICK req \in Request : req = job[w].req
    BY <2>1, JobTypes
  <2>3. \/ req.op \in MemberOp /\ req.on \in Member /\ PoolOf[req.on] \in Pool
        \/ req.op = "pool_delete" /\ req.on \in Pool
    BY RequestKinds
  <2>4. /\ job[w].phase \in {"write", "record"} => job[w].seen \subseteq Member
        /\ job[w].phase = "send" => job[w].tries \in 0..(MaxAttempts - 1)
    BY <2>1, JobTypes
  <2>5. UNCHANGED <<queue, deployment>>
    BY <1>4 DEF Write, ReadStatuses, Record, Send, SendFails
  <2>6. /\ [phase |-> "send", req |-> req, tries |-> 0] \in Job
        /\ InPhase([phase |-> "send", req |-> req, tries |-> 0])
    BY PipelineAssumption DEF Job, InPhase
  <2>7. CASE Write(w)
    <3>1. PICK seen \in SUBSET Member : seen = job[w].seen
      BY <2>4, <2>7 DEF Write, Phase
    <3>2. keys' \subseteq Pool /\ row' \subseteq Member /\ vips' \subseteq Member
      BY <2>2, <2>3, <2>7, <3>1 DEF Write, WritePool, TInv, TypeOK, MembersOf, MemberOp
    <3>3. PICK j \in Job : Becomes(w, j) /\ InPhase(j)
      <4>1. \/ Becomes(w, [phase |-> "status", req |-> req]) /\ req.op \in MemberOp
            \/ Becomes(w, [phase |-> "send", req |-> req, tries |-> 0])
        BY <2>2, <2>7 DEF Write, MemberOp
      <4>2. /\ [phase |-> "status", req |-> req] \in Job
            /\ req.op \in MemberOp => InPhase([phase |-> "status", req |-> req])
        BY DEF Job, InPhase
      <4> QED BY <2>6, <4>1, <4>2
    <3>4. /\ job' \in [Worker -> Job]
          /\ \A v \in Worker : InPhase(job'[v])
      BY <3>3, NewJob
    <3> QED BY <2>5, <2>7, <3>2, <3>4 DEF Write, TInv, TypeOK, octavia
  <2>8. CASE ReadStatuses(w)
    <3>1. PICK j \in Job : Becomes(w, j) /\ InPhase(j)
      <4>1. req.op \in MemberOp
        BY <2>2, <2>8 DEF ReadStatuses, Phase, TInv, InPhase
      <4> QED BY <2>2, <2>8, <4>1 DEF ReadStatuses, Job, InPhase, TInv, TypeOK
    <3>2. /\ job' \in [Worker -> Job]
          /\ \A v \in Worker : InPhase(job'[v])
      BY <3>1, NewJob
    <3> QED BY <2>5, <2>8, <3>2 DEF ReadStatuses, TInv, TypeOK, octavia, nb
  <2>9. CASE Record(w)
    <3>1. PICK j \in Job : Becomes(w, j) /\ InPhase(j)
      BY <1>0, <2>2, <2>6, <2>9 DEF Record
    <3>2. /\ job' \in [Worker -> Job]
          /\ \A v \in Worker : InPhase(job'[v])
      BY <3>1, NewJob
    <3>3. PICK seen \in SUBSET Member : seen = job[w].seen
      BY <2>4, <2>9 DEF Record, Phase
    <3>4. statuses' \subseteq Member
      <4>1. req.op \in MemberOp
        BY <2>2, <2>9 DEF Record, Phase, TInv, InPhase
      <4> QED BY <2>2, <2>3, <2>9, <3>3, <4>1 DEF Record, MemberOp
    <3> QED BY <2>5, <2>9, <3>2, <3>4 DEF Record, TInv, TypeOK, octavia, nb
  <2>10. CASE Send(w)
    <3>1. /\ job' \in [Worker -> Job]
          /\ \A v \in Worker : InPhase(job'[v])
      BY <1>0, <2>10, NewJob DEF Send
    <3>2. oMembers' \subseteq oMembers /\ oPools' \subseteq oPools /\ pending' = FALSE
      BY <2>10 DEF Send
    <3> QED BY <2>5, <2>10, <3>1, <3>2 DEF Send, TInv, TypeOK, nb
  <2>11. CASE SendFails(w)
    <3>1. PICK t : t = job[w].tries
      OBVIOUS
    <3>2. job[w] = [phase |-> "send", req |-> req, tries |-> t] /\ t \in 0..(MaxAttempts - 1)
      BY <2>1, <2>2, <2>11, <3>1, JobTypes DEF SendFails, Phase
    <3>3. PICK j \in Job : Becomes(w, j) /\ InPhase(j)
      <4>1. CASE t + 1 = MaxAttempts
        BY <1>0, <2>11, <3>1, <4>1 DEF SendFails
      <4>2. CASE t + 1 # MaxAttempts
        <5>1. Becomes(w, [job[w] EXCEPT !.tries = t + 1])
          BY <2>11, <3>1, <4>2 DEF SendFails
        <5>2. [job[w] EXCEPT !.tries = t + 1] = [phase |-> "send", req |-> req, tries |-> t + 1]
          BY <3>2
        <5>3. t + 1 \in 0..MaxAttempts /\ t + 1 < MaxAttempts
          BY <3>2, <4>2, PipelineAssumption
        <5>4. [phase |-> "send", req |-> req, tries |-> t + 1] \in Job
          BY <5>3 DEF Job
        <5>5. InPhase([phase |-> "send", req |-> req, tries |-> t + 1])
          BY <5>3 DEF InPhase
        <5> QED BY <5>1, <5>2, <5>4, <5>5
      <4> QED BY <4>1, <4>2
    <3>4. /\ job' \in [Worker -> Job]
          /\ \A v \in Worker : InPhase(job'[v])
      BY <3>3, NewJob
    <3>5. lost' \in BOOLEAN
      BY <2>11 DEF SendFails
    <3> QED BY <2>5, <2>11, <3>4, <3>5 DEF SendFails, TInv, TypeOK, octavia, nb
  <2> QED BY <1>4, <2>7, <2>8, <2>9, <2>10, <2>11
<1>5. ASSUME NEW w \in Worker, Restart(w)
      PROVE  TInv'
  <2>1. /\ job' \in [Worker -> Job]
        /\ \A v \in Worker : InPhase(job'[v])
    BY <1>0, <1>5, NewJob DEF Restart
  <2>2. lost' \in BOOLEAN /\ queue' \in [Worker -> Seq(Request)]
    BY <1>5 DEF Restart, TInv, TypeOK
  <2> QED BY <1>5, <2>1, <2>2 DEF Restart, TInv, TypeOK, octavia, nb
<1> QED BY <1>1, <1>2, <1>3, <1>4, <1>5 DEF Next, Step

LEMMA InitTypes == Init => TInv
<1> SUFFICES ASSUME Init PROVE TInv
  OBVIOUS
<1>1. Idle \in Job /\ InPhase(Idle) /\ <<>> \in Seq(Request)
  BY DEF Job, Idle, InPhase
<1> QED BY <1>1 DEF Init, TInv, TypeOK

\* Whatever is called, refused or restarted, in any number of processes: queues
\* hold requests, jobs have the fields of their phase, and the columns hold pools
\* and members (request_handler and the handlers it calls).
THEOREM PipelineTypes == Spec => []TypeOK
<1>1. Init => TInv
  BY InitTypes
<1>2. TInv /\ [Next]_vars => TInv'
  BY TInvStep
<1>3. TInv => TypeOK
  BY DEF TInv
<1> QED BY <1>1, <1>2, <1>3, PTL DEF Spec

-----------------------------------------------------------------------------
(* One process, which takes every call                                     *)

\* One process takes the calls, and nothing is refused or restarted.
OneProcess == ~deployment.faults /\ \E w \in Worker : deployment.workers = {w}

Creates(req, m) == req.op = "member_create" /\ req.on = m
Removes(req, m) == \/ req.op = "member_delete" /\ req.on = m
                   \/ req.op = "pool_delete" /\ req.on = PoolOf[m]

\* Who will be listed, and who will be forgotten, by a queue q and a job j.
Made(q, m)       == \E i \in DOMAIN q : Creates(q[i], m)
Unmade(q, m)     == \E i \in DOMAIN q : Removes(q[i], m)
Arrives(q, j, m) == Made(q, m) \/ (j.phase = "write" /\ Creates(j.req, m))
Leaves(q, j, m)  == Unmade(q, m) \/ (j.phase # "idle" /\ Removes(j.req, m))

Columns ==
    /\ vips = row /\ row \subseteq oMembers /\ keys \subseteq oPools
    /\ \A m \in oMembers : PoolOf[m] \in oPools
    /\ \A m \in row : PoolOf[m] \in keys

\* Octavia knows a pool without a key while its deletion is reported only.
Keyed(j) ==
    \A p \in oPools \ keys :
       j.phase = "send" /\ j.req.op = "pool_delete" /\ j.req.on = p

\* What is not as Octavia has it, a request that waits will set right.
Due(q, j) ==
    /\ \A m \in Member : Arrives(q, j, m) /\ PoolOf[m] \in keys => m \in oMembers
    /\ \A m \in oMembers : m \in row \/ Arrives(q, j, m) \/ Leaves(q, j, m)

\* No member is created again after its deletion was asked for.
Ordered(q, j) ==
    /\ \A a, b \in DOMAIN q :
          a < b /\ q[a].op = "member_delete" => ~Creates(q[b], q[a].on)
    /\ \A b \in DOMAIN q :
          j.phase # "idle" /\ j.req.op = "member_delete" => ~Creates(q[b], j.req.on)

Working(j) ==
    /\ j.phase = "write" =>
          /\ j.seen = row
          /\ \/ j.req.op = "pool_delete"
             \/ j.req.op \in {"member_create", "member_delete"}
                /\ PoolOf[j.req.on] \in keys
    /\ j.phase \in {"status", "record", "send"} /\ j.req.op = "member_delete" =>
          j.req.on \notin row
    /\ j.phase = "send" /\ j.req.op = "pool_delete" => j.req.on \notin keys

Course(q, j) == Columns /\ Keyed(j) /\ Due(q, j) /\ Ordered(q, j) /\ Working(j)

Quiet(w) == \A v \in Worker \ {w} : queue[v] = <<>> /\ job[v] = Idle
Solo(w)  == Quiet(w) /\ Course(queue[w], job[w])
SInv     == OneProcess => \A w \in deployment.workers : Solo(w)

LEMMA SoloNext ==
    ASSUME NEW w \in Worker, Quiet(w), NEW q, NEW j,
           queue'[w] = q, job'[w] = j,
           \A v \in Worker \ {w} : queue'[v] = queue[v] /\ job'[v] = job[v],
           Course(q, j)'
    PROVE  Solo(w)'
<1>1. Quiet(w)'
  BY DEF Quiet
<1>2. Course(queue[w], job[w])'
  BY DEF Course, Columns, Keyed, Due, Ordered, Working, Arrives, Leaves, Made, Unmade
<1> QED BY <1>1, <1>2 DEF Solo

\* The requests of a call come last and create nobody who is to be deleted.
LEMMA AcceptCourse ==
    ASSUME TInv, NEW w \in Worker, Solo(w),
           NEW r \in Seq(Request), NEW added \in SUBSET Member, Accept(w, r),
           oPools' = oPools, oMembers' = oMembers \cup added,
           \A m \in added : PoolOf[m] \in oPools,
           \A i \in DOMAIN r : r[i].op = "member_create" => r[i].on \in added \ Doomed,
           \A m \in added : \/ m \in row
                            \/ \E i \in DOMAIN r : r[i].op = "member_create" /\ r[i].on = m,
           \A a, b \in DOMAIN r :
              a < b /\ r[a].op = "member_delete" => r[b].op # "member_create"
    PROVE  Solo(w)'
<1>1. PICK q \in Seq(Request) : q = queue[w]
  BY DEF TInv, TypeOK
<1>2. PICK j \in Job : j = job[w]
  BY DEF TInv, TypeOK
<1>3. PICK s : s = q \o r
  OBVIOUS
<1>4. /\ queue' = [queue EXCEPT ![w] = s]
      /\ UNCHANGED <<job, keys, row, vips>>
  BY <1>1, <1>3 DEF Accept, Enqueue, nb
<1>5. /\ queue'[w] = s /\ job'[w] = j
      /\ \A v \in Worker \ {w} : queue'[v] = queue[v] /\ job'[v] = job[v]
  BY <1>2, <1>4 DEF TInv, TypeOK
<1>6. Course(q, j) /\ Quiet(w)
  BY <1>1, <1>2 DEF Solo
<1>7. /\ Len(q) \in Nat /\ Len(r) \in Nat /\ DOMAIN q = 1..Len(q) /\ DOMAIN r = 1..Len(r)
      /\ DOMAIN s = 1..(Len(q) + Len(r))
      /\ \A i \in DOMAIN q : i \in DOMAIN s /\ s[i] = q[i]
      /\ \A i \in DOMAIN r : i + Len(q) \in DOMAIN s /\ s[i + Len(q)] = r[i]
  BY <1>3
<1>8. \A i \in DOMAIN s : \/ i \in DOMAIN q /\ s[i] = q[i]
                          \/ i > Len(q) /\ i - Len(q) \in DOMAIN r /\ s[i] = r[i - Len(q)]
  <2> SUFFICES ASSUME NEW i \in DOMAIN s, i \notin DOMAIN q
               PROVE  i > Len(q) /\ i - Len(q) \in DOMAIN r /\ s[i] = r[i - Len(q)]
    BY <1>7
  <2>1. i > Len(q) /\ i - Len(q) \in DOMAIN r /\ (i - Len(q)) + Len(q) = i
    BY <1>7
  <2> QED BY <1>7, <2>1
<1>9. \A m : (Made(q, m) => Made(s, m)) /\ (Unmade(q, m) => Unmade(s, m))
             /\ (Made(r, m) => Made(s, m))
  BY <1>7 DEF Made, Unmade
<1>10. \A m : Made(s, m) => Made(q, m) \/ Made(r, m)
  BY <1>8 DEF Made
<1>11. \A m : Made(r, m) => m \in added \ Doomed
  BY DEF Made, Creates
<1>12. \A m \in added : m \in row \/ Made(r, m)
  BY DEF Made, Creates
<1>13. Columns' /\ Keyed(j)' /\ Working(j)'
  BY <1>4, <1>6 DEF Course, Columns, Keyed, Working
<1>14. Due(s, j)'
  <2>1. ASSUME NEW m \in Member, Arrives(s, j, m), PoolOf[m] \in keys
        PROVE  m \in oMembers \cup added
    BY <1>6, <1>10, <1>11, <2>1 DEF Course, Due, Arrives
  <2>2. ASSUME NEW m \in oMembers \cup added
        PROVE  m \in row \/ Arrives(s, j, m) \/ Leaves(s, j, m)
    <3>1. CASE m \in oMembers
      BY <1>6, <1>9, <3>1 DEF Course, Due, Arrives, Leaves
    <3>2. CASE m \in added
      BY <1>9, <1>12, <3>2 DEF Arrives
    <3> QED BY <2>2, <3>1, <3>2
  <2>3. \A m : Arrives(s, j, m)' = Arrives(s, j, m) /\ Leaves(s, j, m)' = Leaves(s, j, m)
    BY DEF Arrives, Leaves, Made, Unmade, Creates, Removes
  <2> QED BY <1>4, <2>1, <2>2, <2>3 DEF Due
<1>15. \A i \in DOMAIN q : q[i].op = "member_delete" => q[i].on \in Doomed
  <2> SUFFICES ASSUME NEW i \in DOMAIN q, q[i].op = "member_delete"
               PROVE  q[i].on \in Doomed
    OBVIOUS
  <2>1. q[i] \in Request /\ q[i] \in Range(q)
    BY DEF Range
  <2>2. q[i].on \in Member
    BY <2>1, RequestKinds
  <2>3. q[i] \in Unfinished
    BY <1>1, <2>1 DEF Unfinished, Waiting
  <2> QED BY <2>2, <2>3 DEF Doomed
<1>16. j.phase # "idle" /\ j.req.op = "member_delete" => j.req.on \in Doomed
  <2> SUFFICES ASSUME j.phase # "idle", j.req.op = "member_delete"
               PROVE  j.req.on \in Doomed
    OBVIOUS
  <2>1. job[w] # Idle /\ j.req \in Request
    BY <1>2, JobTypes DEF Phase
  <2>2. j.req.on \in Member
    BY <2>1, RequestKinds
  <2>3. j.req \in Unfinished
    BY <1>2, <2>1 DEF Unfinished, Waiting
  <2> QED BY <2>2, <2>3 DEF Doomed
<1>17. \A i \in DOMAIN r : \A m \in Doomed : ~Creates(r[i], m)
  BY DEF Creates
<1>18. Ordered(s, j)'
  <2>1. ASSUME NEW a \in DOMAIN s, NEW b \in DOMAIN s, a < b, s[a].op = "member_delete"
        PROVE  ~Creates(s[b], s[a].on)
    <3>1. CASE b \in DOMAIN q
      <4>1. a \in DOMAIN q
        BY <1>7, <2>1, <3>1
      <4> QED BY <1>6, <1>7, <2>1, <3>1, <4>1 DEF Course, Ordered
    <3>2. CASE a \in DOMAIN q /\ b \notin DOMAIN q
      BY <1>7, <1>8, <1>15, <1>17, <2>1, <3>2
    <3>3. CASE a \notin DOMAIN q /\ b \notin DOMAIN q
      <4>1. a - Len(q) \in DOMAIN r /\ b - Len(q) \in DOMAIN r /\ a - Len(q) < b - Len(q)
        BY <1>7, <1>8, <2>1, <3>3
      <4> QED BY <1>8, <2>1, <3>3, <4>1 DEF Creates
    <3> QED BY <3>1, <3>2, <3>3
  <2>2. ASSUME NEW b \in DOMAIN s, j.phase # "idle", j.req.op = "member_delete"
        PROVE  ~Creates(s[b], j.req.on)
    BY <1>6, <1>8, <1>16, <1>17, <2>2 DEF Course, Ordered
  <2> QED BY <2>1, <2>2 DEF Ordered, Creates
<1>19. Course(s, j)'
  BY <1>13, <1>14, <1>18 DEF Course
<1> QED BY <1>5, <1>6, <1>19, SoloNext

LEMMA BeginCourse ==
    ASSUME TInv, NEW w \in Worker, Solo(w), Begin(w)
    PROVE  Solo(w)'
<1>1. PICK q \in Seq(Request) : q = queue[w] /\ q # <<>>
  BY DEF TInv, TypeOK, Begin
<1>2. PICK j : j = job[w] /\ j.phase = "idle"
  BY DEF Begin, Phase
<1>3. PICK req \in Request : req = Head(q)
  BY <1>1, HeadAndTail
<1>4. PICK t : t = Tail(q)
  OBVIOUS
<1>5. /\ t \in Seq(Request) /\ req = q[1] /\ 1 \in DOMAIN q
      /\ \A i \in DOMAIN t : i + 1 \in DOMAIN q /\ t[i] = q[i + 1]
      /\ \A i \in DOMAIN q : i = 1 \/ \E k \in DOMAIN t : t[k] = q[i]
  BY <1>1, <1>3, <1>4, HeadAndTail
<1>6. queue' = [queue EXCEPT ![w] = t] /\ UNCHANGED <<octavia, nb>>
  BY <1>1, <1>4 DEF Begin
<1>7. Course(q, j) /\ Quiet(w)
  BY <1>1, <1>2 DEF Solo
<1>8. \/ req.op \in MemberOp /\ req.on \in Member
      \/ req.op = "pool_delete" /\ req.on \in Pool
  BY RequestKinds
<1>9. oPools = keys
  BY <1>2, <1>7 DEF Course, Columns, Keyed
\* What becomes of the job, and what is dropped.
<1>10. PICK k :
          /\ job' = [job EXCEPT ![w] = k]
          /\ \/ k = j /\ req.op = "dvr"
             \/ k = j /\ req.op \in MemberOp /\ PoolOf[req.on] \notin keys
             \/ /\ k = [phase |-> "write", req |-> req, seen |-> row]
                /\ \/ req.op = "pool_delete"
                   \/ req.op \in {"member_create", "member_delete"}
                      /\ PoolOf[req.on] \in keys
             \/ /\ k = [phase |-> "status", req |-> req]
                /\ req.op = "member_update"
  <2>1. job = [job EXCEPT ![w] = j]
    BY <1>2 DEF TInv, TypeOK
  <2> QED BY <1>1, <1>3, <1>8, <2>1 DEF Begin, Becomes, MemberOp
<1>11. /\ queue'[w] = t /\ job'[w] = k
       /\ \A v \in Worker \ {w} : queue'[v] = queue[v] /\ job'[v] = job[v]
  BY <1>6, <1>10 DEF TInv, TypeOK
<1>12. k.phase \in {"idle", "write", "status"} /\ (k.phase # "idle" => k.req = req)
  BY <1>2, <1>10
<1>13. \A m \in oMembers : Creates(req, m) => k.phase = "write" /\ Creates(k.req, m)
  BY <1>7, <1>9, <1>10 DEF Creates, Course, Columns, MemberOp
<1>14. \A m \in oMembers : Removes(req, m) => k.phase # "idle" /\ Removes(k.req, m)
  BY <1>7, <1>9, <1>10 DEF Removes, Course, Columns, MemberOp
<1>15. \A m : /\ Made(t, m) => Made(q, m)
              /\ Made(q, m) => Made(t, m) \/ Creates(req, m)
              /\ Unmade(q, m) => Unmade(t, m) \/ Removes(req, m)
              /\ Creates(req, m) => Made(q, m)
  <2>1. \A m : Made(t, m) => Made(q, m)
    BY <1>5 DEF Made
  <2>2. \A m : Made(q, m) => Made(t, m) \/ Creates(req, m)
    BY <1>5 DEF Made
  <2>3. \A m : Unmade(q, m) => Unmade(t, m) \/ Removes(req, m)
    BY <1>5 DEF Unmade
  <2>4. \A m : Creates(req, m) => Made(q, m)
    BY <1>5 DEF Made
  <2> QED BY <2>1, <2>2, <2>3, <2>4
<1>16. UNCHANGED <<oPools, oMembers, keys, row, vips>>
  BY <1>6 DEF octavia, nb
<1>17. Columns' /\ Keyed(k)'
  BY <1>7, <1>9, <1>16 DEF Course, Columns, Keyed
<1>18. Working(k)'
  BY <1>2, <1>10, <1>16 DEF Working, MemberOp
<1>19. Due(t, k)
  <2>1. \A m \in Member : Arrives(t, k, m) => Arrives(q, j, m)
    BY <1>12, <1>15 DEF Arrives
  <2>2. \A m \in oMembers : Arrives(q, j, m) => Arrives(t, k, m)
    BY <1>2, <1>13, <1>15 DEF Arrives
  <2>3. \A m \in oMembers : Leaves(q, j, m) => Leaves(t, k, m)
    BY <1>2, <1>14, <1>15 DEF Leaves
  <2> QED BY <1>7, <2>1, <2>2, <2>3 DEF Course, Due
<1>20. Due(t, k)'
  BY <1>16, <1>19 DEF Due, Arrives, Leaves, Made, Unmade, Creates, Removes
<1>21. Ordered(t, k)'
  <2>1. ASSUME NEW a \in DOMAIN t, NEW b \in DOMAIN t, a < b, t[a].op = "member_delete"
        PROVE  ~Creates(t[b], t[a].on)
    <3>1. a + 1 < b + 1 /\ a + 1 \in DOMAIN q /\ b + 1 \in DOMAIN q
          /\ t[a] = q[a + 1] /\ t[b] = q[b + 1]
      BY <1>5, <2>1
    <3> QED BY <1>7, <2>1, <3>1 DEF Course, Ordered
  <2>2. ASSUME NEW b \in DOMAIN t, k.phase # "idle", k.req.op = "member_delete"
        PROVE  ~Creates(t[b], k.req.on)
    <3>1. 1 < b + 1 /\ b + 1 \in DOMAIN q /\ t[b] = q[b + 1]
      BY <1>5
    <3>2. k.req = q[1] /\ 1 \in DOMAIN q
      BY <1>5, <1>12, <2>2
    <3> QED BY <1>7, <2>2, <3>1, <3>2 DEF Course, Ordered
  <2> QED BY <2>1, <2>2 DEF Ordered, Creates
<1>22. Course(t, k)'
  BY <1>17, <1>18, <1>20, <1>21 DEF Course
<1> QED BY <1>7, <1>11, <1>22, SoloNext

\* A step of the busy helper, which leaves its queue alone.
LEMMA StepCourse ==
    ASSUME TInv, NEW w \in Worker, Solo(w),
           Write(w) \/ ReadStatuses(w) \/ Record(w) \/ Send(w)
    PROVE  Solo(w)'
<1>1. PICK q \in Seq(Request) : q = queue[w]
  BY DEF TInv, TypeOK
<1>2. PICK j : j = job[w]
  OBVIOUS
<1>3. ~Phase(w, "idle")
  BY DEF Write, ReadStatuses, Record, Send, Phase
<1>4. PICK req \in Request : req = j.req
  BY <1>2, <1>3, JobTypes
<1>5. \/ req.op \in MemberOp /\ req.on \in Member /\ PoolOf[req.on] \in Pool
      \/ req.op = "pool_delete" /\ req.on \in Pool
  BY RequestKinds
<1>6. Course(q, j) /\ Quiet(w)
  BY <1>1, <1>2 DEF Solo
<1>7. /\ Columns /\ Keyed(j) /\ Due(q, j) /\ Ordered(q, j) /\ Working(j)
      /\ oMembers \subseteq Member /\ row \subseteq Member
  BY <1>6 DEF Course, TInv, TypeOK
<1>8. UNCHANGED queue
  BY DEF Write, ReadStatuses, Record, Send
<1>9. ASSUME NEW k, Becomes(w, k), Course(q, k)'
      PROVE  Solo(w)'
  <2>1. /\ queue'[w] = q /\ job'[w] = k
        /\ \A v \in Worker \ {w} : queue'[v] = queue[v] /\ job'[v] = job[v]
    BY <1>1, <1>8, <1>9 DEF Becomes, TInv, TypeOK
  <2> QED BY <1>6, <1>9, <2>1, SoloNext
\* What the job adds to the queue, before and after the step.
<1>10. \A k : \A m : /\ Arrives(q, k, m)' = Arrives(q, k, m)
                     /\ Leaves(q, k, m)' = Leaves(q, k, m)
  BY DEF Arrives, Leaves, Made, Unmade, Creates, Removes
<1>11. ASSUME NEW k, k.phase # "write"
       PROVE  \A m : Arrives(q, k, m) => Arrives(q, j, m)
  BY <1>11 DEF Arrives
<1>12. ASSUME NEW k, k.phase # "idle", k.req = req
       PROVE  \A m : Leaves(q, j, m) => Leaves(q, k, m)
  BY <1>4, <1>12 DEF Leaves
<1>13. ASSUME NEW k, k.req = req \/ k.phase = "idle"
       PROVE  Ordered(q, k)'
  BY <1>2, <1>3, <1>4, <1>7, <1>13 DEF Ordered, Creates, Phase
<1>14. ASSUME Write(w)
       PROVE  Solo(w)'
  <2>1. /\ j.phase = "write" /\ j.seen = row
        /\ \/ req.op = "pool_delete"
           \/ req.op \in {"member_create", "member_delete"} /\ PoolOf[req.on] \in keys
        /\ UNCHANGED <<oPools, oMembers>>
    BY <1>2, <1>4, <1>7, <1>14 DEF Write, Phase, Working, octavia
  <2>2. keys = oPools
    BY <1>7, <2>1 DEF Columns, Keyed
  <2>3. CASE req.op = "member_create"
    <3>1. PICK k : k = [phase |-> "status", req |-> req]
      OBVIOUS
    <3>2. Becomes(w, k)
      BY <1>2, <1>4, <1>14, <2>3, <3>1 DEF Write
    <3>3. req.on \in Member /\ PoolOf[req.on] \in keys
      BY <1>5, <2>1, <2>3
    <3>4. /\ keys' = keys /\ vips' = row \cup {req.on} /\ row' = row \cup {req.on}
      <4>1. CASE req.on \in row
        BY <1>2, <1>4, <1>7, <1>14, <2>1, <2>3, <4>1 DEF Write, Columns
      <4>2. CASE req.on \notin row
        <5>1. WritePool(w, PoolOf[req.on], row \cup {req.on})
          BY <1>2, <1>4, <1>14, <2>1, <2>3, <4>2 DEF Write
        <5> QED BY <1>7, <3>3, <5>1 DEF WritePool, MembersOf
      <4> QED BY <4>1, <4>2
    <3>5. Arrives(q, j, req.on)
      BY <1>4, <2>1, <2>3 DEF Arrives, Creates
    <3>6. req.on \in oMembers
      BY <1>7, <3>3, <3>5 DEF Due
    <3>7. Columns'
      BY <1>7, <2>1, <3>3, <3>4, <3>6 DEF Columns
    <3>8. Keyed(k)' /\ Working(k)'
      BY <2>1, <2>2, <2>3, <3>1, <3>4 DEF Keyed, Working
    <3>9. \A m : Arrives(q, j, m) => Arrives(q, k, m) \/ m = req.on
      BY <1>4, <2>1 DEF Arrives, Creates
    <3>10. Due(q, k)'
      BY <1>7, <1>10, <1>11, <1>12, <2>1, <3>1, <3>4, <3>9 DEF Due
    <3>11. Ordered(q, k)'
      BY <1>13, <3>1
    <3>12. Course(q, k)'
      BY <3>7, <3>8, <3>10, <3>11 DEF Course
    <3> QED BY <1>9, <3>2, <3>12
  <2>4. CASE req.op = "member_delete"
    <3>1. PICK k : k = [phase |-> "status", req |-> req]
      OBVIOUS
    <3>2. Becomes(w, k)
      BY <1>2, <1>4, <1>14, <2>4, <3>1 DEF Write
    <3>3. req.on \in Member /\ PoolOf[req.on] \in keys
      BY <1>5, <2>1, <2>4
    <3>4. /\ keys' = keys /\ vips' = row \ {req.on} /\ row' = row \ {req.on}
      <4>1. CASE req.on \notin row
        BY <1>2, <1>4, <1>7, <1>14, <2>1, <2>4, <4>1 DEF Write, Columns
      <4>2. CASE req.on \in row
        <5>1. WritePool(w, PoolOf[req.on], row \ {req.on})
          BY <1>2, <1>4, <1>14, <2>1, <2>4, <4>2 DEF Write
        <5> QED BY <1>7, <3>3, <5>1 DEF WritePool, MembersOf
      <4> QED BY <4>1, <4>2
    <3>5. Columns'
      BY <1>7, <2>1, <3>4 DEF Columns
    <3>6. Keyed(k)' /\ Working(k)'
      BY <2>1, <2>2, <2>4, <3>1, <3>4 DEF Keyed, Working
    <3>7. \A m : Arrives(q, j, m) => Arrives(q, k, m)
      BY <1>4, <2>4 DEF Arrives, Creates
    <3>8. Leaves(q, k, req.on)
      BY <2>4, <3>1 DEF Leaves, Removes
    <3>9. Due(q, k)'
      BY <1>7, <1>10, <1>11, <1>12, <2>1, <3>1, <3>4, <3>7, <3>8 DEF Due
    <3>10. Ordered(q, k)'
      BY <1>13, <3>1
    <3>11. Course(q, k)'
      BY <3>5, <3>6, <3>9, <3>10 DEF Course
    <3> QED BY <1>9, <3>2, <3>11
  <2>5. CASE req.op = "pool_delete"
    <3>1. PICK k : k = [phase |-> "send", req |-> req, tries |-> 0]
      OBVIOUS
    <3>2. /\ Becomes(w, k)
          /\ keys' = keys \ {req.on}
          /\ row' = row \ MembersOf(req.on) /\ vips' = row \ MembersOf(req.on)
      BY <1>2, <1>4, <1>14, <2>1, <2>5, <3>1 DEF Write
    <3>3. Columns'
      BY <1>7, <2>1, <3>2 DEF Columns, MembersOf
    <3>4. Keyed(k)' /\ Working(k)'
      BY <2>1, <2>2, <2>5, <3>1, <3>2 DEF Keyed, Working
    <3>5. \A m : Arrives(q, j, m) => Arrives(q, k, m)
      BY <1>4, <2>5 DEF Arrives, Creates
    <3>6. \A m \in MembersOf(req.on) : Leaves(q, k, m)
      BY <2>5, <3>1 DEF Leaves, Removes, MembersOf
    <3>7. Due(q, k)'
      BY <1>7, <1>10, <1>11, <1>12, <2>1, <3>1, <3>2, <3>5, <3>6 DEF Due
    <3>8. Ordered(q, k)'
      BY <1>13, <3>1
    <3>9. Course(q, k)'
      BY <3>3, <3>4, <3>7, <3>8 DEF Course
    <3> QED BY <1>9, <3>2, <3>9
  <2> QED BY <2>1, <2>3, <2>4, <2>5
<1>15. ASSUME ReadStatuses(w) \/ Record(w)
       PROVE  Solo(w)'
  <2>1. /\ j.phase \in {"status", "record"} /\ req.op \in MemberOp
        /\ UNCHANGED <<oPools, oMembers, keys, row, vips>>
    BY <1>2, <1>4, <1>15 DEF ReadStatuses, Record, Phase, TInv, InPhase, octavia, nb
  <2>2. keys = oPools
    BY <1>7, <2>1 DEF Columns, Keyed
  <2>3. PICK k : /\ Becomes(w, k) /\ k.req = req /\ k.phase \in {"record", "send"}
    <3>1. CASE ReadStatuses(w)
      BY <1>2, <1>4, <3>1 DEF ReadStatuses
    <3>2. CASE Record(w)
      BY <1>2, <1>4, <2>2, <3>2 DEF Record
    <3> QED BY <1>15, <3>1, <3>2
  <2>4. Columns' /\ Keyed(k)'
    BY <1>7, <2>1, <2>2 DEF Columns, Keyed
  <2>5. Working(k)'
    BY <1>4, <1>7, <2>1, <2>3 DEF Working, MemberOp
  <2>6. \A m : Arrives(q, j, m) => Arrives(q, k, m)
    BY <2>1 DEF Arrives
  <2>7. Due(q, k)'
    BY <1>7, <1>10, <1>11, <1>12, <2>1, <2>3, <2>6 DEF Due
  <2>8. Ordered(q, k)'
    BY <1>13, <2>3
  <2>9. Course(q, k)'
    BY <2>4, <2>5, <2>7, <2>8 DEF Course
  <2> QED BY <1>9, <2>3, <2>9
<1>16. ASSUME Send(w)
       PROVE  Solo(w)'
  <2>1. /\ Becomes(w, Idle) /\ Idle.phase = "idle" /\ j.phase = "send"
        /\ UNCHANGED <<keys, row, vips>>
    BY <1>2, <1>16 DEF Send, Phase, Idle, nb
  <2>2. /\ req.op = "member_delete" => oMembers' = oMembers \ {req.on}
        /\ req.op = "pool_delete" =>
              /\ oMembers' = oMembers \ MembersOf(req.on)
              /\ oPools' = oPools \ {req.on}
        /\ req.op # "pool_delete" => oPools' = oPools
        /\ req.op \notin {"member_delete", "pool_delete"} => oMembers' = oMembers
    <3>1. \/ req.op = "pool_delete" \/ req.op = "member_delete"
          \/ req.op \notin {"member_delete", "pool_delete"}
      OBVIOUS
    <3> QED BY <1>2, <1>4, <1>16, <3>1 DEF Send
  <2>3. Working(Idle)' /\ Ordered(q, Idle)'
    BY <1>13, <2>1 DEF Working
  <2>4. \A m : Arrives(q, j, m) <=> Arrives(q, Idle, m)
    BY <2>1 DEF Arrives
  <2>5. \A m : Leaves(q, j, m) => Leaves(q, Idle, m) \/ Removes(req, m)
    BY <1>4 DEF Leaves
  <2>6. CASE req.op = "pool_delete"
    <3>1. req.on \notin keys /\ keys = oPools \ {req.on}
      BY <1>4, <1>7, <2>1, <2>6 DEF Working, Keyed, Columns
    <3>2. Columns'
      BY <1>7, <2>1, <2>2, <2>6, <3>1 DEF Columns, MembersOf
    <3>3. Keyed(Idle)'
      BY <2>1, <2>2, <2>6, <3>1 DEF Keyed
    <3>4. \A m \in oMembers' : ~Removes(req, m)
      BY <1>7, <2>2, <2>6 DEF Removes, MembersOf
    <3>5. \A m \in oMembers : PoolOf[m] \in keys => m \in oMembers'
      BY <2>2, <2>6, <3>1 DEF MembersOf
    <3>6. oMembers' \subseteq oMembers
      BY <2>2, <2>6
    <3>7. Due(q, Idle)'
      BY <1>7, <1>10, <2>1, <2>4, <2>5, <3>4, <3>5, <3>6 DEF Due
    <3>8. Course(q, Idle)'
      BY <2>3, <3>2, <3>3, <3>7 DEF Course
    <3> QED BY <1>9, <2>1, <3>8
  <2>7. CASE req.op = "member_delete"
    <3>1. keys = oPools
      BY <1>4, <1>7, <2>7 DEF Keyed, Columns
    <3>2. req.on \notin row
      BY <1>4, <1>7, <2>1, <2>7 DEF Working
    <3>3. Columns' /\ Keyed(Idle)'
      BY <1>7, <2>1, <2>2, <2>7, <3>1, <3>2 DEF Columns, Keyed
    <3>4. ~Arrives(q, Idle, req.on)
      BY <1>4, <1>7, <2>1, <2>7 DEF Arrives, Made, Ordered
    <3>5. \A m \in oMembers' : ~Removes(req, m)
      BY <2>2, <2>7 DEF Removes
    <3>6. Due(q, Idle)'
      BY <1>7, <1>10, <2>1, <2>2, <2>4, <2>5, <2>7, <3>4, <3>5 DEF Due
    <3>7. Course(q, Idle)'
      BY <2>3, <3>3, <3>6 DEF Course
    <3> QED BY <1>9, <2>1, <3>7
  <2>8. CASE req.op \notin {"member_delete", "pool_delete"}
    <3>1. keys = oPools
      BY <1>4, <1>7, <2>8 DEF Keyed, Columns
    <3>2. Columns' /\ Keyed(Idle)'
      BY <1>7, <2>1, <2>2, <2>8, <3>1 DEF Columns, Keyed
    <3>3. \A m : ~Removes(req, m)
      BY <2>8 DEF Removes
    <3>4. Due(q, Idle)'
      BY <1>7, <1>10, <2>1, <2>2, <2>4, <2>5, <2>8, <3>3 DEF Due
    <3>5. Course(q, Idle)'
      BY <2>3, <3>2, <3>4 DEF Course
    <3> QED BY <1>9, <2>1, <3>5
  <2> QED BY <2>6, <2>7, <2>8
<1> QED BY <1>14, <1>15, <1>16

LEMMA SoloStep == TInv /\ SInv /\ [Next]_vars => SInv'
<1> SUFFICES ASSUME TInv, SInv, [Next]_vars, OneProcess' PROVE SInv'
  BY DEF SInv
<1>1. deployment' = deployment
  BY DeploymentStays
<1>2. PICK w \in Worker : deployment.workers = {w}
  BY <1>1 DEF OneProcess
<1>3. Solo(w) /\ ~deployment.faults
  BY <1>1, <1>2 DEF SInv, OneProcess
<1> SUFFICES Solo(w)'
  BY <1>1, <1>2 DEF SInv
<1>4. CASE UNCHANGED vars
  <2>1. Course(queue[w], job[w])' = Course(queue[w], job[w]) /\ Quiet(w)' = Quiet(w)
    BY <1>4 DEF vars, octavia, nb, Course, Columns, Keyed, Due, Ordered, Working,
                Arrives, Leaves, Made, Unmade, Quiet
  <2> QED BY <1>3, <2>1 DEF Solo
<1>5. ASSUME NEW v \in Worker,
             \/ \E m \in Member : CreateMember(v, m) \/ DeleteMember(v, m)
             \/ \E p \in Pool : \/ DeletePool(v, p)
                                \/ \E wanted \in SUBSET MembersOf(p) :
                                      BatchUpdate(v, p, wanted)
      PROVE  Solo(w)'
  <2>1. PICK r \in Seq(Request), added \in SUBSET Member :
           /\ Accept(v, r)
           /\ oPools' = oPools /\ oMembers' = oMembers \cup added
           /\ \A m \in added : PoolOf[m] \in oPools
           /\ \A i \in DOMAIN r : r[i].op = "member_create" =>
                 r[i].on \in added \ Doomed
           /\ \A m \in added : \/ m \in row
                               \/ \E i \in DOMAIN r : r[i].op = "member_create"
                                                      /\ r[i].on = m
           /\ \A i, j \in DOMAIN r :
                 i < j /\ r[i].op = "member_delete" => r[j].op # "member_create"
    BY <1>5, Calls
  <2>2. v = w
    BY <1>2, <2>1 DEF Accept
  <2> QED BY <1>3, <2>1, <2>2, AcceptCourse
<1>6. ASSUME NEW v \in Worker, Step(v) \/ Restart(v)
      PROVE  Solo(w)'
  <2>1. Begin(v) \/ Write(v) \/ ReadStatuses(v) \/ Record(v) \/ Send(v)
    BY <1>3, <1>6 DEF Step, SendFails, Restart
  <2>2. queue[v] # <<>> \/ ~Phase(v, "idle")
    BY <2>1 DEF Begin, Write, ReadStatuses, Record, Send, Phase
  <2>3. v = w
    BY <1>3, <2>2 DEF Solo, Quiet, Phase, Idle
  <2> QED BY <1>3, <2>1, <2>3, BeginCourse, StepCourse
<1> QED BY <1>4, <1>5, <1>6 DEF Next

LEMMA SoloInit == Init => SInv
<1> SUFFICES ASSUME Init, NEW w \in Worker PROVE Solo(w)
  BY DEF SInv, OneProcess
<1>1. \A v \in Worker : queue[v] = <<>> /\ job[v] = Idle
  BY DEF Init
<1>2. Idle.phase = "idle" /\ DOMAIN <<>> = {}
  BY DEF Idle
<1>3. Course(<<>>, Idle)
  BY <1>2 DEF Init, Course, Columns, Keyed, Due, Ordered, Working, Arrives, Made
<1> QED BY <1>1, <1>3 DEF Solo, Quiet

\* When the helpers have nothing to do and no call is under way, the row shows the
\* members Octavia has, and vips forwards to them: with calls of one status in any
\* number of processes, whatever is refused or restarted, and with every call in one
\* process when nothing is (pool_delete and member_batch_update queue one request
\* for each member, and the status of the first lets the next call in).  Two
\* processes with batches break it.
THEOREM SyncedWhenIdle == Spec => [](OneStatus \/ OneProcess => SyncWhenIdle)
<1>1. Init => PInv /\ TInv /\ SInv
  BY InitOK, InitTypes, SoloInit
<1>2. PInv /\ TInv /\ SInv /\ [Next]_vars => (PInv /\ TInv /\ SInv)'
  BY NextOK, TInvStep, SoloStep
<1>3. PInv /\ SInv => (OneStatus \/ OneProcess => SyncWhenIdle)
  <2>1. PInv /\ OneStatus => SyncWhenIdle
    BY DEF PInv, Phases, Shows, SyncWhenIdle
  <2>2. SInv /\ OneProcess => SyncWhenIdle
    <3> SUFFICES ASSUME SInv, OneProcess, \A w \in Worker : queue[w] = <<>> /\ job[w] = Idle
                 PROVE  row = oMembers /\ vips = row
      BY DEF SyncWhenIdle
    <3>1. PICK w \in Worker : deployment.workers = {w}
      BY DEF OneProcess
    <3>2. Course(<<>>, Idle)
      BY <3>1 DEF SInv, Solo
    <3>3. \A m : ~Arrives(<<>>, Idle, m) /\ ~Leaves(<<>>, Idle, m)
      BY DEF Arrives, Leaves, Made, Unmade, Idle
    <3> QED BY <3>2, <3>3 DEF Course, Columns, Due
  <2> QED BY <2>1, <2>2
<1> QED BY <1>1, <1>2, <1>3, PTL DEF Spec
=============================================================================
