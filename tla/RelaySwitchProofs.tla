-------------------------- MODULE RelaySwitchProofs ---------------------------
(***************************************************************************)
(* What the switch and its table keep, for any requests, peer calls,       *)
(* probes, masters, capacities and scenarios: the state keeps its types, a *)
(* channel gets one terminal, a caller's answer is delivered or owed by    *)
(* somebody, permits live as long as their requests, and a cancellation    *)
(* reaches every linked peer call.                                         *)
(*                                                                         *)
(* Shape is the invariant about the tasks: what each may be holding.       *)
(* Ledger is the one about the requests: it follows a terminal from the    *)
(* table, where `terminate` lets one task take the request out, through    *)
(* that task's hands to the channel.                                       *)
(*                                                                         *)
(* The second half is about masters that die.  Its two theorems have       *)
(* premises on the scenarios, without which they are false; they are       *)
(* defined where it starts.                                                *)
(***************************************************************************)
EXTENDS RelaySwitch, FiniteSetTheorems, TLAPS

(***************************************************************************)
(* What the pump holds, and what it may be holding it over.  A frame it is *)
(* about to pass on was taken with no call under way, and no step of a     *)
(* call comes in between.                                                  *)
(***************************************************************************)
Immediate == {"deliver", "forward", "register", "send", "relay"}

HandOK ==
  /\ hand.at \in Immediate => Free("pump")
  /\ hand.at = "deliver" => hand.req \in Channelled /\ hand.kind \in {"data", "end", "err"}
  /\ hand.at \in {"forward", "register", "send", "unsent"} => hand.req \in Peers

\* Only peer calls come in by a frame, and only probes are probes.
InboxOK == \A m \in Masters : \A i \in DOMAIN inbox[m] :
             inbox[m][i].kind = "req" => inbox[m][i].req \in Peers
ProbeOK == probing.at # "idle" => probing.req \in Probes
FiniteLive == IsFiniteSet(Live)

Shape == /\ TableType /\ DeliveryType /\ LinksType /\ HostsType /\ TasksType /\ CallsType
         /\ budget \in Bounds
         /\ HandOK /\ InboxOK /\ ProbeOK /\ FiniteLive

USE DEF Tasks, Routines

LEMMA Fillers ==
  /\ NoDeath \in Deaths /\ NoRebuild \in Rebuilds /\ NoHand \in Hands /\ NoProbe \in ProbeStates
  /\ StartRebuild \in Rebuilds /\ StartRebuild.at = "health"
  /\ NoDeath.at = "idle" /\ NoRebuild.at = "idle" /\ NoHand.at = "idle" /\ NoProbe.at = "idle"
<1>1. (CHOOSE m \in Masters : TRUE) \in Masters /\ (CHOOSE r \in Requests : TRUE) \in Requests
  BY ConstantsAssumption
<1> QED
  BY <1>1 DEF NoDeath, NoRebuild, StartRebuild, NoHand, NoProbe, Deaths, Rebuilds, Hands, ProbeStates

LEMMA Unmoved ==
  /\ TableType /\ UNCHANGED table => TableType'
  /\ DeliveryType /\ UNCHANGED <<delivery, deaf>> => DeliveryType'
  /\ LinksType /\ UNCHANGED <<links, routable>> => LinksType'
  /\ HostsType /\ UNCHANGED hosts => HostsType'
  /\ TasksType /\ UNCHANGED tasks => TasksType'
  /\ CallsType /\ UNCHANGED calls => CallsType'
  /\ HandOK /\ UNCHANGED <<hand, calls>> => HandOK'
  /\ InboxOK /\ UNCHANGED inbox => InboxOK'
  /\ ProbeOK /\ UNCHANGED probing => ProbeOK'
  /\ FiniteLive /\ UNCHANGED phase => FiniteLive'
<1>1. TableType /\ UNCHANGED table => TableType'
  BY DEF TableType, table
<1>2. DeliveryType /\ UNCHANGED <<delivery, deaf>> => DeliveryType'
  BY DEF DeliveryType, delivery
<1>3. LinksType /\ UNCHANGED <<links, routable>> => LinksType'
  BY DEF LinksType, links
<1>4. HostsType /\ UNCHANGED hosts => HostsType'
  BY DEF HostsType, hosts
<1>5. TasksType /\ UNCHANGED tasks => TasksType'
  BY DEF TasksType, tasks
<1>6. CallsType /\ UNCHANGED calls => CallsType'
  BY DEF CallsType, calls
<1>7. HandOK /\ UNCHANGED <<hand, calls>> => HandOK'
  BY DEF HandOK, calls, Free
<1>8. InboxOK /\ UNCHANGED inbox => InboxOK'
  BY DEF InboxOK
<1>9. ProbeOK /\ UNCHANGED probing => ProbeOK'
  BY DEF ProbeOK
<1>10. FiniteLive /\ UNCHANGED phase => FiniteLive'
  BY DEF FiniteLive, Live
<1> QED
  BY <1>1, <1>2, <1>3, <1>4, <1>5, <1>6, <1>7, <1>8, <1>9, <1>10

\* A step may use up some of the bounds.
LEMMA Spent ==
  ASSUME budget \in Bounds
  PROVE  /\ budget.deaths > 0 => [budget EXCEPT !.deaths = @ - 1] \in Bounds
         /\ budget.attach > 0 => [budget EXCEPT !.attach = @ - 1] \in Bounds
         /\ budget.stops > 0 => [budget EXCEPT !.stops = @ - 1] \in Bounds
         /\ budget.drops > 0 => [budget EXCEPT !.drops = @ - 1] \in Bounds
         /\ \A m \in Masters : budget.notify[m] > 0 => [budget EXCEPT !.notify[m] = @ - 1] \in Bounds
<1>1. budget.deaths > 0 => [budget EXCEPT !.deaths = @ - 1] \in Bounds
  BY DEF Bounds
<1>2. budget.attach > 0 => [budget EXCEPT !.attach = @ - 1] \in Bounds
  BY DEF Bounds
<1>3. budget.stops > 0 => [budget EXCEPT !.stops = @ - 1] \in Bounds
  BY DEF Bounds
<1>4. budget.drops > 0 => [budget EXCEPT !.drops = @ - 1] \in Bounds
  BY DEF Bounds
<1>5. ASSUME NEW m \in Masters, budget.notify[m] > 0
      PROVE  [budget EXCEPT !.notify[m] = @ - 1] \in Bounds
  <2>1. [budget.notify EXCEPT ![m] = @ - 1] \in [Masters -> Nat]
    BY <1>5 DEF Bounds
  <2> QED
    BY <2>1 DEF Bounds
<1> QED
  BY <1>1, <1>2, <1>3, <1>4, <1>5

\* The table: a request is registered, or a live one ends.
LEMMA Registered ==
  ASSUME TableType, FiniteLive, NEW r \in Requests, NEW m \in Masters, Register(r, m)
  PROVE  /\ phase' \in [Requests -> Phases] /\ dest' \in [Requests -> Masters]
         /\ FiniteLive'
<1>1. phase' \in [Requests -> Phases] /\ dest' \in [Requests -> Masters]
  BY DEF TableType, Register, Phases
<1>2. Live' = Live \cup {r}
  BY DEF Register, Live, TableType
<1> QED
  BY <1>1, <1>2, FS_AddElement DEF FiniteLive

LEMMA Terminated ==
  ASSUME TableType, FiniteLive, NEW r \in Requests, NEW kind \in TerminalKinds,
         Terminate(r, kind)
  PROVE  phase' \in [Requests -> Phases] /\ FiniteLive'
<1>1. phase' \in [Requests -> Phases]
  BY DEF TableType, Terminate, Phases
<1>2. Live' \subseteq Live
  BY DEF Terminate, Live, TableType, TerminalKinds
<1> QED
  BY <1>1, <1>2, FS_Subset DEF FiniteLive

LEMMA DeliveredType ==
  ASSUME DeliveryType, NEW r, NEW what \in Deliveries, Deliver(r, what)
  PROVE  channel' \in [Channelled -> Seq(Deliveries)]
<1>1. CASE r \in Channelled \ deaf
  <2>1. Append(channel[r], what) \in Seq(Deliveries)
    BY <1>1 DEF DeliveryType
  <2> QED
    BY <1>1, <2>1 DEF DeliveryType, Deliver
<1>2. CASE ~(r \in Channelled \ deaf)
  BY <1>2 DEF DeliveryType, Deliver
<1> QED
  BY <1>1, <1>2

\* A death that is set off, in CallsType; and what is the calls of a task alone.
LEMMA DiesType ==
  ASSUME CallsType, NEW t \in Tasks, NEW m \in Masters, MasterDies(t, m)
  PROVE  death' \in [Tasks -> Deaths] /\ \A u \in Tasks \ {t} : death'[u] = death[u]
<1>1. [NoDeath EXCEPT !.at = "mark", !.master = m] \in Deaths
  BY Fillers DEF Deaths
<1> QED
  BY <1>1 DEF CallsType, MasterDies

\* The calls of other tasks are no concern of the pump.
LEMMA OtherCalls ==
  ASSUME HandOK, CallsType, UNCHANGED hand, NEW t \in Tasks, t # "pump" \/ ~Free(t),
         \A u \in Tasks \ {t} : death'[u] = death[u] /\ cancel'[u] = cancel[u]
                                  /\ rebuild'[u] = rebuild[u]
  PROVE  HandOK'
<1>1. CASE t # "pump"
  BY <1>1 DEF HandOK, Free
<1>2. CASE t = "pump" /\ ~Free(t)
  BY <1>2 DEF HandOK
<1> QED
  BY <1>1, <1>2

LEMMA ShapeInit == Init => Shape
<1> SUFFICES ASSUME Init PROVE Shape
  OBVIOUS
<1>1. (CHOOSE m \in Masters : TRUE) \in Masters
  BY ConstantsAssumption
<1>2. TableType
  BY <1>1 DEF Init, TableType, Phases
<1>3. DeliveryType
  BY DEF Init, DeliveryType
<1>4. budget \in Bounds
  BY ConstantsAssumption DEF Init
<1>5. LinksType
  BY <1>4 DEF Init, LinksType, Bounds
<1>6. HostsType
  BY <1>1 DEF Init, HostsType
<1>7. TasksType
  BY Fillers DEF Init, TasksType, CallerPCs
<1>8. CallsType
  BY Fillers DEF Init, CallsType
<1>9. HandOK /\ ProbeOK
  BY Fillers DEF Init, HandOK, ProbeOK, Immediate
<1>10. InboxOK
  BY DEF Init, InboxOK
<1>11. Live = {}
  BY DEF Init, Live
<1> QED
  BY <1>2, <1>3, <1>4, <1>5, <1>6, <1>7, <1>8, <1>9, <1>10, <1>11, FS_EmptySet
  DEF Shape, FiniteLive

\* The calls: a task inside one moves its own calls only, and is not free.
LEMMA DeathShape ==
  ASSUME Shape, NEW t \in Tasks, DeathStep(t)
  PROVE  Shape'
<1>0. ~Free(t) /\ death[t] \in Deaths
  BY DEF DeathStep, MarkUnhealthy, SnapshotDeadKeys, SweepDeadKey, SweepDone, Free, Shape,
         CallsType
<1>1. CASE MarkUnhealthy(t)
  <2>1. LinksType'
    BY <1>1 DEF MarkUnhealthy, Shape, LinksType, links
  <2>2. [death[t] EXCEPT !.at = "snapshot"] \in Deaths
    BY <1>0 DEF Deaths
  <2>3. CallsType' /\ HandOK'
    BY <1>1, <1>0, <2>2, OtherCalls DEF MarkUnhealthy, Shape, CallsType, tasks
  <2> QED
    BY <1>1, <2>1, <2>3, Unmoved DEF MarkUnhealthy, Shape, tasks, hosts, table
<1>2. CASE SnapshotDeadKeys(t)
  <2>1. [death[t] EXCEPT !.at = "sweep", !.todo = {r \in Live : dest[r] = death[t].master}]
          \in Deaths
    BY <1>0 DEF Deaths, Live
  <2>2. CallsType' /\ HandOK'
    BY <1>2, <1>0, <2>1, OtherCalls DEF SnapshotDeadKeys, Shape, CallsType, tasks
  <2> QED
    BY <1>2, <2>2, Unmoved DEF SnapshotDeadKeys, Shape, tasks, hosts, table
<1>3. CASE SweepDone(t)
  <2>2. CallsType' /\ HandOK'
    BY <1>3, <1>0, Fillers, OtherCalls DEF SweepDone, Shape, CallsType, tasks
  <2> QED
    BY <1>3, <2>2, Unmoved DEF SweepDone, Shape, tasks, hosts, table
<1>4. ASSUME NEW r \in death[t].todo, SweepDeadKey(t, r)
      PROVE  Shape'
  <2>1. r \in Requests
    BY <1>0 DEF Deaths
  <2>2. [death[t] EXCEPT !.todo = @ \ {r}] \in Deaths
    BY <1>0 DEF Deaths
  <2>3. CallsType' /\ HandOK'
    BY <1>4, <1>0, <2>2, OtherCalls DEF SweepDeadKey, Shape, CallsType, tasks
  <2>4. phase' \in [Requests -> Phases] /\ FiniteLive'
    BY <1>4, <2>1, Terminated DEF SweepDeadKey, TerminalKinds, Shape
  <2>5. TableType'
    BY <1>4, <2>4 DEF SweepDeadKey, TableType, Shape
  <2>6. channel' \in [Channelled -> Seq(Deliveries)]
    <3>1. CASE r \in Live
      BY <3>1, <1>4, DeliveredType DEF SweepDeadKey, Deliveries, Shape
    <3>2. CASE r \notin Live
      BY <3>2, <1>4 DEF SweepDeadKey, delivery, DeliveryType, Shape
    <3> QED
      BY <3>1, <3>2
  <2>7. answered' \subseteq Peers
    BY <1>4 DEF SweepDeadKey, delivery, DeliveryType, Shape
  <2>8. DeliveryType'
    BY <1>4, <2>6, <2>7 DEF SweepDeadKey, DeliveryType, Shape
  <2> QED
    BY <1>4, <2>3, <2>4, <2>5, <2>8, Unmoved DEF SweepDeadKey, Shape, tasks, hosts
<1> QED
  BY <1>1, <1>2, <1>3, <1>4 DEF DeathStep

\* A rebuild reads one slot after the other.
LEMMA RebuildMoves ==
  ASSUME NEW t \in Tasks, rebuild[t] \in Rebuilds, LinksType, ReadHealth(t) \/ ReadCaps(t)
  PROVE  \E x \in Rebuilds :
           /\ rebuild' = [rebuild EXCEPT ![t] = x]
           /\ x.left \subseteq rebuild[t].left
           /\ x.draft \subseteq rebuild[t].draft \cup offering
<1>1. CASE ReadHealth(t) /\ Slot(t) \in healthy
  <2> DEFINE x == [rebuild[t] EXCEPT !.at = "caps"]
  <2>1. x \in Rebuilds /\ x.left = rebuild[t].left /\ x.draft = rebuild[t].draft
    BY DEF Rebuilds
  <2>2. rebuild' = [rebuild EXCEPT ![t] = x]
    BY <1>1 DEF ReadHealth
  <2> QED
    BY <2>1, <2>2
<1>2. CASE ReadHealth(t) /\ Slot(t) \notin healthy
  <2> DEFINE x == [rebuild[t] EXCEPT !.left = rebuild[t].left \ {Slot(t)}]
  <2>1. x \in Rebuilds /\ x.left \subseteq rebuild[t].left /\ x.draft = rebuild[t].draft
    BY DEF Rebuilds
  <2>2. rebuild' = [rebuild EXCEPT ![t] = x]
    BY <1>2 DEF ReadHealth
  <2> QED
    BY <2>1, <2>2
<1>3. CASE ReadCaps(t)
  <2> DEFINE x == [at |-> "health", left |-> rebuild[t].left \ {Slot(t)},
                   draft |-> rebuild[t].draft \cup ({Slot(t)} \cap offering)]
  <2>1. x \in Rebuilds
    BY DEF Rebuilds, LinksType
  <2>2. rebuild' = [rebuild EXCEPT ![t] = x]
    BY <1>3 DEF ReadCaps
  <2> QED
    BY <2>1, <2>2
<1> QED
  BY <1>1, <1>2, <1>3

LEMMA RebuildShape ==
  ASSUME Shape, NEW t \in Tasks, RebuildStep(t)
  PROVE  Shape'
<1>0. ~Free(t) /\ rebuild[t] \in Rebuilds
  BY DEF RebuildStep, ReadHealth, ReadCaps, WriteCapTable, Free, Shape, CallsType
<1>1. CASE ReadHealth(t) \/ ReadCaps(t)
  <2>1. PICK x : rebuild' = [rebuild EXCEPT ![t] = x] /\ x \in Rebuilds
    BY <1>1, <1>0, RebuildMoves DEF Shape
  <2>2. CallsType' /\ HandOK'
    BY <1>1, <1>0, <2>1, OtherCalls DEF ReadHealth, ReadCaps, Shape, CallsType, tasks
  <2> QED
    BY <1>1, <2>2, Unmoved DEF ReadHealth, ReadCaps, Shape, tasks, hosts, table
<1>2. CASE WriteCapTable(t)
  <2>1. LinksType'
    BY <1>2, <1>0 DEF WriteCapTable, Shape, LinksType, links, Rebuilds
  <2>2. CallsType' /\ HandOK'
    BY <1>2, <1>0, Fillers, OtherCalls DEF WriteCapTable, Shape, CallsType, tasks
  <2> QED
    BY <1>2, <2>1, <2>2, Unmoved DEF WriteCapTable, Shape, tasks, hosts, table
<1> QED
  BY <1>1, <1>2 DEF RebuildStep

LEMMA WorkTypes ==
  /\ \A r \in Requests : Work("cancel", r) \in Works /\ Work("write", r) \in Works
                           /\ Work("answer", r) \in Works
  /\ \A s \in Seq(Requests) : CancelAll(s) \in Seq(Works) /\ Len(CancelAll(s)) = Len(s)
<1>1. \A r \in Requests : Work("cancel", r) \in Works /\ Work("write", r) \in Works
                            /\ Work("answer", r) \in Works
  BY DEF Work, Works
<1>2. ASSUME NEW s \in Seq(Requests)
      PROVE  CancelAll(s) \in Seq(Works) /\ Len(CancelAll(s)) = Len(s)
  <2>1. Len(s) \in Nat /\ \A i \in 1 .. Len(s) : s[i] \in Requests
    OBVIOUS
  <2>2. CancelAll(s) \in [1 .. Len(s) -> Works]
    BY <2>1, <1>1 DEF CancelAll
  <2> QED
    BY <2>1, <2>2
<1> QED
  BY <1>1, <1>2

LEMMA CancelShape ==
  ASSUME Shape, NEW t \in Tasks, CancelStep(t)
  PROVE  Shape'
<1> DEFINE w == Head(cancel[t])
           r == w.req
<1>0. /\ ~Free(t) /\ cancel[t] \in Seq(Works) /\ cancel[t] # <<>>
      /\ CallsType /\ HandOK
  BY DEF CancelStep, CancelTerminate, CancelWrite, CancelAnswer, InCancel, Free, Shape, CallsType
<1>01. w \in Works /\ Tail(cancel[t]) \in Seq(Works)
  BY <1>0
<1>02. r \in Requests
  BY <1>01 DEF Works
<1> HIDE DEF w
<1>1. CASE CancelTerminate(t)
  <2>1. phase' \in [Requests -> Phases] /\ FiniteLive'
    BY <1>1, <1>02, Terminated DEF CancelTerminate, TerminalKinds, Shape, w
  <2>2. TableType'
    BY <1>1, <2>1 DEF CancelTerminate, TableType, Shape
  <2>3. children[r] \in Seq(Requests)
    BY <1>02 DEF Shape, TableType, Requests
  <2>4. <<Work("write", r)>> \in Seq(Works) /\ <<Work("answer", r)>> \in Seq(Works)
          /\ CancelAll(children[r]) \in Seq(Works)
    BY <1>02, <2>3, WorkTypes
  <2>5. <<Work("write", r)>> \o CancelAll(children[r]) \o <<Work("answer", r)>> \o Tail(cancel[t])
          \in Seq(Works)
    BY <2>4, <1>01
  <2>6. cancel' \in [Tasks -> Seq(Works)] /\ \A u \in Tasks \ {t} : cancel'[u] = cancel[u]
    BY <1>1, <1>0, <2>5, <1>01 DEF CancelTerminate, CallsType, w
  <2>7. CallsType' /\ HandOK'
    BY <1>1, <1>0, <2>6, OtherCalls DEF CancelTerminate, CallsType, tasks
  <2> QED
    BY <1>1, <2>1, <2>2, <2>7, Unmoved DEF CancelTerminate, Shape, tasks, hosts
<1>2. CASE CancelWrite(t)
  <2>1. cancel' \in [Tasks -> Seq(Works)] /\ \A u \in Tasks \ {t} : cancel'[u] = cancel[u]
    BY <1>2, <1>0, <1>01 DEF CancelWrite, CallsType
  <2>2. dest[r] \in Masters
    BY <1>02 DEF Shape, TableType
  <2>3. death' \in [Tasks -> Deaths] /\ \A u \in Tasks \ {t} : death'[u] = death[u]
    <3>1. CASE dest[r] \in up
      BY <3>1, <1>2, <1>0 DEF CancelWrite, CallsType, w
    <3>2. CASE dest[r] \notin up
      BY <3>2, <1>2, <1>0, <2>2, DiesType DEF CancelWrite, w
    <3> QED
      BY <3>1, <3>2
  <2>4. CallsType' /\ HandOK'
    BY <1>2, <1>0, <2>1, <2>3, OtherCalls DEF CancelWrite, CallsType, tasks
  <2> QED
    BY <1>2, <2>4, Unmoved DEF CancelWrite, Shape, tasks, hosts, table
<1>3. CASE CancelAnswer(t)
  <2>1. cancel' \in [Tasks -> Seq(Works)] /\ \A u \in Tasks \ {t} : cancel'[u] = cancel[u]
    BY <1>3, <1>0, <1>01 DEF CancelAnswer, CallsType
  <2>2. CallsType' /\ HandOK'
    BY <1>3, <1>0, <2>1, OtherCalls DEF CancelAnswer, CallsType, tasks
  <2>3. channel' \in [Channelled -> Seq(Deliveries)]
    BY <1>3, DeliveredType DEF CancelAnswer, Deliveries, Shape
  <2>4. DeliveryType'
    BY <1>3, <2>3 DEF CancelAnswer, DeliveryType, Shape
  <2>5. TableType'
    BY <1>3 DEF CancelAnswer, TableType, Shape
  <2> QED
    BY <1>3, <2>2, <2>4, <2>5, Unmoved DEF CancelAnswer, Shape, tasks, hosts
<1> QED
  BY <1>1, <1>2, <1>3 DEF CancelStep

\* The engine.
LEMMA UserShape ==
  ASSUME Shape, StopAll \/ \E e \in Externals : Stop(e) \/ StopFeeds(e) \/ DropReceiver(e)
  PROVE  Shape'
<1>0. CallsType /\ HandOK /\ DeliveryType /\ budget \in Bounds
  BY DEF Shape
<1>1. ASSUME NEW e \in Externals, DropReceiver(e)
      PROVE  Shape'
  <2>1. DeliveryType'
    BY <1>1, <1>0 DEF DropReceiver, DeliveryType, delivery
  <2>2. budget' \in Bounds
    BY <1>1, <1>0, Spent DEF DropReceiver
  <2> QED
    BY <1>1, <2>1, <2>2, Unmoved DEF DropReceiver, Shape, tasks, hosts, table
<1>2. ASSUME NEW s \in Seq(Works), budget' \in Bounds, cancel' = [cancel EXCEPT !["user"] = s],
             UNCHANGED <<table, delivery, deaf, links, routable, hosts, tasks, death, rebuild>>
      PROVE  Shape'
  <2>1. CallsType'
    BY <1>2, <1>0 DEF CallsType
  <2>2. "user" \in Tasks /\ "user" # "pump" /\ UNCHANGED hand
    BY <1>2 DEF tasks
  <2>3. \A u \in Tasks \ {"user"} : death'[u] = death[u] /\ cancel'[u] = cancel[u]
                                        /\ rebuild'[u] = rebuild[u]
    BY <1>2, <1>0 DEF CallsType
  <2>4. HandOK'
    BY <1>0, <2>2, <2>3, OtherCalls
  <2> QED
    BY <1>2, <2>1, <2>4, Unmoved DEF Shape, tasks, hosts, table
<1>3. ASSUME NEW e \in Externals, Stop(e) \/ StopFeeds(e)
      PROVE  Shape'
  <2>1. <<Work("cancel", e)>> \in Seq(Works) /\ <<Work("write", e)>> \in Seq(Works)
    BY WorkTypes DEF Requests
  <2>2. budget' \in Bounds
    BY <1>3, <1>0, Spent DEF Stop, StopFeeds
  <2> QED
    BY <1>2, <1>3, <2>1, <2>2 DEF Stop, StopFeeds
<1>4. CASE StopAll
  <2> DEFINE X == Live \cap Channelled
  <2>1. PICK s \in [1 .. Cardinality(X) -> X] : cancel' = [cancel EXCEPT !["user"] = CancelAll(s)]
    BY <1>4 DEF StopAll
  <2>2. Cardinality(X) \in Nat
    BY FS_Subset, FS_CardinalityType DEF Shape, FiniteLive
  <2>3. s \in Seq(Requests)
    <3>1. X \subseteq Requests
      BY DEF Live
    <3> HIDE DEF X
    <3>2. s \in [1 .. Cardinality(X) -> Requests]
      BY <3>1
    <3> QED
      BY <2>2, <3>2
  <2>4. CancelAll(s) \in Seq(Works)
    BY <2>3, WorkTypes
  <2>5. budget' \in Bounds
    BY <1>4, <1>0, Spent DEF StopAll
  <2> QED
    BY <1>2, <1>4, <2>1, <2>4, <2>5 DEF StopAll
<1> QED
  BY <1>1, <1>3, <1>4

LEMMA ReceivedType ==
  ASSUME HostsType, NEW m \in Masters, NEW r \in Requests, Receive(m, r)
  PROVE  /\ jobs' \in [Masters -> SUBSET Requests]
         /\ said' \subseteq {"data", "req", "cont", "sent"} \X Requests
<1>1. <<"sent", r>> \in {"data", "req", "cont", "sent"} \X Requests
  OBVIOUS
<1> QED
  BY <1>1 DEF HostsType, Receive

\* The callers.
LEMMA CallerShape ==
  ASSUME Shape, NEW e \in Externals, CallerStep(e)
  PROVE  Shape'
<1>0. /\ TasksType /\ TableType /\ CallsType /\ HandOK /\ FiniteLive /\ LinksType /\ HostsType
      /\ e \in Requests /\ e \in Tasks /\ e # "pump" /\ dest[e] \in Masters
  BY ConstantsAssumption DEF Shape, Requests, TableType
<1>1. ASSUME NEW c \in CallerPCs, pc' = [pc EXCEPT ![e] = c],
             UNCHANGED <<hand, probing, probeQueue>>
      PROVE  TasksType'
  BY <1>1, <1>0 DEF TasksType
<1>2. ASSUME MasterDies(e, dest[e]) \/ UNCHANGED death, UNCHANGED <<hand, cancel, rebuild>>
      PROVE  CallsType' /\ HandOK'
  <2>1. death' \in [Tasks -> Deaths] /\ \A u \in Tasks \ {e} : death'[u] = death[u]
    BY <1>2, <1>0, DiesType DEF CallsType
  <2> QED
    BY <1>2, <1>0, <2>1, OtherCalls DEF CallsType
<1>3. CASE Route(e)
  <2>1. TasksType'
    BY <1>3, <1>1 DEF Route, CallerPCs
  <2>2. TableType'
    BY <1>3, <1>0 DEF Route, TableType, LinksType
  <2> QED
    BY <1>3, <2>1, <2>2, Unmoved DEF Route, Shape, hosts, calls
<1>4. CASE Admit(e)
  <2>1. TasksType' /\ TableType'
    BY <1>4, <1>0, <1>1 DEF Admit, CallerPCs, TableType
  <2> QED
    BY <1>4, <2>1, Unmoved DEF Admit, Shape, hosts, calls
<1>5. CASE AdmitRefused(e)
  <2>1. TasksType'
    BY <1>5, <1>1 DEF AdmitRefused, CallerPCs
  <2> QED
    BY <1>5, <2>1, Unmoved DEF AdmitRefused, Shape, hosts, calls, table
<1>6. CASE RegisterExternal(e)
  <2>1. TasksType'
    BY <1>6, <1>1 DEF RegisterExternal, CallerPCs
  <2>2. TableType' /\ FiniteLive'
    BY <1>6, <1>0, Registered DEF RegisterExternal, TableType
  <2> QED
    BY <1>6, <2>1, <2>2, Unmoved DEF RegisterExternal, Shape, hosts, calls
<1>7. CASE WriteReq(e)
  <2>1. TasksType'
    BY <1>7, <1>1 DEF WriteReq, CallerPCs
  <2>2. CallsType' /\ HandOK'
    BY <1>7, <1>2 DEF WriteReq
  <2>3. HostsType'
    BY <1>7, <1>0, ReceivedType DEF WriteReq, HostsType
  <2> QED
    BY <1>7, <2>1, <2>2, <2>3, Unmoved DEF WriteReq, Shape, table
<1>8. CASE GiveUp(e)
  <2>1. TasksType'
    BY <1>8, <1>1 DEF GiveUp, CallerPCs
  <2>2. phase' \in [Requests -> Phases] /\ FiniteLive'
    BY <1>8, <1>0, Terminated DEF GiveUp, TerminalKinds
  <2>3. TableType'
    BY <1>8, <1>0, <2>2 DEF GiveUp, TableType
  <2> QED
    BY <1>8, <2>1, <2>2, <2>3, Unmoved DEF GiveUp, Shape, hosts, calls
<1>9. CASE LookUpBody(e)
  <2>1. TasksType'
    BY <1>9, <1>1 DEF LookUpBody, CallerPCs
  <2> QED
    BY <1>9, <2>1, Unmoved DEF LookUpBody, Shape, hosts, calls, table
<1>10. CASE WriteBody(e)
  <2>1. TasksType'
    BY <1>10, <1>1 DEF WriteBody, CallerPCs
  <2>2. CallsType' /\ HandOK'
    BY <1>10, <1>2 DEF WriteBody
  <2> QED
    BY <1>10, <2>1, <2>2, Unmoved DEF WriteBody, Shape, table, hosts
<1> QED
  BY <1>3, <1>4, <1>5, <1>6, <1>7, <1>8, <1>9, <1>10 DEF CallerStep

\* The attachments.
LEMMA AttachShape ==
  ASSUME Shape, NEW m \in Masters, AttachBegin(m) \/ AttachCommit(m)
  PROVE  Shape'
<1>0. LinksType /\ CallsType /\ HandOK /\ HostsType /\ InboxOK /\ budget \in Bounds
  BY DEF Shape
<1>1. CASE AttachBegin(m)
  <2>1. LinksType' /\ budget' \in Bounds
    BY <1>1, <1>0, Spent DEF AttachBegin, LinksType
  <2> QED
    BY <1>1, <2>1, Unmoved DEF AttachBegin, Shape, tasks, hosts, table, calls
<1>2. CASE AttachCommit(m)
  <2>1. LinksType'
    BY <1>2, <1>0 DEF AttachCommit, LinksType
  <2>3. CallsType' /\ HandOK'
    BY <1>2, <1>0, Fillers, OtherCalls DEF AttachCommit, CallsType, tasks
  <2>4. PICK n \in 0 .. Len(inbox[m]) : inbox' = [inbox EXCEPT ![m] = SubSeq(@, 1, n)]
    BY <1>2 DEF AttachCommit
  <2>5. inbox[m] \in Seq(Frames)
    BY <1>0 DEF HostsType
  <2>6. /\ SubSeq(inbox[m], 1, n) \in Seq(Frames)
        /\ \A i \in DOMAIN SubSeq(inbox[m], 1, n) : /\ i \in DOMAIN inbox[m]
                                                    /\ SubSeq(inbox[m], 1, n)[i] = inbox[m][i]
    BY <2>5
  <2>7. HostsType' /\ InboxOK'
    BY <1>2, <1>0, <2>4, <2>6 DEF AttachCommit, HostsType, InboxOK
  <2> QED
    BY <1>2, <2>1, <2>3, <2>7, Unmoved DEF AttachCommit, Shape, tasks, table
<1> QED
  BY <1>1, <1>2

\* The hosts.
LEMMA Emitted ==
  ASSUME HostsType, InboxOK, NEW m \in Masters, NEW f \in Frames, Emit(m, f),
         f.kind = "req" => f.req \in Peers
  PROVE  inbox' \in [Masters -> Seq(Frames)] /\ InboxOK'
<1>1. inbox[m] \in Seq(Frames)
  BY DEF HostsType
<1>2. /\ Append(inbox[m], f) \in Seq(Frames)
      /\ \A i \in DOMAIN Append(inbox[m], f) :
           \/ i \in DOMAIN inbox[m] /\ Append(inbox[m], f)[i] = inbox[m][i]
           \/ Append(inbox[m], f)[i] = f
  BY <1>1
<1> QED
  BY <1>2 DEF Emit, HostsType, InboxOK

LEMMA HostShape ==
  ASSUME Shape, HostStep
  PROVE  Shape'
<1>0. HostsType /\ InboxOK /\ LinksType /\ budget \in Bounds
  BY DEF Shape
<1>01. \A k \in Kinds, r \in Requests : Frame(k, r) \in Frames /\ Frame(k, r).kind = k
                                         /\ Frame(k, r).req = r
  BY DEF Frame, Frames
<1>02. (CHOOSE r \in Requests : TRUE) \in Requests
  BY ConstantsAssumption
<1>1. ASSUME NEW m \in Masters, NEW r \in Requests, EmitData(m, r)
      PROVE  Shape'
  <2>1. Frame("data", r) \in Frames /\ Frame("data", r).kind = "data"
    BY <1>01 DEF Kinds
  <2>2. HostsType' /\ InboxOK'
    BY <1>1, <1>0, <2>1, Emitted DEF EmitData, HostsType
  <2> QED
    BY <1>1, <2>2, Unmoved DEF EmitData, Shape, tasks, table, calls
<1>2. ASSUME NEW m \in Masters, NEW r \in Requests, EmitTerminal(m, r)
      PROVE  Shape'
  <2>1. PICK k \in {"end", "err"} : Emit(m, Frame(k, r))
    BY <1>2 DEF EmitTerminal
  <2>2. Frame(k, r) \in Frames /\ Frame(k, r).kind # "req"
    BY <1>01 DEF Kinds
  <2>3. HostsType' /\ InboxOK'
    BY <1>2, <1>0, <2>1, <2>2, Emitted DEF EmitTerminal, HostsType
  <2> QED
    BY <1>2, <2>3, Unmoved DEF EmitTerminal, Shape, tasks, table, calls
<1>3. ASSUME NEW m \in Masters, NEW r \in Peers, EmitPeerReq(m, r)
      PROVE  Shape'
  <2>1. r \in Requests
    BY DEF Requests
  <2>2. Frame("req", r) \in Frames /\ Frame("req", r).req \in Peers
    BY <1>01, <2>1 DEF Kinds
  <2>3. HostsType' /\ InboxOK'
    BY <1>3, <1>0, <2>1, <2>2, Emitted DEF EmitPeerReq, HostsType
  <2> QED
    BY <1>3, <2>3, Unmoved DEF EmitPeerReq, Shape, tasks, table, calls
<1>4. ASSUME NEW m \in Masters, NEW r \in Peers, EmitContinuation(m, r)
      PROVE  Shape'
  <2>1. r \in Requests
    BY DEF Requests
  <2>2. PICK k \in {"cont", "cancel"} : Emit(m, Frame(k, r))
    BY <1>4 DEF EmitContinuation
  <2>3. Frame(k, r) \in Frames /\ Frame(k, r).kind # "req"
    BY <1>01, <2>1 DEF Kinds
  <2>4. HostsType' /\ InboxOK'
    BY <1>4, <1>0, <2>1, <2>2, <2>3, Emitted DEF EmitContinuation, HostsType
  <2> QED
    BY <1>4, <2>4, Unmoved DEF EmitContinuation, Shape, tasks, table, calls
<1>5. ASSUME NEW m \in Masters, NEW caps \in BOOLEAN, EmitNotify(m, caps)
      PROVE  Shape'
  <2> DEFINE f == [Frame("notify", CHOOSE r \in Requests : TRUE) EXCEPT !.caps = caps]
  <2>1. f \in Frames /\ f.kind # "req"
    BY <1>02 DEF Frame, Frames, Kinds
  <2>2. HostsType' /\ InboxOK'
    BY <1>5, <1>0, <2>1, Emitted DEF EmitNotify, HostsType
  <2>3. budget' \in Bounds
    BY <1>5, <1>0, Spent DEF EmitNotify
  <2> QED
    BY <1>5, <2>2, <2>3, Unmoved DEF EmitNotify, Shape, tasks, table, calls
<1>6. ASSUME NEW m \in Masters, Break(m)
      PROVE  Shape'
  <2>1. Frame("eof", CHOOSE r \in Requests : TRUE) \in Frames
          /\ Frame("eof", CHOOSE r \in Requests : TRUE).kind # "req"
    BY <1>01, <1>02 DEF Kinds
  <2>2. HostsType' /\ InboxOK'
    BY <1>6, <1>0, <2>1, Emitted DEF Break, HostsType
  <2>3. budget' \in Bounds /\ LinksType'
    BY <1>6, <1>0, Spent DEF Break, LinksType
  <2> QED
    BY <1>6, <2>2, <2>3, Unmoved DEF Break, Shape, tasks, table, calls
<1> QED
  BY <1>1, <1>2, <1>3, <1>4, <1>5, <1>6 DEF HostStep

\* The probe driver.
LEMMA ProbeShape ==
  ASSUME Shape, ProbeStep
  PROVE  Shape'
<1>0. /\ TasksType /\ TableType /\ CallsType /\ HandOK /\ FiniteLive /\ LinksType /\ HostsType
      /\ ProbeOK /\ probing \in ProbeStates /\ probing.req \in Requests
      /\ probing.master \in Masters
  BY DEF Shape, TasksType, ProbeStates
<1>1. ASSUME NEW r \in Probes, ProbeStart(r)
      PROVE  Shape'
  <2>1. r \in Requests /\ Head(probeQueue) \in Masters /\ Tail(probeQueue) \in Seq(Masters)
    BY <1>1, <1>0 DEF Requests, TasksType, ProbeStart
  <2>2. TableType' /\ FiniteLive'
    BY <1>1, <1>0, <2>1, Registered DEF ProbeStart, TableType
  <2>3. probing' \in ProbeStates
    BY <1>1, <2>1 DEF ProbeStart, ProbeStates
  <2>4. TasksType' /\ ProbeOK'
    BY <1>1, <1>0, <2>1, <2>3 DEF ProbeStart, TasksType, ProbeOK
  <2> QED
    BY <1>1, <2>2, <2>4, Unmoved DEF ProbeStart, Shape, hosts
<1>2. CASE ProbeWrite
  <2>1. probing' \in ProbeStates /\ probing'.req = probing.req
    BY <1>2, <1>0 DEF ProbeWrite, ProbeStates
  <2>2. TasksType' /\ ProbeOK'
    BY <1>2, <1>0, <2>1 DEF ProbeWrite, TasksType, ProbeOK
  <2>3. HostsType'
    BY <1>2, <1>0, ReceivedType DEF ProbeWrite, HostsType
  <2>4. death' \in [Tasks -> Deaths] /\ \A u \in Tasks \ {"probe"} : death'[u] = death[u]
    BY <1>2, <1>0, DiesType DEF ProbeWrite, CallsType
  <2>5. CallsType' /\ HandOK'
    BY <1>2, <1>0, <2>4, OtherCalls DEF ProbeWrite, CallsType
  <2> QED
    BY <1>2, <2>2, <2>3, <2>5, Unmoved DEF ProbeWrite, Shape, table
<1>3. CASE ProbeAnswered
  <2>1. probing' \in ProbeStates /\ probing'.req = probing.req
    <3>1. ASSUME NEW i \in Terminals(probing.req),
                 probing' = [probing EXCEPT !.at = "end", !.ok = channel[probing.req][i] = "end"]
          PROVE  probing' \in ProbeStates /\ probing'.req = probing.req
      <4> DEFINE b == channel[probing.req][i] = "end"
      <4>1. b \in BOOLEAN
        OBVIOUS
      <4> HIDE DEF b
      <4>2. probing' = [probing EXCEPT !.at = "end", !.ok = b]
        BY <3>1 DEF b
      <4> QED
        BY <4>1, <4>2, <1>0 DEF ProbeStates
    <3>2. ASSUME probing' = [probing EXCEPT !.at = "end"]
          PROVE  probing' \in ProbeStates /\ probing'.req = probing.req
      BY <3>2, <1>0 DEF ProbeStates
    <3> QED
      BY <1>3, <3>1, <3>2 DEF ProbeAnswered
  <2>2. TasksType' /\ ProbeOK'
    BY <1>3, <1>0, <2>1 DEF ProbeAnswered, TasksType, ProbeOK
  <2> QED
    BY <1>3, <2>2, Unmoved DEF ProbeAnswered, Shape, hosts, table
<1>4. CASE ProbeEnd
  <2>1. phase' \in [Requests -> Phases] /\ FiniteLive'
    BY <1>4, <1>0, Terminated DEF ProbeEnd, TerminalKinds
  <2>2. TableType'
    BY <1>4, <1>0, <2>1 DEF ProbeEnd, TableType
  <2>3. probing' \in ProbeStates /\ probing'.req = probing.req
    BY <1>4, <1>0 DEF ProbeEnd, ProbeStates
  <2>4. TasksType' /\ ProbeOK'
    BY <1>4, <1>0, <2>3 DEF ProbeEnd, TasksType, ProbeOK
  <2> QED
    BY <1>4, <2>1, <2>2, <2>4, Unmoved DEF ProbeEnd, Shape, hosts
<1>5. CASE ProbeMark
  <2>1. LinksType'
    BY <1>5, <1>0 DEF ProbeMark, LinksType
  <2>2. TasksType' /\ ProbeOK'
    BY <1>5, <1>0, Fillers DEF ProbeMark, TasksType, ProbeOK
  <2>4. CallsType' /\ HandOK'
    BY <1>5, <1>0, Fillers, OtherCalls DEF ProbeMark, CallsType
  <2> QED
    BY <1>5, <2>1, <2>2, <2>4, Unmoved DEF ProbeMark, Shape, hosts, table
<1> QED
  BY <1>1, <1>2, <1>3, <1>4, <1>5 DEF ProbeStep

\* The pump takes a frame.
LEMMA Taken ==
  ASSUME HostsType, InboxOK, NEW m \in Masters, inbox[m] # <<>>, Take(m)
  PROVE  /\ Head(inbox[m]) \in Frames
         /\ Head(inbox[m]).kind = "req" => Head(inbox[m]).req \in Peers
         /\ inbox' \in [Masters -> Seq(Frames)] /\ InboxOK'
<1>1. inbox[m] \in Seq(Frames) /\ Head(inbox[m]) = inbox[m][1] /\ 1 \in DOMAIN inbox[m]
  BY DEF HostsType
<1>2. /\ Head(inbox[m]) \in Frames /\ Tail(inbox[m]) \in Seq(Frames)
      /\ \A i \in DOMAIN Tail(inbox[m]) : /\ i + 1 \in DOMAIN inbox[m]
                                          /\ Tail(inbox[m])[i] = inbox[m][i + 1]
  BY <1>1
<1>3. inbox' \in [Masters -> Seq(Frames)]
  BY <1>2 DEF Take, HostsType
<1>4. InboxOK'
  BY <1>2 DEF Take, HostsType, InboxOK
<1> QED
  BY <1>1, <1>2, <1>3, <1>4 DEF InboxOK

LEMMA HoldingType ==
  ASSUME NEW f \in Frames, NEW m \in Masters,
         NEW at \in {"deliver", "forward", "register", "relay", "update"}
  PROVE  /\ Holding(at, f, m) \in Hands
         /\ Holding(at, f, m).at = at /\ Holding(at, f, m).req = f.req
         /\ Holding(at, f, m).kind = f.kind /\ f.req \in Requests
  BY DEF Holding, Hands, Frames

LEMMA TakeShape ==
  ASSUME Shape, NEW m \in Masters,
         TakeResponse(m) \/ TakeReq(m) \/ TakeContinuation(m) \/ TakeNotify(m) \/ TakeEof(m)
  PROVE  Shape'
<1> DEFINE f == Head(inbox[m])
<1>0. /\ TasksType /\ TableType /\ CallsType /\ HandOK /\ FiniteLive /\ LinksType /\ HostsType
      /\ DeliveryType /\ InboxOK /\ hand \in Hands
  BY DEF Shape, TasksType
<1>01. /\ f \in Frames /\ f.req \in Requests /\ f.kind \in Kinds
       /\ f.kind = "req" => f.req \in Peers
       /\ inbox' \in [Masters -> Seq(Frames)] /\ InboxOK'
       /\ hand.at = "idle" /\ Free("pump")
  BY <1>0, Taken DEF TakeResponse, TakeReq, TakeContinuation, TakeNotify, TakeEof, PumpFree, Frames
<1> HIDE DEF f
<1>1. ASSUME hand' \in Hands, UNCHANGED <<pc, probing, probeQueue>>
      PROVE  TasksType'
  BY <1>1, <1>0 DEF TasksType
<1>2. ASSUME UNCHANGED <<jobs, said, origin>>
      PROVE  HostsType'
  BY <1>2, <1>0, <1>01 DEF HostsType
<1>3. CASE TakeResponse(m)
  <2>1. phase' \in [Requests -> Phases] /\ permits' \subseteq Externals /\ FiniteLive'
    <3>1. CASE f.req \in Live /\ IsTerminal(f.kind)
      <4>1. f.kind \in TerminalKinds /\ Terminate(f.req, f.kind) /\ permits' = permits \ {f.req}
        BY <3>1, <1>3 DEF TakeResponse, f, TerminalKinds, IsTerminal
      <4> QED
        BY <4>1, <1>0, <1>01, Terminated DEF TableType
    <3>2. CASE ~(f.req \in Live /\ IsTerminal(f.kind))
      <4>1. UNCHANGED <<phase, permits>>
        BY <3>2, <1>3 DEF TakeResponse, f
      <4> QED
        BY <4>1, <1>0, Unmoved DEF TableType
    <3> QED
      BY <3>1, <3>2
  <2>2. TableType'
    BY <1>3, <1>0, <2>1 DEF TakeResponse, TableType
  <2>3. hand' \in Hands /\ HandOK'
    <3>1. CASE f.req \in Live /\ f.req \in Channelled
      <4>1. hand' = Holding("deliver", f, m)
        BY <3>1, <1>3 DEF TakeResponse, f
      <4>2. f.kind \in {"data", "end", "err"}
        BY <1>3 DEF TakeResponse, f
      <4> QED
        BY <4>1, <4>2, <3>1, <1>3, <1>01, HoldingType DEF TakeResponse, HandOK, Free, calls
    <3>2. CASE f.req \in Live /\ f.req \notin Channelled
      <4>1. f.req \in Peers /\ origin[f.req] \in Masters
        BY <3>2, <1>0, <1>01 DEF Requests, Channelled, HostsType
      <4>2. hand' = Holding("forward", f, origin[f.req])
        BY <3>2, <1>3 DEF TakeResponse, f
      <4> QED
        BY <4>1, <4>2, <1>3, <1>01, HoldingType DEF TakeResponse, HandOK, Free, calls
    <3>3. CASE f.req \notin Live
      <4>1. UNCHANGED <<hand, calls>>
        BY <3>3, <1>3 DEF TakeResponse, f
      <4> QED
        BY <4>1, <1>0, Unmoved
    <3> QED
      BY <3>1, <3>2, <3>3
  <2>4. TasksType' /\ HostsType'
    BY <1>3, <2>3, <1>1, <1>2 DEF TakeResponse
  <2> QED
    BY <1>3, <1>01, <2>1, <2>2, <2>3, <2>4, Unmoved DEF TakeResponse, Shape
<1>4. CASE TakeReq(m)
  <2>1. f.kind = "req"
    BY <1>4 DEF TakeReq, f
  <2>2. hand' \in Hands /\ HandOK'
    <3>1. CASE routable = {}
      <4>1. UNCHANGED <<hand, calls>>
        BY <3>1, <1>4 DEF TakeReq
      <4> QED
        BY <4>1, <1>0, Unmoved
    <3>2. CASE routable # {}
      <4>1. PICK to \in routable : hand' = Holding("register", f, to)
        BY <3>2, <1>4 DEF TakeReq, f
      <4>2. to \in Masters
        BY <1>0 DEF LinksType
      <4> QED
        BY <4>1, <4>2, <2>1, <1>4, <1>01, HoldingType DEF TakeReq, HandOK, Free, calls
    <3> QED
      BY <3>1, <3>2
  <2>3. DeliveryType'
    BY <1>4, <1>0, <1>01, <2>1 DEF TakeReq, DeliveryType, f
  <2>4. TasksType' /\ HostsType'
    BY <1>4, <2>2, <1>1, <1>2 DEF TakeReq
  <2> QED
    BY <1>4, <1>01, <2>2, <2>3, <2>4, Unmoved DEF TakeReq, Shape, table
<1>5. CASE TakeContinuation(m)
  <2>2. hand' \in Hands /\ HandOK'
    <3>1. CASE f.req \notin Live
      <4>1. UNCHANGED <<hand, calls>>
        BY <3>1, <1>5 DEF TakeContinuation, f
      <4> QED
        BY <4>1, <1>0, Unmoved
    <3>2. CASE f.req \in Live
      <4>1. hand' = Holding("relay", f, dest[f.req])
        BY <3>2, <1>5 DEF TakeContinuation, f
      <4>2. dest[f.req] \in Masters
        BY <1>0, <1>01 DEF TableType
      <4> QED
        BY <4>1, <4>2, <1>5, <1>01, HoldingType DEF TakeContinuation, HandOK, Free, calls
    <3> QED
      BY <3>1, <3>2
  <2>4. TasksType' /\ HostsType'
    BY <1>5, <2>2, <1>1, <1>2 DEF TakeContinuation
  <2> QED
    BY <1>5, <1>01, <2>2, <2>4, Unmoved DEF TakeContinuation, Shape, table
<1>6. CASE TakeNotify(m)
  <2>1. PICK news \in {"none", "caps", "first"} : hand' = [Holding("update", f, m) EXCEPT !.news = news]
    BY <1>6 DEF TakeNotify, f
  <2>2. hand' \in Hands /\ hand'.at = "update"
    <3>1. PICK h \in Hands : h = Holding("update", f, m) /\ h.at = "update"
      BY <1>01, HoldingType
    <3>2. hand' = [h EXCEPT !.news = news]
      BY <2>1, <3>1
    <3> QED
      BY <3>1, <3>2 DEF Hands
  <2>3. HandOK'
    BY <2>2 DEF HandOK, Immediate
  <2>4. TasksType' /\ HostsType'
    BY <1>6, <2>2, <1>1, <1>2 DEF TakeNotify
  <2> QED
    BY <1>6, <1>01, <2>3, <2>4, Unmoved DEF TakeNotify, Shape, table
<1>7. CASE TakeEof(m)
  <2>1. death' \in [Tasks -> Deaths] /\ \A u \in Tasks \ {"eof"} : death'[u] = death[u]
    BY <1>7, <1>0, DiesType DEF TakeEof
  <2>2. CallsType' /\ HandOK'
    BY <1>7, <1>0, <2>1, OtherCalls DEF TakeEof, CallsType, tasks
  <2>3. HostsType'
    BY <1>7, <1>2 DEF TakeEof
  <2> QED
    BY <1>7, <1>01, <2>2, <2>3, Unmoved DEF TakeEof, Shape, table, tasks
<1> QED
  BY <1>3, <1>4, <1>5, <1>6, <1>7

LEMMA PumpShape ==
  ASSUME Shape, PumpStep
  PROVE  Shape'
<1>0. /\ TasksType /\ TableType /\ CallsType /\ HandOK /\ FiniteLive /\ LinksType /\ HostsType
      /\ DeliveryType /\ hand \in Hands /\ hand.req \in Requests /\ hand.to \in Masters
  BY DEF Shape, TasksType, Hands
<1>1. ASSUME hand' \in Hands, UNCHANGED <<pc, probing, probeQueue>>
      PROVE  TasksType'
  BY <1>1, <1>0 DEF TasksType
<1>2. ASSUME hand'.at \notin {"deliver", "forward", "register", "send", "unsent", "relay"}
      PROVE  HandOK'
  BY <1>2 DEF HandOK, Immediate
<1>3. ASSUME MasterDies("pump", hand.to) \/ UNCHANGED death, UNCHANGED <<cancel, rebuild>>
      PROVE  CallsType'
  BY <1>3, <1>0, DiesType DEF CallsType
<1>4. CASE PumpDeliver
  <2>1. hand.req \in Channelled /\ hand.kind \in Deliveries
    BY <1>4, <1>0 DEF PumpDeliver, HandOK, Deliveries
  <2>2. DeliveryType'
    BY <1>4, <1>0, <2>1, DeliveredType DEF PumpDeliver, DeliveryType
  <2>3. TasksType' /\ HandOK'
    BY <1>4, <1>1, <1>2, Fillers DEF PumpDeliver
  <2>4. <<Work("cancel", hand.req)>> \in Seq(Works)
    BY <1>0, WorkTypes
  <2>5. CallsType'
    BY <1>4, <1>0, <2>4 DEF PumpDeliver, CallsType
  <2> QED
    BY <1>4, <2>2, <2>3, <2>5, Unmoved DEF PumpDeliver, Shape, table, hosts
<1>5. CASE PumpForward
  <2>1. DeliveryType'
    BY <1>5, <1>0 DEF PumpForward, DeliveryType, HandOK
  <2>2. TasksType' /\ HandOK' /\ CallsType'
    BY <1>5, <1>1, <1>2, <1>3, Fillers DEF PumpForward
  <2> QED
    BY <1>5, <2>1, <2>2, Unmoved DEF PumpForward, Shape, table, hosts
<1>6. CASE PumpRegister
  <2>1. hand.req \in Peers /\ Free("pump")
    BY <1>6, <1>0 DEF PumpRegister, HandOK, Immediate
  <2>2. ParentOf[hand.req] \in Requests
    BY <2>1, ConstantsAssumption
  <2>3. Append(children[ParentOf[hand.req]], hand.req) \in Seq(Peers)
    BY <2>1, <2>2, <1>0 DEF TableType
  <2>4. children' \in [Requests -> Seq(Peers)]
    BY <1>6, <1>0, <2>2, <2>3 DEF PumpRegister, TableType
  <2>5. TableType' /\ FiniteLive'
    BY <1>6, <1>0, <2>4, Registered DEF PumpRegister, TableType
  <2>6. hand' \in Hands /\ hand'.req = hand.req /\ hand'.at = "send"
    BY <1>6, <1>0 DEF PumpRegister, Hands
  <2>7. TasksType' /\ HandOK'
    BY <1>6, <1>1, <2>1, <2>6 DEF PumpRegister, HandOK, Free, calls
  <2> QED
    BY <1>6, <2>5, <2>7, Unmoved DEF PumpRegister, Shape, hosts
<1>7. CASE PumpSend
  <2>1. hand.req \in Peers
    BY <1>7, <1>0 DEF PumpSend, HandOK
  <2>2. /\ hand' \in Hands /\ hand'.at \notin Immediate /\ hand'.at \notin {"deliver"}
        /\ hand'.at = "idle" \/ hand'.req = hand.req
    <3>1. CASE hand.to \in up
      BY <3>1, <1>7, Fillers DEF PumpSend, Immediate
    <3>2. CASE hand.to \notin up
      BY <3>2, <1>7, <1>0 DEF PumpSend, Immediate, Hands
    <3> QED
      BY <3>1, <3>2
  <2>3. TasksType' /\ HandOK'
    BY <1>7, <1>1, <2>1, <2>2 DEF PumpSend, HandOK
  <2>4. CallsType'
    BY <1>7, <1>3 DEF PumpSend
  <2>5. HostsType'
    BY <1>7, <1>0, ReceivedType DEF PumpSend, HostsType
  <2> QED
    BY <1>7, <2>3, <2>4, <2>5, Unmoved DEF PumpSend, Shape, table
<1>8. CASE PumpUnsent
  <2>1. phase' \in [Requests -> Phases] /\ FiniteLive'
    BY <1>8, <1>0, Terminated DEF PumpUnsent, TerminalKinds
  <2>2. TableType'
    BY <1>8, <1>0, <2>1 DEF PumpUnsent, TableType
  <2>3. TasksType' /\ HandOK'
    BY <1>8, <1>1, <1>2, Fillers DEF PumpUnsent
  <2> QED
    BY <1>8, <2>1, <2>2, <2>3, Unmoved DEF PumpUnsent, Shape, hosts
<1>9. CASE PumpRelay
  <2>1. TasksType' /\ HandOK' /\ CallsType'
    BY <1>9, <1>1, <1>2, <1>3, Fillers DEF PumpRelay
  <2> QED
    BY <1>9, <2>1, Unmoved DEF PumpRelay, Shape, table, hosts
<1>10. CASE PumpQueueProbe
  <2>1. Append(probeQueue, hand.to) \in Seq(Masters)
    BY <1>0 DEF TasksType
  <2>2. TasksType' /\ HandOK'
    BY <1>10, <1>0, <1>2, <2>1, Fillers DEF PumpQueueProbe, TasksType
  <2> QED
    BY <1>10, <2>2, Unmoved DEF PumpQueueProbe, Shape, table, hosts
<1>11. CASE PumpUpdate
  <2>1. LinksType'
    BY <1>11, <1>0 DEF PumpUpdate, LinksType
  <2>2. hand' \in Hands /\ hand'.at = "updated"
    BY <1>11, <1>0 DEF PumpUpdate, Hands
  <2>3. TasksType' /\ HandOK'
    BY <1>11, <1>1, <1>2, <2>2 DEF PumpUpdate
  <2> QED
    BY <1>11, <2>1, <2>3, Unmoved DEF PumpUpdate, Shape, table, hosts
<1>12. CASE PumpHoldBack
  <2>1. LinksType'
    BY <1>12, <1>0 DEF PumpHoldBack, LinksType
  <2>2. hand' \in Hands /\ hand'.at \in {"rebuilt", "idle"}
    BY <1>12, <1>0, Fillers DEF PumpHoldBack, Hands
  <2>3. TasksType' /\ HandOK'
    BY <1>12, <1>1, <1>2, <2>2 DEF PumpHoldBack
  <2>4. CallsType'
    BY <1>12, <1>0, Fillers DEF PumpHoldBack, CallsType
  <2> QED
    BY <1>12, <2>1, <2>3, <2>4, Unmoved DEF PumpHoldBack, Shape, table, hosts
<1> QED
  BY <1>4, <1>5, <1>6, <1>7, <1>8, <1>9, <1>10, <1>11, <1>12, TakeShape DEF PumpStep

LEMMA ShapeNext == Shape /\ [Next]_vars => Shape'
<1>1. ASSUME Shape, Next PROVE Shape'
  BY <1>1, DeathShape, RebuildShape, CancelShape, UserShape, CallerShape, AttachShape,
     HostShape, ProbeShape, PumpShape DEF Next, CallStep
<1>2. ASSUME Shape, UNCHANGED vars PROVE Shape'
  <2>1. UNCHANGED <<table, delivery, deaf, links, routable, hosts, tasks, calls, budget>>
    BY <1>2 DEF vars
  <2>2. UNCHANGED <<phase, inbox, hand, probing>>
    BY <2>1 DEF table, hosts, tasks
  <2> QED
    BY <1>2, <2>1, <2>2, Unmoved DEF Shape
<1> QED
  BY <1>1, <1>2

\* The state keeps its types.
THEOREM TypeCorrect == Spec => []TypeOK
<1>1. Shape => TypeOK
  BY DEF Shape, TypeOK
<1> QED
  BY <1>1, ShapeInit, ShapeNext, PTL DEF Spec

(***************************************************************************)
(* The ledger: who still owes an answer for a request that left the table. *)
(***************************************************************************)
AnswerOwed(t, i, r) == i \in DOMAIN cancel[t] /\ cancel[t][i] = Work("answer", r)

\* An answer is owed for a cancelled request, by one task and once.
AnswersOwed == \A r \in Requests : Pending("answer", r) => phase[r] = "cancelled"
AnswersOnce ==
  \A r \in Requests : \A t, u \in Tasks : \A i, j \in Nat :
    AnswerOwed(t, i, r) /\ AnswerOwed(u, j, r) => t = u /\ i = j

TerminalInHand(r) == hand.at = "deliver" /\ hand.req = r /\ IsTerminal(hand.kind)

\* The terminal the pump holds ended its request.
HandEnded == hand.at = "deliver" /\ IsTerminal(hand.kind) => phase[hand.req] \in {"end", "err"}

\* A caller registers after it is admitted.
NotYetRegistered ==
  \A e \in Externals : pc[e] \in {"idle", "routed", "admitted"} => phase[e] = "new"

\* Nobody owes a terminal to a channel that has one.
Told ==
  \A r \in Channelled :
    Terminals(r) # {} => Ended(r) /\ ~Pending("answer", r) /\ ~TerminalInHand(r)

OnlyTerminal == \A r \in Channelled : \A i, j \in Terminals(r) : i = j

\* A linked peer call was registered.
LinkedRegistered ==
  \A p \in Requests : \A i \in DOMAIN children[p] : phase[children[p][i]] # "new"

Ledger == /\ AnswersOwed /\ AnswersOnce /\ HandEnded /\ NotYetRegistered /\ Told /\ OnlyTerminal
          /\ LinkedRegistered
          /\ ExternalsAnswered /\ PermitsFollowRequests /\ CascadeReaches

Inv == Shape /\ Ledger

\* Most steps are beside the ledger: they end nothing, owe nothing and deliver
\* nothing.
PcAside ==
  \A e \in Externals :
    /\ pc'[e] \in {"idle", "routed", "admitted"} => pc[e] \in {"idle", "routed", "admitted"}
    /\ pc'[e] = "admitted" <=> pc[e] = "admitted"
    /\ pc[e] \in {"giveUp", "failed"} => pc'[e] \in {"giveUp", "failed"}
HandAside == hand' = hand \/ (hand.at # "deliver" /\ hand'.at # "deliver")
Aside == UNCHANGED <<phase, children, permits, channel, deaf, cancel>> /\ PcAside /\ HandAside

LEMMA HandAsideKeeps ==
  ASSUME HandAside
  PROVE  /\ \A r : TerminalInHand(r)' <=> TerminalInHand(r)
         /\ hand'.at = "deliver" => hand' = hand
  BY DEF HandAside, TerminalInHand

LEMMA AsideKept == Ledger /\ Aside => Ledger'
<1> SUFFICES ASSUME Ledger, Aside PROVE Ledger'
  OBVIOUS
<1>0. /\ \A do, r : Pending(do, r)' <=> Pending(do, r)
      /\ \A t, i, r : AnswerOwed(t, i, r)' <=> AnswerOwed(t, i, r)
      /\ \A r : Terminals(r)' = Terminals(r)
      /\ \A r : Ended(r)' <=> Ended(r)
      /\ Live' = Live
  BY DEF Aside, Pending, AnswerOwed, Terminals, Ended, Live
<1>1. AnswersOwed' /\ AnswersOnce'
  BY <1>0 DEF Aside, Ledger, AnswersOwed, AnswersOnce
<1>2. HandEnded'
  BY HandAsideKeeps DEF Aside, Ledger, HandEnded
<1>3. NotYetRegistered'
  BY DEF Aside, PcAside, Ledger, NotYetRegistered
<1>4. Told' /\ OnlyTerminal'
  BY <1>0, HandAsideKeeps DEF Aside, Ledger, Told, OnlyTerminal
<1>5. LinkedRegistered'
  BY DEF Aside, Ledger, LinkedRegistered
<1>6. ExternalsAnswered'
  BY <1>0, HandAsideKeeps DEF Aside, PcAside, Ledger, ExternalsAnswered, TerminalInHand
<1>7. PermitsFollowRequests'
  BY <1>0 DEF Aside, PcAside, Ledger, PermitsFollowRequests
<1>8. CascadeReaches'
  BY <1>0 DEF Aside, Ledger, CascadeReaches
<1> QED
  BY <1>1, <1>2, <1>3, <1>4, <1>5, <1>6, <1>7, <1>8 DEF Ledger

\* The steps beside the ledger.
AsideStep ==
  \/ \E t \in Tasks : MarkUnhealthy(t) \/ SnapshotDeadKeys(t) \/ SweepDone(t) \/ RebuildStep(t)
  \/ \E e \in Externals : Route(e) \/ AdmitRefused(e) \/ WriteReq(e) \/ LookUpBody(e) \/ WriteBody(e)
  \/ PumpForward \/ PumpSend \/ PumpRelay \/ PumpUpdate \/ PumpHoldBack \/ PumpQueueProbe
  \/ \E m \in Masters : TakeReq(m) \/ TakeContinuation(m) \/ TakeNotify(m) \/ TakeEof(m)
  \/ ProbeWrite \/ ProbeAnswered \/ ProbeMark
  \/ \E m \in Masters : AttachBegin(m) \/ AttachCommit(m)
  \/ HostStep

LEMMA AsideSteps == TypeOK /\ AsideStep => Aside
<1> SUFFICES ASSUME TypeOK, AsideStep PROVE Aside
  OBVIOUS
<1>0. TasksType
  BY DEF TypeOK
<1>1. ASSUME NEW t \in Tasks, MarkUnhealthy(t) \/ SnapshotDeadKeys(t) \/ SweepDone(t) \/ RebuildStep(t)
      PROVE  Aside
  BY <1>1 DEF MarkUnhealthy, SnapshotDeadKeys, SweepDone, RebuildStep, ReadHealth, ReadCaps,
     WriteCapTable, table, delivery, tasks, Aside, PcAside, HandAside
<1>2. ASSUME NEW e \in Externals, Route(e) \/ AdmitRefused(e) \/ WriteReq(e) \/ LookUpBody(e) \/ WriteBody(e)
      PROVE  Aside
  <2>1. PcAside
    BY <1>2, <1>0 DEF Route, AdmitRefused, WriteReq, LookUpBody, WriteBody, PcAside, TasksType
  <2> QED
    BY <1>2, <2>1 DEF Route, AdmitRefused, WriteReq, LookUpBody, WriteBody, table, delivery, calls,
       Aside, HandAside
<1>3. CASE PumpForward \/ PumpSend \/ PumpRelay \/ PumpUpdate \/ PumpHoldBack \/ PumpQueueProbe
  BY <1>3, <1>0, Fillers DEF PumpForward, PumpSend, PumpRelay, PumpUpdate, PumpHoldBack,
     PumpQueueProbe, table, delivery, calls,
     Aside, PcAside, HandAside, TasksType, Hands
<1>4. ASSUME NEW m \in Masters, TakeReq(m) \/ TakeContinuation(m) \/ TakeNotify(m) \/ TakeEof(m)
      PROVE  Aside
  BY <1>4 DEF TakeReq, TakeContinuation, TakeNotify, TakeEof, Holding, PumpFree, table, delivery, calls,
     tasks, Aside, PcAside, HandAside
<1>5. CASE ProbeWrite \/ ProbeAnswered \/ ProbeMark
  BY <1>5 DEF ProbeWrite, ProbeAnswered, ProbeMark, table, delivery, calls, Aside, PcAside, HandAside
<1>6. ASSUME NEW m \in Masters, AttachBegin(m) \/ AttachCommit(m)
      PROVE  Aside
  BY <1>6 DEF AttachBegin, AttachCommit, table, delivery, calls, tasks, Aside, PcAside, HandAside
<1>7. CASE HostStep
  BY <1>7 DEF HostStep, EmitData, EmitTerminal, EmitPeerReq, EmitContinuation, EmitNotify, Break,
     table, delivery, calls, tasks, Aside, PcAside, HandAside
<1> QED
  BY <1>1, <1>2, <1>3, <1>4, <1>5, <1>6, <1>7 DEF AsideStep

\* What happens to the work owed when a cancellation starts, when it has done
\* the first thing on its list, and when it finds its request live.
LEMMA Started ==
  ASSUME CallsType, NEW t \in Tasks, cancel[t] = <<>>, NEW s \in Seq(Works),
         \A i \in DOMAIN s : s[i].do # "answer", cancel' = [cancel EXCEPT ![t] = s]
  PROVE  /\ \A r : Pending("answer", r)' <=> Pending("answer", r)
         /\ \A r : Pending("cancel", r) => Pending("cancel", r)'
         /\ AnswersOnce => AnswersOnce'
<1>1. \A u \in Tasks : cancel'[u] = IF u = t THEN s ELSE cancel[u]
  BY DEF CallsType
<1>2. \A r : Work("answer", r).do = "answer"
  BY DEF Work
<1>3. \A u \in Tasks : \A i, r : AnswerOwed(u, i, r)' <=> AnswerOwed(u, i, r)
  BY <1>1, <1>2 DEF AnswerOwed
<1>4. \A r : Pending("answer", r)' <=> Pending("answer", r)
  BY <1>3 DEF Pending, AnswerOwed
<1>5. \A r : Pending("cancel", r) => Pending("cancel", r)'
  BY <1>1 DEF Pending
<1> QED
  BY <1>3, <1>4, <1>5 DEF AnswersOnce

LEMMA Shortened ==
  ASSUME CallsType, NEW t \in Tasks, cancel[t] # <<>>, cancel' = [cancel EXCEPT ![t] = Tail(@)]
  PROVE  /\ \A do, r : Pending(do, r)' => Pending(do, r)
         /\ \A do, r : Pending(do, r) /\ Work(do, r) # Head(cancel[t]) => Pending(do, r)'
         /\ AnswersOnce => AnswersOnce'
         /\ \A r \in Requests : AnswersOnce /\ Head(cancel[t]) = Work("answer", r)
                                  => ~Pending("answer", r)'
<1> DEFINE shift(u) == IF u = t THEN 1 ELSE 0
<1>1. cancel[t] \in Seq(Works)
  BY DEF CallsType
<1>2. /\ cancel[t][1] = Head(cancel[t]) /\ 1 \in DOMAIN cancel[t]
      /\ \A i \in DOMAIN Tail(cancel[t]) : /\ i \in Nat /\ i > 0 /\ i + 1 \in DOMAIN cancel[t]
                                           /\ Tail(cancel[t])[i] = cancel[t][i + 1]
      /\ \A i \in DOMAIN cancel[t] : i # 1 => /\ i - 1 \in DOMAIN Tail(cancel[t])
                                              /\ Tail(cancel[t])[i - 1] = cancel[t][i]
  BY <1>1
<1>3. \A u \in Tasks : cancel'[u] = IF u = t THEN Tail(cancel[t]) ELSE cancel[u]
  BY DEF CallsType
<1>4. \A u \in Tasks : \A i \in DOMAIN cancel'[u] :
        i \in Nat /\ i + shift(u) \in DOMAIN cancel[u] /\ cancel'[u][i] = cancel[u][i + shift(u)]
  <2>1. ASSUME NEW u \in Tasks, u # t, NEW i \in DOMAIN cancel'[u]
        PROVE  i \in Nat /\ i + 0 = i
    BY <2>1, <1>3 DEF CallsType
  <2>2. ASSUME NEW i \in DOMAIN cancel'[t]
        PROVE  i \in Nat /\ i + 1 \in DOMAIN cancel[t] /\ cancel'[t][i] = cancel[t][i + 1]
    BY <1>2, <1>3
  <2>3. ASSUME NEW u \in Tasks, u # t, NEW i \in DOMAIN cancel'[u]
        PROVE  i + 0 \in DOMAIN cancel[u] /\ cancel'[u][i] = cancel[u][i + 0]
    BY <2>1, <2>3, <1>3
  <2> QED
    BY <2>1, <2>2, <2>3
<1>5. ASSUME NEW do, NEW r, Pending(do, r)' PROVE Pending(do, r)
  BY <1>4, <1>5 DEF Pending
<1>6. ASSUME NEW do, NEW r, Pending(do, r), Work(do, r) # Head(cancel[t]) PROVE Pending(do, r)'
  <2>1. PICK u \in Tasks : \E i \in DOMAIN cancel[u] : cancel[u][i] = Work(do, r)
    BY <1>6 DEF Pending
  <2>2. PICK i \in DOMAIN cancel[u] : cancel[u][i] = Work(do, r)
    BY <2>1
  <2>3. CASE u = t
    <3>1. i # 1 /\ i \in DOMAIN cancel[t]
      BY <2>2, <2>3, <1>2, <1>6
    <3>2. i - 1 \in DOMAIN cancel'[t] /\ cancel'[t][i - 1] = Work(do, r)
      BY <3>1, <2>2, <2>3, <1>2, <1>3
    <3> QED
      BY <3>2 DEF Pending
  <2>4. CASE u # t
    BY <2>2, <2>4, <1>3 DEF Pending
  <2> QED
    BY <2>3, <2>4
<1>7. \A u \in Tasks : \A i \in Nat : \A r :
        AnswerOwed(u, i, r)' => AnswerOwed(u, i + shift(u), r) /\ i + shift(u) \in Nat
  BY <1>4 DEF AnswerOwed
<1>8. AnswersOnce => AnswersOnce'
  <2> SUFFICES ASSUME AnswersOnce, NEW r \in Requests, NEW u \in Tasks, NEW v \in Tasks,
                      NEW i \in Nat, NEW j \in Nat, AnswerOwed(u, i, r)', AnswerOwed(v, j, r)'
               PROVE  u = v /\ i = j
    BY DEF AnswersOnce
  <2>0. /\ i + shift(u) \in Nat /\ AnswerOwed(u, i + shift(u), r)
        /\ j + shift(v) \in Nat /\ AnswerOwed(v, j + shift(v), r)
    BY <1>7
  <2> HIDE DEF shift
  <2>1. u = v /\ i + shift(u) = j + shift(v)
    BY <2>0 DEF AnswersOnce
  <2> USE DEF shift
  <2> QED
    BY <2>1
<1>9. ASSUME NEW r \in Requests, AnswersOnce, Head(cancel[t]) = Work("answer", r),
             Pending("answer", r)'
      PROVE  FALSE
  <2>1. PICK u \in Tasks : \E i \in DOMAIN cancel'[u] : cancel'[u][i] = Work("answer", r)
    BY <1>9 DEF Pending
  <2>2. PICK i \in DOMAIN cancel'[u] : cancel'[u][i] = Work("answer", r)
    BY <2>1
  <2>3. AnswerOwed(u, i, r)' /\ i \in Nat
    BY <2>2, <1>4 DEF AnswerOwed
  <2>4. AnswerOwed(u, i + shift(u), r) /\ AnswerOwed(t, 1, r) /\ i + shift(u) \in Nat
    BY <2>3, <1>7, <1>2, <1>9 DEF AnswerOwed
  <2>5. u = t /\ i + shift(u) = 1
    BY <2>4, <1>9 DEF AnswersOnce
  <2> QED
    BY <2>2, <2>5, <1>2, <1>3
<1> QED
  BY <1>5, <1>6, <1>8, <1>9

LEMMA Concat ==
  ASSUME NEW a \in Seq(Works), NEW b \in Seq(Works)
  PROVE  /\ a \o b \in Seq(Works) /\ Len(a \o b) = Len(a) + Len(b)
         /\ \A i \in 1 .. Len(a) : (a \o b)[i] = a[i]
         /\ \A i \in 1 .. Len(b) : (a \o b)[Len(a) + i] = b[i]
  OBVIOUS

\* What a cancellation that found its request live puts in front of the rest.
LEMMA ExpandedList ==
  ASSUME NEW p \in Requests, NEW s \in Seq(Requests), NEW c \in Seq(Works), c # <<>>
  PROVE  LET q == <<Work("write", p)>> \o CancelAll(s) \o <<Work("answer", p)>> \o Tail(c)
             n == Len(s)
         IN  /\ n \in Nat /\ DOMAIN q = 1 .. n + 1 + Len(c)
             /\ q[1] = Work("write", p) /\ q[n + 2] = Work("answer", p)
             /\ \A i \in 1 .. n : q[i + 1] = Work("cancel", s[i])
             /\ \A i \in 2 .. Len(c) : q[n + 1 + i] = c[i]
<1> DEFINE n == Len(s)
           a == <<Work("write", p)>>
           b == CancelAll(s)
           d == <<Work("answer", p)>>
           e == Tail(c)
           q == a \o b \o d \o e
<1>1. /\ n \in Nat /\ b \in Seq(Works) /\ Len(b) = n /\ \A i \in 1 .. n : b[i] = Work("cancel", s[i])
  BY WorkTypes DEF CancelAll
<1>2. /\ a \in Seq(Works) /\ d \in Seq(Works) /\ e \in Seq(Works) /\ Len(a) = 1 /\ Len(d) = 1
      /\ Len(e) = Len(c) - 1 /\ Len(c) \in Nat \ {0} /\ \A i \in 2 .. Len(c) : e[i - 1] = c[i]
      /\ a[1] = Work("write", p) /\ d[1] = Work("answer", p)
  BY WorkTypes
<1> HIDE DEF a, b, d, e
<1>3. /\ a \o b \in Seq(Works) /\ Len(a \o b) = n + 1 /\ (a \o b)[1] = a[1]
      /\ \A i \in 1 .. n : (a \o b)[1 + i] = b[i]
  <2>1. /\ a \o b \in Seq(Works) /\ Len(a \o b) = Len(a) + Len(b)
        /\ \A i \in 1 .. Len(a) : (a \o b)[i] = a[i]
        /\ \A i \in 1 .. Len(b) : (a \o b)[Len(a) + i] = b[i]
    BY <1>1, <1>2, Concat
  <2> QED
    BY <2>1, <1>1, <1>2
<1> DEFINE x == a \o b
           y == x \o d
<1> HIDE DEF x
<1>4. /\ y \in Seq(Works) /\ Len(y) = n + 2 /\ y[n + 2] = d[1]
      /\ \A i \in 1 .. n + 1 : y[i] = x[i]
  <2>1. x \in Seq(Works) /\ Len(x) = n + 1
    BY <1>3 DEF x
  <2>2. /\ y \in Seq(Works) /\ Len(y) = n + 1 + 1 /\ y[n + 1 + 1] = d[1]
        /\ \A i \in 1 .. n + 1 : y[i] = x[i]
    <3>1. /\ x \o d \in Seq(Works) /\ Len(x \o d) = Len(x) + Len(d)
          /\ \A i \in 1 .. Len(x) : (x \o d)[i] = x[i]
          /\ \A i \in 1 .. Len(d) : (x \o d)[Len(x) + i] = d[i]
      BY <2>1, <1>2, Concat
    <3> QED
      BY <3>1, <2>1, <1>2, <1>1
  <2> QED
    BY <2>2, <1>1
<1> HIDE DEF y
<1>5. /\ q \in Seq(Works) /\ Len(q) = n + 1 + Len(c)
      /\ \A i \in 1 .. n + 2 : q[i] = y[i]
      /\ \A i \in 1 .. Len(c) - 1 : q[n + 2 + i] = e[i]
  <2>1. q = y \o e
    BY DEF y, x
  <2>2. /\ y \o e \in Seq(Works) /\ Len(y \o e) = n + 2 + (Len(c) - 1)
        /\ \A i \in 1 .. n + 2 : (y \o e)[i] = y[i]
        /\ \A i \in 1 .. Len(c) - 1 : (y \o e)[n + 2 + i] = e[i]
    <3>1. /\ y \o e \in Seq(Works) /\ Len(y \o e) = Len(y) + Len(e)
          /\ \A i \in 1 .. Len(y) : (y \o e)[i] = y[i]
          /\ \A i \in 1 .. Len(e) : (y \o e)[Len(y) + i] = e[i]
      BY <1>2, <1>4, Concat
    <3> QED
      BY <3>1, <1>2, <1>4
  <2>3. n + 2 + (Len(c) - 1) = n + 1 + Len(c)
    BY <1>1, <1>2
  <2> HIDE DEF q
  <2> QED
    BY <2>1, <2>2, <2>3
<1> HIDE DEF q
<1>6. q[1] = Work("write", p) /\ q[n + 2] = Work("answer", p)
  BY <1>1, <1>2, <1>3, <1>4, <1>5 DEF x
<1>7. \A i \in 1 .. n : q[i + 1] = Work("cancel", s[i])
  <2> SUFFICES ASSUME NEW i \in 1 .. n PROVE q[i + 1] = Work("cancel", s[i])
    OBVIOUS
  <2>1. i + 1 \in 1 .. n + 1 /\ i + 1 \in 1 .. n + 2 /\ 1 + i = i + 1
    BY <1>1
  <2> QED
    <3>1. q[i + 1] = y[i + 1] /\ y[i + 1] = x[i + 1]
      BY <2>1, <1>4, <1>5
    <3>2. x[i + 1] = b[i]
      BY <2>1, <1>3 DEF x
    <3> QED
      BY <3>1, <3>2, <1>1
<1>8. \A i \in 2 .. Len(c) : q[n + 1 + i] = c[i]
  <2> SUFFICES ASSUME NEW i \in 2 .. Len(c) PROVE q[n + 1 + i] = c[i]
    OBVIOUS
  <2>1. i - 1 \in 1 .. Len(c) - 1 /\ n + 2 + (i - 1) = n + 1 + i
    BY <1>1, <1>2
  <2>2. q[n + 2 + (i - 1)] = e[i - 1]
    BY <2>1, <1>5
  <2> QED
    BY <2>1, <2>2, <1>2
<1>9. DOMAIN q = 1 .. n + 1 + Len(c)
  BY <1>5
<1> QED
  BY <1>1, <1>6, <1>7, <1>8, <1>9 DEF q, y, x, a, b, d, e

LEMMA Expanded ==
  ASSUME CallsType, NEW t \in Tasks, cancel[t] # <<>>, NEW p \in Requests, NEW s \in Seq(Requests),
         Head(cancel[t]) = Work("cancel", p),
         cancel' = [cancel EXCEPT ![t] = <<Work("write", p)>> \o CancelAll(s)
                                           \o <<Work("answer", p)>> \o Tail(@)]
  PROVE  /\ \A r : Pending("answer", r)' <=> Pending("answer", r) \/ r = p
         /\ \A r : Pending("cancel", r) /\ r # p => Pending("cancel", r)'
         /\ \A i \in DOMAIN s : Pending("cancel", s[i])'
         /\ AnswersOnce /\ ~Pending("answer", p) => AnswersOnce'
<1> DEFINE c == cancel[t]
           n == Len(s)
           q == <<Work("write", p)>> \o CancelAll(s) \o <<Work("answer", p)>> \o Tail(c)
<1>0. c \in Seq(Works)
  BY DEF CallsType
<1>1. /\ n \in Nat /\ DOMAIN q = 1 .. n + 1 + Len(c)
      /\ q[1] = Work("write", p) /\ q[n + 2] = Work("answer", p)
      /\ \A i \in 1 .. n : q[i + 1] = Work("cancel", s[i])
      /\ \A i \in 2 .. Len(c) : q[n + 1 + i] = c[i]
  BY <1>0, ExpandedList
<1>2. /\ Len(c) \in Nat \ {0} /\ DOMAIN c = 1 .. Len(c) /\ c[1] = Work("cancel", p)
      /\ DOMAIN s = 1 .. n
  BY <1>0
<1>3. \A u \in Tasks : cancel'[u] = IF u = t THEN q ELSE cancel[u]
  BY DEF CallsType
<1> HIDE DEF q, n, c
<1>4. \A r, x : /\ Work("answer", r) # Work("write", x) /\ Work("answer", r) # Work("cancel", x)
                /\ Work("answer", r) = Work("answer", x) => r = x
                /\ Work("cancel", r) = Work("cancel", x) => r = x
  BY DEF Work
<1>5. \A i \in DOMAIN q : \/ i = 1 \/ i = n + 2 \/ i - 1 \in 1 .. n
                          \/ i - n - 1 \in 2 .. Len(c) /\ n + 1 + (i - n - 1) = i
  BY <1>1, <1>2
<1>6. \A i \in DOMAIN q : \A r : q[i] = Work("answer", r) =>
        \/ i = n + 2 /\ r = p
        \/ i - n - 1 \in DOMAIN c /\ c[i - n - 1] = Work("answer", r)
  <2> SUFFICES ASSUME NEW i \in DOMAIN q, NEW r, q[i] = Work("answer", r)
               PROVE  \/ i = n + 2 /\ r = p
                      \/ i - n - 1 \in DOMAIN c /\ c[i - n - 1] = Work("answer", r)
    OBVIOUS
  <2>1. CASE i = 1
    BY <2>1, <1>1, <1>4
  <2>2. CASE i = n + 2
    BY <2>2, <1>1, <1>4
  <2>3. CASE i - 1 \in 1 .. n
    <3>1. q[(i - 1) + 1] = Work("cancel", s[i - 1]) /\ (i - 1) + 1 = i
      BY <2>3, <1>1
    <3> QED
      BY <3>1, <1>4
  <2>4. CASE i - n - 1 \in 2 .. Len(c) /\ n + 1 + (i - n - 1) = i
    <3>1. q[n + 1 + (i - n - 1)] = c[i - n - 1]
      BY <2>4, <1>1
    <3> QED
      BY <3>1, <2>4, <1>2
  <2> QED
    BY <2>1, <2>2, <2>3, <2>4, <1>5
<1>7. \A i \in DOMAIN c : i # 1 => n + 1 + i \in DOMAIN q /\ q[n + 1 + i] = c[i]
  BY <1>1, <1>2
<1>8. ASSUME NEW r, Pending("answer", r)' PROVE Pending("answer", r) \/ r = p
  <2>1. PICK u \in Tasks : \E i \in DOMAIN cancel'[u] : cancel'[u][i] = Work("answer", r)
    BY <1>8 DEF Pending
  <2>2. CASE u = t
    <3>1. PICK i \in DOMAIN q : q[i] = Work("answer", r)
      BY <2>1, <2>2, <1>3
    <3>2. r = p \/ \E k \in DOMAIN c : c[k] = Work("answer", r)
      BY <3>1, <1>6
    <3> QED
      BY <3>2 DEF Pending, c
  <2>3. CASE u # t
    BY <2>1, <2>3, <1>3 DEF Pending
  <2> QED
    BY <2>2, <2>3
<1>9. ASSUME NEW do, NEW r, Pending(do, r), Work(do, r) # Work("cancel", p) PROVE Pending(do, r)'
  <2>1. PICK u \in Tasks : \E i \in DOMAIN cancel[u] : cancel[u][i] = Work(do, r)
    BY <1>9 DEF Pending
  <2>2. PICK i \in DOMAIN cancel[u] : cancel[u][i] = Work(do, r)
    BY <2>1
  <2>3. CASE u = t
    <3>1. i # 1 /\ i \in DOMAIN c /\ c[i] = Work(do, r)
      BY <2>2, <2>3, <1>2, <1>9 DEF c
    <3>2. n + 1 + i \in DOMAIN q /\ q[n + 1 + i] = Work(do, r)
      BY <3>1, <1>7
    <3>3. \E k \in DOMAIN cancel'[t] : cancel'[t][k] = Work(do, r)
      BY <3>2, <1>3
    <3> QED
      BY <3>3 DEF Pending
  <2>4. CASE u # t
    BY <2>2, <2>4, <1>3 DEF Pending
  <2> QED
    BY <2>3, <2>4
<1>10. Pending("answer", p)'
  <2>1. n + 2 \in DOMAIN q
    BY <1>1, <1>2
  <2>2. \E k \in DOMAIN cancel'[t] : cancel'[t][k] = Work("answer", p)
    BY <2>1, <1>1, <1>3
  <2> QED
    BY <2>2 DEF Pending
<1>11. \A i \in DOMAIN s : Pending("cancel", s[i])'
  <2> SUFFICES ASSUME NEW i \in DOMAIN s PROVE Pending("cancel", s[i])'
    OBVIOUS
  <2>1. i + 1 \in DOMAIN q /\ q[i + 1] = Work("cancel", s[i])
    BY <1>1, <1>2
  <2>2. \E k \in DOMAIN cancel'[t] : cancel'[t][k] = Work("cancel", s[i])
    BY <2>1, <1>3
  <2> QED
    BY <2>2 DEF Pending
<1>12. ASSUME AnswersOnce, ~Pending("answer", p) PROVE AnswersOnce'
  <2> SUFFICES ASSUME NEW r \in Requests, NEW u \in Tasks, NEW v \in Tasks, NEW i \in Nat,
                      NEW j \in Nat, AnswerOwed(u, i, r)', AnswerOwed(v, j, r)'
               PROVE  u = v /\ i = j
    BY DEF AnswersOnce
  <2> DEFINE back(x, k) == IF x = t THEN k - n - 1 ELSE k
  <2>1. ASSUME NEW x \in Tasks, NEW k \in Nat, AnswerOwed(x, k, r)'
        PROVE  \/ x = t /\ k = n + 2 /\ r = p
               \/ back(x, k) \in Nat /\ AnswerOwed(x, back(x, k), r)
    <3>1. CASE x = t
      <4>1. k \in DOMAIN q /\ q[k] = Work("answer", r)
        BY <2>1, <3>1, <1>3 DEF AnswerOwed
      <4> QED
        BY <4>1, <3>1, <1>6, <1>2 DEF AnswerOwed, c
    <3>2. CASE x # t
      BY <2>1, <3>2, <1>3 DEF AnswerOwed
    <3> QED
      BY <3>1, <3>2
  <2>2. \A x \in Tasks : \A k : ~AnswerOwed(x, k, p)
    BY <1>12 DEF AnswerOwed, Pending
  <2>3. CASE r = p
    BY <2>1, <2>2, <2>3
  <2>4. CASE r # p
    <3>1. /\ back(u, i) \in Nat /\ AnswerOwed(u, back(u, i), r)
          /\ back(v, j) \in Nat /\ AnswerOwed(v, back(v, j), r)
      BY <2>1, <2>4
    <3> HIDE DEF back
    <3>2. u = v /\ back(u, i) = back(v, j)
      BY <3>1, <1>12 DEF AnswersOnce
    <3> USE DEF back
    <3> QED
      BY <3>2, <1>1
  <2> QED
    BY <2>3, <2>4
<1>13. \A r : Work("answer", r) # Work("cancel", p)
  BY <1>4
<1>14. \A r : r # p => Work("cancel", r) # Work("cancel", p)
  BY <1>4
<1> QED
  BY <1>8, <1>9, <1>10, <1>11, <1>12, <1>13, <1>14

\* What a delivery does to the terminals of a channel.
LEMMA Delivered ==
  ASSUME DeliveryType, NEW r, NEW what \in Deliveries, Deliver(r, what)
  PROVE  /\ \A x \in Channelled \ {r} : Terminals(x)' = Terminals(x)
         /\ r \in Channelled =>
              /\ what = "data" \/ r \in deaf => Terminals(r)' = Terminals(r)
              /\ what # "data" /\ r \notin deaf => Terminals(r)' # {}
              /\ Terminals(r) = {} => \A i, j \in Terminals(r)' : i = j
<1>1. \A x \in Channelled \ {r} : channel'[x] = channel[x]
  BY DEF Deliver, DeliveryType
<1>2. ASSUME r \in Channelled \ deaf
      PROVE  /\ what = "data" => Terminals(r)' = Terminals(r)
             /\ what # "data" => Terminals(r)' # {}
             /\ Terminals(r) = {} => \A i, j \in Terminals(r)' : i = j
  <2> DEFINE c == channel[r]
             d == Append(c, what)
  <2>1. channel'[r] = d
    BY <1>2 DEF Deliver, DeliveryType
  <2>2. /\ DOMAIN d = DOMAIN c \cup {Len(c) + 1} /\ Len(c) + 1 \notin DOMAIN c
        /\ d[Len(c) + 1] = what /\ \A i \in DOMAIN c : d[i] = c[i]
    BY <1>2 DEF DeliveryType
  <2> HIDE DEF d
  <2>3. Terminals(r)' = IF what = "data" THEN Terminals(r) ELSE Terminals(r) \cup {Len(c) + 1}
    BY <2>1, <2>2 DEF Terminals
  <2> QED
    BY <2>3
<1>3. ASSUME r \in Channelled, r \in deaf
      PROVE  Terminals(r)' = Terminals(r)
  BY <1>3 DEF Deliver, Terminals
<1> QED
  BY <1>1, <1>2, <1>3 DEF Terminals

\* A live request ends: it leaves its permit, and its terminal, if anybody
\* waits for one, is delivered, in the pump's hand, or the caller's own affair.
LEMMA EndKeeps ==
  ASSUME Shape, Ledger, NEW r \in Live, NEW kind \in {"end", "err", "master_died"},
         phase' = [phase EXCEPT ![r] = kind], permits' = permits \ {r},
         UNCHANGED <<children, deaf, cancel>>, PcAside,
         hand'.req \in Requests,
         \A x \in Channelled \ {r} : Terminals(x)' = Terminals(x),
         \A x \in Requests \ {r} : TerminalInHand(x)' <=> TerminalInHand(x),
         TerminalInHand(r)' => kind \in {"end", "err"},
         r \in Channelled => /\ \A i, j \in Terminals(r)' : i = j
                             /\ Terminals(r)' # {} => ~TerminalInHand(r)',
         r \in Externals \ deaf => \/ Terminals(r)' # {} \/ TerminalInHand(r)'
                                   \/ pc'[r] \in {"giveUp", "failed"}
  PROVE  Ledger'
<1>0. /\ r \in Requests /\ phase \in [Requests -> Phases] /\ phase[r] = "live"
      /\ children \in [Requests -> Seq(Peers)] /\ ParentOf \in [Peers -> Requests]
      /\ hand.req \in Requests
  BY ConstantsAssumption DEF Live, Shape, TableType, TasksType, Hands
<1>1. /\ \A x \in Requests : phase'[x] = IF x = r THEN kind ELSE phase[x]
      /\ Live' = Live \ {r}
  BY <1>0 DEF Live
<1>2. /\ \A do, x : Pending(do, x)' <=> Pending(do, x)
      /\ \A t, i, x : AnswerOwed(t, i, x)' <=> AnswerOwed(t, i, x)
      /\ ~Pending("answer", r)
  BY <1>0 DEF Pending, AnswerOwed, Ledger, AnswersOwed
<1>3. AnswersOwed' /\ AnswersOnce'
  BY <1>1, <1>2 DEF Ledger, AnswersOwed, AnswersOnce
<1>4. HandEnded'
  <2>1. HandEnded' <=> \A x \in Requests : TerminalInHand(x)' => phase'[x] \in {"end", "err"}
    BY DEF HandEnded, TerminalInHand
  <2>2. HandEnded <=> \A x \in Requests : TerminalInHand(x) => phase[x] \in {"end", "err"}
    BY <1>0 DEF HandEnded, TerminalInHand
  <2> QED
    BY <2>1, <2>2, <1>1 DEF Ledger
<1>5. NotYetRegistered'
  BY <1>0, <1>1 DEF Ledger, NotYetRegistered, PcAside, Requests
<1>6. Told'
  <2> SUFFICES ASSUME NEW x \in Channelled, Terminals(x)' # {}
               PROVE  Ended(x)' /\ ~Pending("answer", x)' /\ ~TerminalInHand(x)'
    BY DEF Told
  <2>0. x \in Requests
    BY DEF Channelled, Requests
  <2>1. CASE x = r
    BY <2>1, <1>1, <1>2, <2>0 DEF Ended, TerminalKinds
  <2>2. CASE x # r
    BY <2>0, <2>2, <1>1, <1>2 DEF Ledger, Told, Ended
  <2> QED
    BY <2>1, <2>2
<1>7. OnlyTerminal'
  BY DEF Ledger, OnlyTerminal
<1>8. LinkedRegistered'
  <2> SUFFICES ASSUME NEW p \in Requests, NEW i \in DOMAIN children[p]
               PROVE  phase'[children[p][i]] # "new"
    BY DEF LinkedRegistered
  <2>1. children[p][i] \in Requests /\ phase[children[p][i]] # "new"
    BY <1>0 DEF Ledger, LinkedRegistered, Requests
  <2> QED
    BY <2>1, <1>1
<1>9. ExternalsAnswered'
  <2> SUFFICES ASSUME NEW e \in Externals \ deaf, Ended(e)'
               PROVE  \/ Terminals(e)' # {} \/ pc'[e] \in {"giveUp", "failed"}
                      \/ TerminalInHand(e)' \/ Pending("answer", e)'
    BY DEF ExternalsAnswered, TerminalInHand
  <2>0. e \in Requests /\ e \in Channelled
    BY DEF Requests, Channelled
  <2>1. CASE e = r
    BY <2>1
  <2>2. CASE e # r
    <3>1. Ended(e)
      BY <2>0, <2>2, <1>1 DEF Ended
    <3>2. \/ Terminals(e) # {} \/ pc[e] \in {"giveUp", "failed"}
          \/ TerminalInHand(e) \/ Pending("answer", e)
      BY <3>1 DEF Ledger, ExternalsAnswered, TerminalInHand
    <3> QED
      BY <3>2, <2>0, <2>2, <1>2 DEF PcAside
  <2> QED
    BY <2>1, <2>2
<1>10. PermitsFollowRequests'
  <2>1. permits = {e \in Externals : pc[e] = "admitted" \/ e \in Live \/ Pending("answer", e)}
    BY DEF Ledger, PermitsFollowRequests
  <2>2. r \in Externals => pc[r] # "admitted"
    BY <1>0 DEF Ledger, NotYetRegistered
  <2> QED
    BY <2>1, <2>2, <1>1, <1>2 DEF PermitsFollowRequests, PcAside
<1>11. CascadeReaches'
  <2> SUFFICES ASSUME NEW x \in Peers, x \in Live', phase'[ParentOf[x]] = "cancelled",
                      \E i \in DOMAIN children[ParentOf[x]] : children[ParentOf[x]][i] = x
               PROVE  Pending("cancel", x)'
    BY DEF CascadeReaches
  <2>1. ParentOf[x] \in Requests /\ x \in Live
    BY <1>0, <1>1
  <2>2. phase[ParentOf[x]] = "cancelled"
    BY <2>1, <1>1
  <2> QED
    BY <2>1, <2>2, <1>2 DEF Ledger, CascadeReaches
<1> QED
  BY <1>3, <1>4, <1>5, <1>6, <1>7, <1>8, <1>9, <1>10, <1>11 DEF Ledger

\* A request is registered: a caller's after its admission, a peer call under
\* its parent if that is live.
LEMMA RegisterKeeps ==
  ASSUME Shape, Ledger, NEW r \in Requests, phase[r] = "new", phase' = [phase EXCEPT ![r] = "live"],
         UNCHANGED <<permits, channel, deaf, cancel>>, HandAside,
         \A e \in Externals \ {r} : pc'[e] = pc[e],
         r \in Externals => pc[r] = "admitted" /\ pc'[r] = "sending",
         \/ UNCHANGED children
         \/ /\ r \in Peers /\ ParentOf[r] \in Live
            /\ children' = [children EXCEPT ![ParentOf[r]] = Append(@, r)]
  PROVE  Ledger'
<1>0. /\ phase \in [Requests -> Phases] /\ children \in [Requests -> Seq(Peers)]
      /\ ParentOf \in [Peers -> Requests] /\ hand.req \in Requests
      /\ hand.at = "deliver" => hand.req \in Requests
  BY ConstantsAssumption DEF Shape, TableType, TasksType, Hands
<1>1. /\ \A x \in Requests : phase'[x] = IF x = r THEN "live" ELSE phase[x]
      /\ Live' = Live \cup {r} /\ r \notin Live
  BY <1>0 DEF Live
<1>2. /\ \A do, x : Pending(do, x)' <=> Pending(do, x)
      /\ \A t, i, x : AnswerOwed(t, i, x)' <=> AnswerOwed(t, i, x)
      /\ \A x : Terminals(x)' = Terminals(x)
      /\ \A x : TerminalInHand(x)' <=> TerminalInHand(x)
      /\ ~Pending("answer", r)
  BY HandAsideKeeps DEF Pending, AnswerOwed, Terminals, Ledger, AnswersOwed
<1>3. AnswersOwed' /\ AnswersOnce'
  <2>1. \A x \in Requests : Pending("answer", x)' => x # r /\ phase[x] = "cancelled"
    BY <1>2 DEF Ledger, AnswersOwed
  <2>2. AnswersOwed'
    BY <2>1, <1>1 DEF AnswersOwed
  <2>3. AnswersOnce'
    BY DEF Ledger, AnswersOnce, AnswerOwed
  <2> QED
    BY <2>2, <2>3
<1>4. HandEnded'
  BY <1>0, <1>1, HandAsideKeeps DEF Ledger, HandEnded
<1>5. NotYetRegistered'
  BY <1>1 DEF Ledger, NotYetRegistered, Requests
<1>6. Told' /\ OnlyTerminal'
  <2>1. \A x \in Requests : Ended(x)' <=> Ended(x)
    BY <1>1 DEF Ended, TerminalKinds
  <2> QED
    BY <2>1, <1>2 DEF Ledger, Told, OnlyTerminal, Channelled, Requests
<1>7. \A p \in Requests : \A i \in DOMAIN children'[p] :
        \/ i \in DOMAIN children[p] /\ children'[p][i] = children[p][i]
        \/ children'[p][i] = r /\ p = ParentOf[r] /\ p \in Live /\ r \in Peers
  <2>1. ASSUME r \in Peers, ParentOf[r] \in Live,
               children' = [children EXCEPT ![ParentOf[r]] = Append(@, r)],
               NEW p \in Requests, NEW i \in DOMAIN children'[p]
        PROVE  \/ i \in DOMAIN children[p] /\ children'[p][i] = children[p][i]
               \/ children'[p][i] = r /\ p = ParentOf[r] /\ p \in Live /\ r \in Peers
    <3>1. CASE p = ParentOf[r]
      <4>1. children'[p] = Append(children[p], r) /\ children[p] \in Seq(Peers)
        BY <2>1, <3>1, <1>0
      <4>2. \A k \in DOMAIN Append(children[p], r) :
              \/ k \in DOMAIN children[p] /\ Append(children[p], r)[k] = children[p][k]
              \/ Append(children[p], r)[k] = r
        BY <4>1
      <4> QED
        BY <4>1, <4>2, <2>1, <3>1
    <3>2. CASE p # ParentOf[r]
      BY <2>1, <3>2, <1>0
    <3> QED
      BY <3>1, <3>2
  <2> QED
    BY <2>1
<1>8. LinkedRegistered'
  <2> SUFFICES ASSUME NEW p \in Requests, NEW i \in DOMAIN children'[p]
               PROVE  phase'[children'[p][i]] # "new"
    BY DEF LinkedRegistered
  <2>1. CASE i \in DOMAIN children[p] /\ children'[p][i] = children[p][i]
    <3>1. children[p][i] \in Requests /\ phase[children[p][i]] # "new"
      BY <2>1, <1>0 DEF Ledger, LinkedRegistered, Requests
    <3> QED
      BY <3>1, <2>1, <1>1
  <2>2. CASE children'[p][i] = r
    BY <2>2, <1>1
  <2> QED
    BY <2>1, <2>2, <1>7
<1>9. ExternalsAnswered'
  <2> SUFFICES ASSUME NEW e \in Externals \ deaf, Ended(e)'
               PROVE  \/ Terminals(e)' # {} \/ pc'[e] \in {"giveUp", "failed"}
                      \/ TerminalInHand(e)' \/ Pending("answer", e)'
    BY DEF ExternalsAnswered, TerminalInHand
  <2>1. e # r /\ Ended(e)
    BY <1>1 DEF Ended, TerminalKinds, Requests
  <2>2. \/ Terminals(e) # {} \/ pc[e] \in {"giveUp", "failed"}
        \/ TerminalInHand(e) \/ Pending("answer", e)
    BY <2>1 DEF Ledger, ExternalsAnswered, TerminalInHand
  <2> QED
    BY <2>1, <2>2, <1>2
<1>10. PermitsFollowRequests'
  <2>1. permits = {e \in Externals : pc[e] = "admitted" \/ e \in Live \/ Pending("answer", e)}
    BY DEF Ledger, PermitsFollowRequests
  <2> QED
    BY <2>1, <1>1, <1>2 DEF PermitsFollowRequests
<1>11. CascadeReaches'
  <2> SUFFICES ASSUME NEW x \in Peers, x \in Live', phase'[ParentOf[x]] = "cancelled",
                      NEW i \in DOMAIN children'[ParentOf[x]], children'[ParentOf[x]][i] = x
               PROVE  Pending("cancel", x)'
    BY DEF CascadeReaches
  <2>1. ParentOf[x] \in Requests /\ ParentOf[x] # r /\ phase[ParentOf[x]] = "cancelled"
    BY <1>0, <1>1
  <2>2. ParentOf[x] \notin Live
    BY <2>1 DEF Live
  <2>3. i \in DOMAIN children[ParentOf[x]] /\ children[ParentOf[x]][i] = x
    BY <2>1, <2>2, <1>7
  <2>4. x # r
    BY <2>1, <2>3 DEF Ledger, LinkedRegistered
  <2> QED
    BY <2>1, <2>3, <2>4, <1>1, <1>2 DEF Ledger, CascadeReaches
<1> QED
  BY <1>3, <1>4, <1>5, <1>6, <1>8, <1>9, <1>10, <1>11 DEF Ledger

\* What `terminate` of a request does to the table.
LEMMA TerminateLive ==
  ASSUME TableType, NEW r \in Requests, NEW kind, Terminate(r, kind)
  PROVE  /\ r \in Live => phase' = [phase EXCEPT ![r] = kind]
         /\ r \notin Live => phase' = phase
  BY DEF TableType, Terminate, Live

\* The sweep of a dead master terminates a request and delivers its ERR.
LEMMA SweepKept ==
  ASSUME Shape, Ledger, NEW t \in Tasks, NEW r \in death[t].todo, SweepDeadKey(t, r)
  PROVE  Ledger'
<1>0. /\ TableType /\ DeliveryType /\ TasksType /\ r \in Requests /\ hand.req \in Requests
  BY DEF Shape, CallsType, Deaths, TasksType, Hands
<1>01. PcAside /\ HandAside
  BY DEF SweepDeadKey, tasks, PcAside, HandAside
<1>1. CASE r \notin Live
  <2>1. phase' = phase
    BY <1>0, <1>1, TerminateLive DEF SweepDeadKey
  <2>2. Aside
    BY <2>1, <1>1, <1>01 DEF SweepDeadKey, delivery, Aside
  <2> QED
    BY <2>2, AsideKept
<1>2. CASE r \in Live
  <2>1. phase' = [phase EXCEPT ![r] = "master_died"] /\ permits' = permits \ {r}
    BY <1>0, <1>2, TerminateLive DEF SweepDeadKey
  <2>2. Deliver(r, "master_died") /\ UNCHANGED <<children, deaf, cancel, hand>>
    BY <1>2 DEF SweepDeadKey, tasks
  <2>3. \A x : TerminalInHand(x)' <=> TerminalInHand(x)
    BY <1>01, HandAsideKeeps
  <2>4. ~TerminalInHand(r)
    BY <1>2 DEF Ledger, HandEnded, TerminalInHand, Live
  <2>5. r \in Channelled => Terminals(r) = {}
    BY <1>2 DEF Ledger, Told, Ended, TerminalKinds, Live
  <2>6. /\ \A x \in Channelled \ {r} : Terminals(x)' = Terminals(x)
        /\ r \in Channelled => \A i, j \in Terminals(r)' : i = j
        /\ r \in Channelled /\ r \notin deaf => Terminals(r)' # {}
    BY <1>0, <2>2, <2>5, Delivered DEF Deliveries
  <2>7. r \in Externals \ deaf => Terminals(r)' # {}
    BY <2>6 DEF Channelled
  <2> QED
    BY <1>0, <1>2, <1>01, <2>1, <2>2, <2>3, <2>4, <2>6, <2>7, EndKeeps
<1> QED
  BY <1>1, <1>2

\* The pump takes a response: of a live request it goes into the pump's hand,
\* and with a terminal the request leaves the table.
LEMMA TakeResponseKept ==
  ASSUME Shape, Ledger, NEW m \in Masters, TakeResponse(m)
  PROVE  Ledger'
<1> DEFINE f == Head(inbox[m])
<1>0. /\ TableType /\ HostsType /\ InboxOK /\ inbox[m] # <<>> /\ Take(m)
      /\ hand.at = "idle" /\ f.kind \in {"data", "end", "err"} /\ PcAside
  BY DEF Shape, TakeResponse, PumpFree, PcAside
<1>01. f \in Frames /\ f.req \in Requests
  BY <1>0, Taken DEF Frames
<1> HIDE DEF f
<1>1. CASE f.req \notin Live
  <2>1. Aside
    BY <1>0, <1>1 DEF TakeResponse, f, Aside, HandAside, delivery, calls
  <2> QED
    BY <2>1, AsideKept
<1>2. CASE f.req \in Live /\ ~IsTerminal(f.kind)
  <2>1. ~IsTerminal(hand'.kind)
    BY <1>2 DEF TakeResponse, f, Holding
  <2>2. UNCHANGED <<phase, children, permits, channel, deaf, cancel>>
    BY <1>2 DEF TakeResponse, f, delivery, calls
  <2>3. \A x : TerminalInHand(x)' <=> TerminalInHand(x)
    BY <1>0, <2>1 DEF TerminalInHand
  <2>4. /\ \A do, x : Pending(do, x)' <=> Pending(do, x)
        /\ \A u, i, x : AnswerOwed(u, i, x)' <=> AnswerOwed(u, i, x)
        /\ \A x : Terminals(x)' = Terminals(x)
        /\ \A x : Ended(x)' <=> Ended(x)
        /\ Live' = Live
    BY <2>2 DEF Pending, AnswerOwed, Terminals, Ended, Live
  <2>51. AnswersOwed'
    BY <2>2, <2>4 DEF Ledger, AnswersOwed
  <2>52. AnswersOnce'
    BY <2>2 DEF Ledger, AnswersOnce, AnswerOwed
  <2>53. HandEnded'
    BY <2>1 DEF HandEnded, IsTerminal
  <2>54. NotYetRegistered'
    BY <1>0, <2>2 DEF Ledger, NotYetRegistered, PcAside
  <2>6. Told' /\ OnlyTerminal' /\ LinkedRegistered'
    BY <2>2, <2>3, <2>4 DEF Ledger, Told, OnlyTerminal, LinkedRegistered
  <2>7. ExternalsAnswered'
    BY <1>0, <2>2, <2>3, <2>4 DEF Ledger, ExternalsAnswered, TerminalInHand, PcAside
  <2>8. PermitsFollowRequests' /\ CascadeReaches'
    BY <1>0, <2>2, <2>4 DEF Ledger, PermitsFollowRequests, CascadeReaches, PcAside
  <2> QED
    BY <2>51, <2>52, <2>53, <2>54, <2>6, <2>7, <2>8 DEF Ledger
<1>3. CASE f.req \in Live /\ IsTerminal(f.kind)
  <2>1. PICK r \in Live : r = f.req
    BY <1>3
  <2>2. PICK kind \in {"end", "err"} : kind = f.kind
    BY <1>3 DEF IsTerminal
  <2>3. phase' = [phase EXCEPT ![r] = kind] /\ permits' = permits \ {r}
    BY <1>0, <1>01, <1>3, <2>1, <2>2, TerminateLive DEF TakeResponse, f
  <2>4. UNCHANGED <<children, deaf, cancel, channel>> /\ PcAside
    BY <1>0 DEF TakeResponse, delivery, calls
  <2>5. /\ hand'.req = r /\ hand'.kind = kind /\ r \in Requests
        /\ r \in Channelled => hand'.at = "deliver"
    BY <1>3, <1>01, <2>1, <2>2 DEF TakeResponse, f, Holding
  <2>6. \A x \in Requests \ {r} : TerminalInHand(x)' <=> TerminalInHand(x)
    BY <1>0, <2>5 DEF TerminalInHand
  <2>7. r \in Channelled => Terminals(r) = {}
    BY DEF Ledger, Told, Ended, TerminalKinds, Live
  <2>8. \A x : Terminals(x)' = Terminals(x)
    BY <2>4 DEF Terminals
  <2>9. r \in Externals => TerminalInHand(r)'
    BY <2>5 DEF TerminalInHand, Channelled, IsTerminal
  <2> QED
    BY <2>3, <2>4, <2>5, <2>6, <2>7, <2>8, <2>9, EndKeeps
<1> QED
  BY <1>1, <1>2, <1>3

\* Terminations nobody waits for: of a caller that reports the failure itself,
\* of a peer call that could not be sent, of a probe.
LEMMA QuietEndsKept ==
  ASSUME Shape, Ledger, (\E e \in Externals : GiveUp(e)) \/ PumpUnsent \/ ProbeEnd
  PROVE  Ledger'
<1>0. TableType /\ TasksType /\ HandOK /\ ProbeOK /\ hand \in Hands /\ probing \in ProbeStates
  BY DEF Shape, TasksType
<1>1. ASSUME NEW r \in Requests, NEW kind \in {"end", "err", "master_died"}, Terminate(r, kind),
             UNCHANGED <<children, channel, deaf, cancel>>, PcAside, HandAside, hand'.req \in Requests,
             r \in Live => permits' = permits \ {r}, r \notin Live => UNCHANGED permits,
             r \in Externals => pc'[r] \in {"giveUp", "failed"}
      PROVE  Ledger'
  <2>1. CASE r \notin Live
    <3>1. Aside
      BY <1>0, <1>1, <2>1, TerminateLive DEF Aside
    <3> QED
      BY <3>1, AsideKept
  <2>2. CASE r \in Live
    <3>1. phase' = [phase EXCEPT ![r] = kind]
      BY <1>0, <1>1, <2>2, TerminateLive
    <3>2. \A x : TerminalInHand(x)' <=> TerminalInHand(x)
      BY <1>1, HandAsideKeeps
    <3>3. ~TerminalInHand(r)
      BY <2>2 DEF Ledger, HandEnded, TerminalInHand, Live
    <3>4. \A x : Terminals(x)' = Terminals(x)
      BY <1>1 DEF Terminals
    <3>5. r \in Channelled => Terminals(r) = {}
      BY <2>2 DEF Ledger, Told, Ended, TerminalKinds, Live
    <3> QED
      BY <1>1, <2>2, <3>1, <3>2, <3>3, <3>4, <3>5, EndKeeps
  <2> QED
    BY <2>1, <2>2
<1>2. ASSUME NEW e \in Externals, GiveUp(e)
      PROVE  Ledger'
  <2>1. PcAside /\ pc'[e] = "failed"
    BY <1>2, <1>0 DEF GiveUp, PcAside, TasksType
  <2>2. e \in Requests /\ hand'.req \in Requests /\ HandAside
    BY <1>2, <1>0 DEF GiveUp, Requests, Hands, HandAside
  <2> QED
    BY <1>1, <1>2, <2>1, <2>2 DEF GiveUp, delivery, calls
<1>3. CASE PumpUnsent
  <2>1. hand.req \in Peers /\ hand.req \in Requests /\ hand.req \notin Externals
    BY <1>3, <1>0, ConstantsAssumption DEF PumpUnsent, HandOK, Requests
  <2>2. PcAside /\ HandAside /\ hand'.req \in Requests
    BY <1>3, Fillers DEF PumpUnsent, PcAside, HandAside, Hands
  <2>3. permits' = permits \ {hand.req}
    BY <1>3, <1>0, <2>1 DEF PumpUnsent, TableType
  <2> QED
    BY <1>1, <1>3, <2>1, <2>2, <2>3 DEF PumpUnsent, delivery, calls
<1>4. CASE ProbeEnd
  <2>1. probing.req \in Probes /\ probing.req \in Requests /\ probing.req \notin Externals
    BY <1>4, <1>0, ConstantsAssumption DEF ProbeEnd, ProbeOK, Requests
  <2>2. PcAside /\ HandAside /\ hand'.req \in Requests
    BY <1>4, <1>0 DEF ProbeEnd, PcAside, HandAside, Hands
  <2>3. permits' = permits \ {probing.req}
    BY <1>4, <1>0, <2>1 DEF ProbeEnd, TableType
  <2> QED
    BY <1>1, <1>4, <2>1, <2>2, <2>3 DEF ProbeEnd, delivery, calls
<1> QED
  BY <1>2, <1>3, <1>4

LEMMA RegistrationsKept ==
  ASSUME Shape, Ledger,
         (\E e \in Externals : RegisterExternal(e)) \/ PumpRegister \/ \E r \in Probes : ProbeStart(r)
  PROVE  Ledger'
<1>0. TableType /\ TasksType /\ HandOK /\ hand \in Hands
  BY DEF Shape, TasksType
<1>1. ASSUME NEW e \in Externals, RegisterExternal(e)
      PROVE  Ledger'
  <2>1. /\ e \in Requests /\ phase[e] = "new" /\ phase' = [phase EXCEPT ![e] = "live"]
        /\ pc[e] = "admitted" /\ pc'[e] = "sending" /\ \A x \in Externals \ {e} : pc'[x] = pc[x]
    BY <1>1, <1>0 DEF RegisterExternal, Register, Requests, TasksType
  <2> QED
    BY <1>1, <2>1, RegisterKeeps DEF RegisterExternal, delivery, calls, HandAside
<1>2. CASE PumpRegister
  <2>1. /\ hand.req \in Peers /\ hand.req \in Requests /\ hand.req \notin Externals
        /\ phase[hand.req] = "new" /\ phase' = [phase EXCEPT ![hand.req] = "live"]
    BY <1>2, <1>0, ConstantsAssumption DEF PumpRegister, Register, HandOK, Requests
  <2>2. HandAside
    BY <1>2, <1>0 DEF PumpRegister, HandAside, Hands
  <2> QED
    BY <1>2, <2>1, <2>2, RegisterKeeps DEF PumpRegister, delivery, calls
<1>3. ASSUME NEW r \in Probes, ProbeStart(r)
      PROVE  Ledger'
  <2>1. /\ r \in Requests /\ r \notin Externals
        /\ phase[r] = "new" /\ phase' = [phase EXCEPT ![r] = "live"]
    BY <1>3, ConstantsAssumption DEF ProbeStart, Register, Requests
  <2> QED
    BY <1>3, <2>1, RegisterKeeps DEF ProbeStart, delivery, calls, HandAside
<1> QED
  BY <1>1, <1>2, <1>3

\* The pump delivers what it holds, and starts a cancellation if nobody listens.
LEMMA PumpDeliverKept ==
  ASSUME Shape, Ledger, PumpDeliver
  PROVE  Ledger'
<1>0. /\ CallsType /\ DeliveryType /\ TasksType /\ hand.at = "deliver" /\ cancel["pump"] = <<>>
      /\ hand.kind \in Deliveries /\ hand.kind \in {"data", "end", "err"} /\ hand' = NoHand
  BY DEF Shape, HandOK, PumpDeliver, Immediate, Free, Deliveries
<1>1. PICK r \in Channelled : r = hand.req
  BY DEF Shape, HandOK, PumpDeliver
<1>2. PICK kind \in {"data", "end", "err"} : kind = hand.kind
  BY <1>0
<1>3. r \in Requests /\ r \notin Peers
  BY ConstantsAssumption DEF Channelled, Requests
<1>4. /\ \A x : Pending("answer", x)' <=> Pending("answer", x)
      /\ \A x : Pending("cancel", x) => Pending("cancel", x)'
      /\ AnswersOnce'
  <2>1. CASE cancel' = cancel
    BY <2>1 DEF Pending, Ledger, AnswersOnce, AnswerOwed
  <2>2. CASE cancel' = [cancel EXCEPT !["pump"] = <<Work("cancel", r)>>]
    <3>1. <<Work("cancel", r)>> \in Seq(Works)
      BY <1>3, WorkTypes
    <3>2. \A i \in DOMAIN <<Work("cancel", r)>> : <<Work("cancel", r)>>[i].do # "answer"
      BY DEF Work
    <3> QED
      BY <1>0, <2>2, <3>1, <3>2, Started DEF Ledger
  <2> QED
    BY <2>1, <2>2, <1>1 DEF PumpDeliver
<1>5. /\ UNCHANGED <<phase, children, permits, deaf, pc>> /\ Deliver(r, kind)
      /\ Live' = Live /\ \A x : Ended(x)' <=> Ended(x)
  BY <1>1, <1>2 DEF PumpDeliver, table, Live, Ended
<1>6. /\ \A x : ~TerminalInHand(x)'
      /\ \A x : x # r => ~TerminalInHand(x)
      /\ TerminalInHand(r) <=> kind # "data"
  BY <1>0, <1>1, <1>2, Fillers DEF TerminalInHand, IsTerminal
<1>7. kind # "data" => phase[r] \in {"end", "err"} /\ Terminals(r) = {} /\ Ended(r)
  BY <1>6, <1>0, <1>1 DEF Ledger, HandEnded, Told, TerminalInHand, Ended, TerminalKinds
<1>8. /\ \A x \in Channelled \ {r} : Terminals(x)' = Terminals(x)
      /\ kind = "data" => Terminals(r)' = Terminals(r)
      /\ kind # "data" /\ r \notin deaf => Terminals(r)' # {}
      /\ Terminals(r) = {} => \A i, j \in Terminals(r)' : i = j
  BY <1>0, <1>2, <1>5, Delivered
<1>9. AnswersOwed'
  BY <1>4, <1>5 DEF Ledger, AnswersOwed
<1>10. HandEnded'
  BY <1>0, Fillers DEF HandEnded
<1>11. NotYetRegistered' /\ LinkedRegistered'
  BY <1>5 DEF Ledger, NotYetRegistered, LinkedRegistered
<1>12. Told'
  <2> SUFFICES ASSUME NEW x \in Channelled, Terminals(x)' # {}
               PROVE  Ended(x) /\ ~Pending("answer", x)
    BY <1>4, <1>5, <1>6 DEF Told
  <2>1. CASE x = r /\ kind # "data"
    BY <2>1, <1>3, <1>7 DEF Ledger, AnswersOwed
  <2>2. CASE ~(x = r /\ kind # "data")
    BY <2>2, <1>8 DEF Ledger, Told
  <2> QED
    BY <2>1, <2>2
<1>13. OnlyTerminal'
  BY <1>7, <1>8 DEF Ledger, OnlyTerminal
<1>14. ExternalsAnswered'
  <2> SUFFICES ASSUME NEW e \in Externals \ deaf, Ended(e)
               PROVE  \/ Terminals(e)' # {} \/ pc[e] \in {"giveUp", "failed"} \/ Pending("answer", e)
    BY <1>4, <1>5 DEF ExternalsAnswered
  <2>1. e \in Channelled
    BY DEF Channelled
  <2>2. \/ Terminals(e) # {} \/ pc[e] \in {"giveUp", "failed"}
        \/ TerminalInHand(e) \/ Pending("answer", e)
    BY DEF Ledger, ExternalsAnswered, TerminalInHand
  <2>3. CASE Terminals(e) # {}
    BY <2>1, <2>3, <1>7, <1>8
  <2>4. CASE TerminalInHand(e)
    BY <2>1, <2>4, <1>6, <1>8
  <2> QED
    BY <2>2, <2>3, <2>4
<1>15. PermitsFollowRequests'
  BY <1>4, <1>5 DEF Ledger, PermitsFollowRequests
<1>16. CascadeReaches'
  BY <1>4, <1>5 DEF Ledger, CascadeReaches
<1> QED
  BY <1>4, <1>9, <1>10, <1>11, <1>12, <1>13, <1>14, <1>15, <1>16 DEF Ledger

\* Steps that change only the list of what is to be cancelled, and owe nothing
\* more by it.
LEMMA ListedKept ==
  ASSUME Ledger, UNCHANGED <<phase, children, permits, channel, deaf, pc, hand>>,
         \A r : Pending("answer", r)' <=> Pending("answer", r),
         \A r \in Live : Pending("cancel", r) => Pending("cancel", r)',
         AnswersOnce'
  PROVE  Ledger'
<1>0. /\ \A r : Terminals(r)' = Terminals(r)
      /\ \A r : Ended(r)' <=> Ended(r)
      /\ \A r : TerminalInHand(r)' <=> TerminalInHand(r)
      /\ Live' = Live
  BY DEF Terminals, Ended, TerminalInHand, Live
<1>1. AnswersOwed' /\ HandEnded' /\ NotYetRegistered'
  BY DEF Ledger, AnswersOwed, HandEnded, NotYetRegistered
<1>2. Told' /\ OnlyTerminal' /\ LinkedRegistered'
  BY <1>0 DEF Ledger, Told, OnlyTerminal, LinkedRegistered
<1>3. ExternalsAnswered'
  BY <1>0 DEF Ledger, ExternalsAnswered
<1>4. PermitsFollowRequests' /\ CascadeReaches'
  BY <1>0 DEF Ledger, PermitsFollowRequests, CascadeReaches
<1> QED
  BY <1>1, <1>2, <1>3, <1>4 DEF Ledger

LEMMA UserKept ==
  ASSUME Shape, Ledger, StopAll \/ \E e \in Externals : Stop(e) \/ StopFeeds(e)
  PROVE  Ledger'
<1>0. CallsType
  BY DEF Shape
<1>1. /\ UNCHANGED <<phase, children, permits, channel, deaf, pc, hand>>
      /\ cancel["user"] = <<>>
  BY DEF StopAll, Stop, StopFeeds, table, delivery, tasks, Free
<1>2. ASSUME NEW s \in Seq(Works), \A i \in DOMAIN s : s[i].do # "answer",
             cancel' = [cancel EXCEPT !["user"] = s]
      PROVE  Ledger'
  BY <1>0, <1>1, <1>2, Started, ListedKept DEF Ledger
<1>3. ASSUME NEW e \in Externals, Stop(e) \/ StopFeeds(e)
      PROVE  Ledger'
  <2>1. e \in Requests
    BY DEF Requests
  <2>2. <<Work("cancel", e)>> \in Seq(Works) /\ <<Work("write", e)>> \in Seq(Works)
    BY <2>1, WorkTypes
  <2>3. /\ \A i \in DOMAIN <<Work("cancel", e)>> : <<Work("cancel", e)>>[i].do # "answer"
        /\ \A i \in DOMAIN <<Work("write", e)>> : <<Work("write", e)>>[i].do # "answer"
    BY DEF Work
  <2> QED
    BY <1>2, <1>3, <2>2, <2>3 DEF Stop, StopFeeds
<1>4. CASE StopAll
  <2> DEFINE X == Live \cap Channelled
  <2>1. PICK s \in [1 .. Cardinality(X) -> X] : cancel' = [cancel EXCEPT !["user"] = CancelAll(s)]
    BY <1>4 DEF StopAll
  <2>2. Cardinality(X) \in Nat
    BY FS_Subset, FS_CardinalityType DEF Shape, FiniteLive
  <2>3. s \in Seq(Requests)
    <3>1. X \subseteq Requests
      BY DEF Live
    <3> HIDE DEF X
    <3>2. s \in [1 .. Cardinality(X) -> Requests]
      BY <3>1
    <3> QED
      BY <2>2, <3>2
  <2>4. CancelAll(s) \in Seq(Works)
    BY <2>3, WorkTypes
  <2>5. \A i \in DOMAIN CancelAll(s) : CancelAll(s)[i].do # "answer"
    BY <2>3 DEF CancelAll, Work
  <2> QED
    BY <1>2, <2>1, <2>4, <2>5
<1> QED
  BY <1>3, <1>4

LEMMA CancelTerminateKept ==
  ASSUME Shape, Ledger, NEW t \in Tasks, CancelTerminate(t)
  PROVE  Ledger'
<1>0. /\ CallsType /\ TableType /\ cancel[t] # <<>> /\ Head(cancel[t]) \in Works
  BY DEF Shape, CancelTerminate, InCancel, CallsType
<1>1. PICK p \in Requests : Head(cancel[t]) = Work("cancel", p)
  BY <1>0 DEF CancelTerminate, Works, Work
<1>2. UNCHANGED <<children, permits, channel, deaf, pc, hand>>
  BY DEF CancelTerminate, delivery, tasks
<1>3. Head(cancel[t]).req = p
  BY <1>1 DEF Work
<1>4. CASE p \notin Live
  <2>1. UNCHANGED phase /\ cancel' = [cancel EXCEPT ![t] = Tail(@)]
    BY <1>0, <1>3, <1>4, TerminateLive DEF CancelTerminate
  <2>2. \A r : Work("answer", r) # Head(cancel[t])
    BY <1>1 DEF Work
  <2>3. \A r \in Live : Work("cancel", r) # Head(cancel[t])
    BY <1>1, <1>4 DEF Work
  <2>4. \A r : Pending("answer", r)' <=> Pending("answer", r)
    BY <1>0, <2>1, <2>2, Shortened
  <2>5. (\A r \in Live : Pending("cancel", r) => Pending("cancel", r)') /\ AnswersOnce'
    BY <1>0, <2>1, <2>3, Shortened DEF Ledger
  <2> QED
    BY <1>2, <2>1, <2>4, <2>5, ListedKept
<1>5. CASE p \in Live
  <2>1. phase' = [phase EXCEPT ![p] = "cancelled"]
    BY <1>0, <1>3, <1>5, TerminateLive DEF CancelTerminate
  <2>2. \A x \in Requests : phase'[x] = IF x = p THEN "cancelled" ELSE phase[x]
    BY <1>0, <2>1 DEF TableType
  <2>3. Live' = Live \ {p}
    BY <2>2 DEF Live
  <2>4. children[p] \in Seq(Peers) /\ children[p] \in Seq(Requests)
    BY <1>0 DEF TableType, Requests
  <2>5. ~Pending("answer", p)
    BY <1>5 DEF Ledger, AnswersOwed, Live
  <2>6. cancel' = [cancel EXCEPT ![t] = <<Work("write", p)>> \o CancelAll(children[p])
                                          \o <<Work("answer", p)>> \o Tail(@)]
    BY <1>3, <1>5 DEF CancelTerminate
  <2>7. /\ \A r : Pending("answer", r)' <=> Pending("answer", r) \/ r = p
        /\ \A r : Pending("cancel", r) /\ r # p => Pending("cancel", r)'
        /\ AnswersOnce'
    BY <1>0, <1>1, <2>4, <2>5, <2>6, Expanded DEF Ledger
  <2>71. PICK s \in Seq(Peers) : s = children[p]
    BY <2>4
  <2>72. s \in Seq(Requests)
    BY <2>4, <2>71
  <2>8. \A i \in DOMAIN s : Pending("cancel", s[i])'
    BY <1>0, <1>1, <2>72, <2>71, <2>6, Expanded
  <2>9. /\ \A r : Terminals(r)' = Terminals(r)
        /\ \A r : TerminalInHand(r)' <=> TerminalInHand(r)
    BY <1>2 DEF Terminals, TerminalInHand
  <2>10. AnswersOwed'
    BY <2>2, <2>7 DEF Ledger, AnswersOwed
  <2>11. HandEnded'
    <3>1. hand.req \in Requests
      BY DEF Shape, TasksType, Hands
    <3> QED
      BY <3>1, <1>2, <1>5, <2>2 DEF Ledger, HandEnded, Live
  <2>12. NotYetRegistered'
    BY <1>2, <1>5, <2>2 DEF Ledger, NotYetRegistered, Requests, Live
  <2>13. Told'
    <3> SUFFICES ASSUME NEW x \in Channelled, Terminals(x) # {}
                 PROVE  Ended(x)' /\ ~Pending("answer", x)' /\ ~TerminalInHand(x)
      BY <2>9 DEF Told
    <3>1. Ended(x) /\ ~Pending("answer", x) /\ ~TerminalInHand(x) /\ x \in Requests
      BY DEF Ledger, Told, Channelled, Requests
    <3>2. x # p
      BY <3>1, <1>5 DEF Ended, TerminalKinds, Live
    <3> QED
      BY <3>1, <3>2, <2>2, <2>7 DEF Ended
  <2>14. OnlyTerminal'
    BY <2>9 DEF Ledger, OnlyTerminal
  <2>15. LinkedRegistered'
    <3> SUFFICES ASSUME NEW q \in Requests, NEW i \in DOMAIN children[q]
                 PROVE  phase'[children[q][i]] # "new"
      BY <1>2 DEF LinkedRegistered
    <3>1. children[q][i] \in Requests /\ phase[children[q][i]] # "new"
      BY <1>0 DEF Ledger, LinkedRegistered, TableType, Requests
    <3> QED
      BY <3>1, <2>2
  <2>16. ExternalsAnswered'
    <3> SUFFICES ASSUME NEW e \in Externals \ deaf, Ended(e)'
                 PROVE  \/ Terminals(e) # {} \/ pc[e] \in {"giveUp", "failed"}
                        \/ TerminalInHand(e) \/ Pending("answer", e)'
      BY <1>2, <2>9 DEF ExternalsAnswered, TerminalInHand
    <3>1. CASE e = p
      BY <3>1, <2>7
    <3>2. CASE e # p
      <4>1. Ended(e)
        BY <3>2, <2>2 DEF Ended, Requests
      <4> QED
        BY <4>1, <3>2, <2>7 DEF Ledger, ExternalsAnswered, TerminalInHand
    <3> QED
      BY <3>1, <3>2
  <2>17. PermitsFollowRequests'
    <3>1. permits = {e \in Externals : pc[e] = "admitted" \/ e \in Live \/ Pending("answer", e)}
      BY DEF Ledger, PermitsFollowRequests
    <3>2. \A e \in Externals : (e \in Live' \/ Pending("answer", e)') <=>
                               (e \in Live \/ Pending("answer", e))
      BY <1>5, <2>3, <2>7
    <3> QED
      BY <1>2, <3>1, <3>2 DEF PermitsFollowRequests
  <2>18. CascadeReaches'
    <3> SUFFICES ASSUME NEW x \in Peers, x \in Live', phase'[ParentOf[x]] = "cancelled",
                        NEW i \in DOMAIN children[ParentOf[x]], children[ParentOf[x]][i] = x
                 PROVE  Pending("cancel", x)'
      BY <1>2 DEF CascadeReaches
    <3>1. x \in Live /\ x # p /\ ParentOf[x] \in Requests
      BY <2>3, ConstantsAssumption
    <3>2. CASE ParentOf[x] = p
      BY <3>2, <2>8, <2>71
    <3>3. CASE ParentOf[x] # p
      <4>1. phase[ParentOf[x]] = "cancelled"
        BY <3>1, <3>3, <2>2
      <4> QED
        BY <4>1, <3>1, <2>7 DEF Ledger, CascadeReaches
    <3> QED
      BY <3>2, <3>3
  <2> QED
    BY <2>7, <2>10, <2>11, <2>12, <2>13, <2>14, <2>15, <2>16, <2>17, <2>18 DEF Ledger
<1> QED
  BY <1>4, <1>5

LEMMA CancelWriteKept ==
  ASSUME Shape, Ledger, NEW t \in Tasks, CancelWrite(t)
  PROVE  Ledger'
<1>0. /\ CallsType /\ cancel[t] # <<>> /\ cancel' = [cancel EXCEPT ![t] = Tail(@)]
      /\ UNCHANGED <<phase, children, permits, channel, deaf, pc, hand>>
  BY DEF Shape, CancelWrite, InCancel, table, delivery, tasks
<1>1. \A r : Work("answer", r) # Head(cancel[t]) /\ Work("cancel", r) # Head(cancel[t])
  BY DEF CancelWrite, Work
<1>2. /\ \A r : Pending("answer", r)' <=> Pending("answer", r)
      /\ \A r : Pending("cancel", r) => Pending("cancel", r)'
      /\ AnswersOnce'
  BY <1>0, <1>1, Shortened DEF Ledger
<1> QED
  BY <1>0, <1>2, ListedKept

LEMMA CancelAnswerKept ==
  ASSUME Shape, Ledger, NEW t \in Tasks, CancelAnswer(t)
  PROVE  Ledger'
<1>0. /\ CallsType /\ DeliveryType /\ cancel[t] # <<>> /\ Head(cancel[t]) \in Works
      /\ cancel[t] \in Seq(Works) /\ cancel' = [cancel EXCEPT ![t] = Tail(@)]
      /\ UNCHANGED <<phase, children, deaf, pc, hand>>
  BY DEF Shape, CancelAnswer, InCancel, CallsType, tasks
<1>1. PICK p \in Requests : Head(cancel[t]) = Work("answer", p)
  BY <1>0 DEF CancelAnswer, Works, Work
<1>2. Deliver(p, "cancelled") /\ permits' = permits \ {p}
  BY <1>1 DEF CancelAnswer, Work
<1>3. \A do, r : Work(do, r) = Head(cancel[t]) <=> do = "answer" /\ r = p
  BY <1>1 DEF Work
<1>4. /\ \A r : Pending("answer", r)' <=> Pending("answer", r) /\ r # p
      /\ \A r : Pending("cancel", r) => Pending("cancel", r)'
      /\ AnswersOnce'
  BY <1>0, <1>1, <1>3, Shortened DEF Ledger
<1>5. Pending("answer", p)
  <2>1. 1 \in DOMAIN cancel[t] /\ cancel[t][1] = Work("answer", p)
    BY <1>0, <1>1
  <2> QED
    BY <2>1 DEF Pending
<1>6. phase[p] = "cancelled" /\ p \notin Live
  BY <1>5 DEF Ledger, AnswersOwed, Live
<1>7. /\ Live' = Live /\ \A r : Ended(r)' <=> Ended(r)
      /\ \A r : TerminalInHand(r)' <=> TerminalInHand(r)
  BY <1>0 DEF Live, Ended, TerminalInHand
<1>8. ~TerminalInHand(p) /\ (p \in Channelled => Terminals(p) = {})
  BY <1>5, <1>6 DEF Ledger, HandEnded, Told, TerminalInHand
<1>9. /\ \A x \in Channelled \ {p} : Terminals(x)' = Terminals(x)
      /\ p \in Channelled => \A i, j \in Terminals(p)' : i = j
      /\ p \in Channelled /\ p \notin deaf => Terminals(p)' # {}
  BY <1>0, <1>2, <1>8, Delivered DEF Deliveries
<1>10. AnswersOwed' /\ HandEnded' /\ NotYetRegistered' /\ LinkedRegistered'
  BY <1>0, <1>4 DEF Ledger, AnswersOwed, HandEnded, NotYetRegistered, LinkedRegistered
<1>11. Told'
  <2> SUFFICES ASSUME NEW x \in Channelled, Terminals(x)' # {}
               PROVE  Ended(x) /\ ~Pending("answer", x)' /\ ~TerminalInHand(x)
    BY <1>7 DEF Told
  <2>1. CASE x = p
    BY <2>1, <1>4, <1>6, <1>8 DEF Ended, TerminalKinds
  <2>2. CASE x # p
    BY <2>2, <1>4, <1>9 DEF Ledger, Told
  <2> QED
    BY <2>1, <2>2
<1>12. OnlyTerminal'
  BY <1>9 DEF Ledger, OnlyTerminal
<1>13. ExternalsAnswered'
  <2> SUFFICES ASSUME NEW e \in Externals \ deaf, Ended(e)
               PROVE  \/ Terminals(e)' # {} \/ pc[e] \in {"giveUp", "failed"}
                      \/ TerminalInHand(e) \/ Pending("answer", e)'
    BY <1>0, <1>7 DEF ExternalsAnswered, TerminalInHand
  <2>1. e \in Channelled
    BY DEF Channelled
  <2>2. CASE e = p
    BY <2>1, <2>2, <1>9
  <2>3. CASE e # p
    BY <2>1, <2>3, <1>4, <1>9 DEF Ledger, ExternalsAnswered, TerminalInHand
  <2> QED
    BY <2>2, <2>3
<1>14. PermitsFollowRequests'
  <2>1. permits = {e \in Externals : pc[e] = "admitted" \/ e \in Live \/ Pending("answer", e)}
    BY DEF Ledger, PermitsFollowRequests
  <2>2. p \in Externals => pc[p] # "admitted"
    BY <1>6 DEF Ledger, NotYetRegistered
  <2> QED
    BY <2>1, <2>2, <1>0, <1>2, <1>4, <1>6, <1>7 DEF PermitsFollowRequests
<1>15. CascadeReaches'
  BY <1>0, <1>4, <1>7 DEF Ledger, CascadeReaches
<1> QED
  BY <1>4, <1>10, <1>11, <1>12, <1>13, <1>14, <1>15 DEF Ledger

\* A caller is admitted; a receiver is dropped.
LEMMA AdmitKept ==
  ASSUME Shape, Ledger, NEW e \in Externals, Admit(e) \/ DropReceiver(e)
  PROVE  Ledger'
<1>0. /\ UNCHANGED <<phase, children, channel, hand, cancel>> /\ TasksType
  BY DEF Shape, Admit, DropReceiver, table, delivery, tasks, calls
<1>1. /\ \A do, x : Pending(do, x)' <=> Pending(do, x)
      /\ \A x : Terminals(x)' = Terminals(x)
      /\ \A x : Ended(x)' <=> Ended(x)
      /\ \A x : TerminalInHand(x)' <=> TerminalInHand(x)
      /\ Live' = Live
  BY <1>0 DEF Pending, Terminals, Ended, Live, TerminalInHand
<1>2. AnswersOnce'
  BY <1>0 DEF Ledger, AnswersOnce, AnswerOwed
<1>3. AnswersOwed' /\ HandEnded' /\ Told' /\ OnlyTerminal' /\ LinkedRegistered' /\ CascadeReaches'
  BY <1>0, <1>1 DEF Ledger, AnswersOwed, HandEnded, Told, OnlyTerminal, LinkedRegistered, CascadeReaches
<1>4. CASE Admit(e)
  <2>1. /\ pc[e] = "routed" /\ pc' = [pc EXCEPT ![e] = "admitted"] /\ permits' = permits \cup {e}
        /\ deaf' = deaf
    BY <1>4 DEF Admit
  <2>2. NotYetRegistered'
    BY <1>0, <2>1 DEF TasksType, Ledger, NotYetRegistered
  <2>3. ExternalsAnswered'
    BY <1>0, <1>1, <2>1 DEF TasksType, Ledger, ExternalsAnswered, TerminalInHand
  <2>4. permits = {x \in Externals : pc[x] = "admitted" \/ x \in Live \/ Pending("answer", x)}
    BY DEF Ledger, PermitsFollowRequests
  <2>5. PermitsFollowRequests'
    BY <1>0, <1>1, <2>1, <2>4 DEF TasksType, PermitsFollowRequests
  <2> QED
    BY <1>2, <1>3, <2>2, <2>3, <2>5 DEF Ledger
<1>5. CASE DropReceiver(e)
  <2>1. UNCHANGED <<pc, permits>> /\ deaf \subseteq deaf'
    BY <1>5 DEF DropReceiver, tasks, table
  <2>2. NotYetRegistered'
    BY <1>0, <2>1 DEF Ledger, NotYetRegistered
  <2>3. ExternalsAnswered'
    BY <1>0, <1>1, <2>1 DEF Ledger, ExternalsAnswered, TerminalInHand
  <2>4. PermitsFollowRequests'
    BY <1>1, <2>1 DEF Ledger, PermitsFollowRequests
  <2> QED
    BY <1>2, <1>3, <2>2, <2>3, <2>4 DEF Ledger
<1> QED
  BY <1>4, <1>5

LEMMA LedgerInit == Init => Ledger
<1> SUFFICES ASSUME Init PROVE Ledger
  OBVIOUS
<1>1. \A do, r : ~Pending(do, r)
  BY DEF Init, Pending
<1>2. \A t, i, r : t \in Tasks => ~AnswerOwed(t, i, r)
  BY DEF Init, AnswerOwed
<1>3. \A r \in Channelled : Terminals(r) = {}
  BY DEF Init, Terminals
<1>4. \A r \in Requests : phase[r] = "new" /\ ~Ended(r) /\ r \notin Live
  BY DEF Init, Ended, TerminalKinds, Live
<1>5. AnswersOwed /\ AnswersOnce /\ Told /\ OnlyTerminal
  BY <1>1, <1>2, <1>3 DEF AnswersOwed, AnswersOnce, Told, OnlyTerminal
<1>6. HandEnded /\ NotYetRegistered /\ LinkedRegistered
  BY <1>4, Fillers DEF Init, HandEnded, NotYetRegistered, LinkedRegistered, Requests
<1>7. ExternalsAnswered /\ CascadeReaches
  BY <1>4 DEF ExternalsAnswered, CascadeReaches, Requests
<1>8. PermitsFollowRequests
  BY <1>1, <1>4 DEF Init, PermitsFollowRequests, Requests
<1> QED
  BY <1>5, <1>6, <1>7, <1>8 DEF Ledger

LEMMA LedgerNext == Shape /\ Ledger /\ [Next]_vars => Ledger'
<1>1. ASSUME Shape, Ledger, UNCHANGED vars PROVE Ledger'
  <2>1. UNCHANGED <<phase, children, permits, channel, deaf, cancel, pc, hand>>
    BY <1>1 DEF vars, table, delivery, tasks, calls
  <2>2. Aside
    BY <2>1 DEF Aside, PcAside, HandAside
  <2> QED
    BY <1>1, <2>2, AsideKept
<1>2. ASSUME Shape, Ledger, AsideStep PROVE Ledger'
  BY <1>2, AsideSteps, AsideKept DEF Shape, TypeOK
<1>3. ASSUME Shape, Ledger, NEW t \in Tasks, CallStep(t) PROVE Ledger'
  BY <1>2, <1>3, SweepKept, CancelTerminateKept, CancelWriteKept, CancelAnswerKept
  DEF CallStep, DeathStep, CancelStep, AsideStep
<1>4. ASSUME Shape, Ledger, NEW e \in Externals, CallerStep(e) PROVE Ledger'
  BY <1>2, <1>4, AdmitKept, RegistrationsKept, QuietEndsKept DEF CallerStep, AsideStep
<1>5. ASSUME Shape, Ledger, PumpStep PROVE Ledger'
  BY <1>2, <1>5, TakeResponseKept, PumpDeliverKept, RegistrationsKept, QuietEndsKept
  DEF PumpStep, AsideStep
<1>6. ASSUME Shape, Ledger, ProbeStep PROVE Ledger'
  BY <1>2, <1>6, RegistrationsKept, QuietEndsKept DEF ProbeStep, AsideStep
<1>7. ASSUME Shape, Ledger,
             (\E e \in Externals : DropReceiver(e) \/ Stop(e) \/ StopFeeds(e)) \/ StopAll
      PROVE  Ledger'
  BY <1>7, AdmitKept, UserKept
<1>8. ASSUME Shape, Ledger, (\E m \in Masters : AttachBegin(m) \/ AttachCommit(m)) \/ HostStep
      PROVE  Ledger'
  BY <1>2, <1>8 DEF AsideStep
<1> QED
  BY <1>1, <1>3, <1>4, <1>5, <1>6, <1>7, <1>8 DEF Next

LEMMA InvAlways == Spec => []Inv
<1>1. Init => Inv
  BY ShapeInit, LedgerInit DEF Inv
<1>2. Inv /\ [Next]_vars => Inv'
  BY ShapeNext, LedgerNext DEF Inv
<1> QED
  BY <1>1, <1>2, PTL DEF Spec

\* Whoever races whom, a response channel gets at most one terminal
\* (RequestTable::terminate answers once).
THEOREM AtMostOneTerminal == Spec => []OneTerminal
<1>1. Inv => OneTerminal
  <2> SUFFICES ASSUME Inv, NEW r \in Channelled PROVE Cardinality(Terminals(r)) <= 1
    BY DEF OneTerminal
  <2>1. \A i, j \in Terminals(r) : i = j
    BY DEF Inv, Ledger, OnlyTerminal
  <2>2. CASE Terminals(r) = {}
    BY <2>2, FS_EmptySet
  <2>3. CASE Terminals(r) # {}
    <3>1. PICK i : i \in Terminals(r)
      BY <2>3
    <3>2. Terminals(r) = {i}
      BY <2>1, <3>1
    <3> QED
      BY <3>2, FS_Singleton
  <2> QED
    BY <2>2, <2>3
<1> QED
  BY <1>1, InvAlways, PTL

\* A caller whose request left the table has its terminal, or is given an Err,
\* or somebody is about to tell it: the pump or a cancellation.
THEOREM CallersAnswered == Spec => []ExternalsAnswered
<1>1. Inv => ExternalsAnswered
  BY DEF Inv, Ledger
<1> QED
  BY <1>1, InvAlways, PTL

\* An admission permit lives exactly as long as the request it admits.
THEOREM PermitsAreRequests == Spec => []PermitsFollowRequests
<1>1. Inv => PermitsFollowRequests
  BY DEF Inv, Ledger
<1> QED
  BY <1>1, InvAlways, PTL

\* The cancellation of a request reaches every peer call linked under it.
THEOREM CascadeIsComplete == Spec => []CascadeReaches
<1>1. Inv => CascadeReaches
  BY DEF Inv, Ledger
<1> QED
  BY <1>1, InvAlways, PTL

(***************************************************************************)
(* Masters that die: the premises.  No host updates its caps, so that no   *)
(* master is held back or probed; and no master comes back, or at most one *)
(* connection breaks.                                                      *)
(***************************************************************************)
NoUpdates(s) == \A m \in Masters : s.notify[m] = 0

(***************************************************************************)
(* Wiring: who may be holding what, in any scenario.                       *)
(***************************************************************************)

\* Only the pump and the engine cancel; a caller handles one death, and only
\* after it gave up or wrote its last frame.
CallsWired ==
  /\ \A t \in Tasks \ {"pump", "user"} : cancel[t] = <<>>
  /\ \A e \in Externals : pc[e] \notin {"giveUp", "done"} => death[e].at = "idle"
  /\ probing.at = "write" => death["probe"].at = "idle"

\* A request that left "new" came in by a REQ, went where the table says, and
\* a live probe is the one under way.
RequestsWired ==
  /\ hand.at \in {"send", "unsent"} =>
       /\ phase[hand.req] # "new" /\ dest[hand.req] = hand.to
       /\ <<"sent", hand.req>> \notin said
  /\ hand.at = "forward" => phase[hand.req] # "new" /\ hand.to = origin[hand.req]
  /\ \A v \in Probes \cap Live : probing.at \in {"write", "wait", "end"} /\ probing.req = v

\* A peer call of the table, or on its way to it, is one a host made.
PeersWired ==
  /\ \A p \in Peers : phase[p] # "new" => <<"req", p>> \in said
  /\ \A p \in Peers : <<"sent", p>> \in said => phase[p] # "new"
  /\ hand.at = "register" => <<"req", hand.req>> \in said
  /\ \A m \in Masters : \A i \in DOMAIN inbox[m] :
       inbox[m][i].kind = "req" => <<"req", inbox[m][i].req>> \in said
  /\ \A p \in Peers : <<"req", p>> \in said => p \in budget.made

Wiring == CallsWired /\ RequestsWired /\ PeersWired

LEMMA CallsWiredKept ==
  ASSUME Shape, CallsWired, [Next]_vars
  PROVE  CallsWired'
<1>0. TasksType /\ CallsType /\ HandOK
  BY DEF Shape
<1>1. CASE UNCHANGED <<pc, death, cancel, probing>>
  BY <1>1 DEF CallsWired
<1>2. ASSUME NEW t \in Tasks, DeathStep(t) PROVE CallsWired'
  <2>1. death[t].at # "idle" /\ UNCHANGED <<pc, cancel, probing>>
    BY <1>2 DEF DeathStep, MarkUnhealthy, SnapshotDeadKeys, SweepDone, SweepDeadKey, tasks, calls
  <2>2. \A u \in Tasks \ {t} : death'[u] = death[u]
    BY <1>2, <1>0 DEF DeathStep, MarkUnhealthy, SnapshotDeadKeys, SweepDone, SweepDeadKey, CallsType
  <2> QED
    BY <2>1, <2>2 DEF CallsWired
<1>3. ASSUME NEW t \in Tasks, CancelStep(t) PROVE CallsWired'
  <2>1. cancel[t] # <<>> /\ UNCHANGED <<pc, probing>>
    BY <1>3 DEF CancelStep, CancelTerminate, CancelWrite, CancelAnswer, InCancel, tasks
  <2>2. t \in {"pump", "user"}
    BY <2>1 DEF CallsWired
  <2>3. \A u \in Tasks \ {t} : death'[u] = death[u] /\ cancel'[u] = cancel[u]
    BY <1>3, <1>0 DEF CancelStep, CancelTerminate, CancelWrite, CancelAnswer, MasterDies, CallsType
  <2> QED
    BY <2>1, <2>2, <2>3, ConstantsAssumption DEF CallsWired
<1>4. ASSUME NEW e \in Externals, CallerStep(e) PROVE CallsWired'
  <2>1. UNCHANGED <<cancel, probing>>
    BY <1>4 DEF CallerStep, Route, Admit, AdmitRefused, RegisterExternal, WriteReq, GiveUp, LookUpBody,
                WriteBody, tasks, calls
  <2>2. /\ \A f \in Externals \ {e} : pc'[f] = pc[f]
        /\ \A u \in Tasks \ {e} : death'[u] = death[u]
    BY <1>4, <1>0 DEF CallerStep, Route, Admit, AdmitRefused, RegisterExternal, WriteReq, GiveUp,
                LookUpBody, WriteBody, tasks, calls, MasterDies, TasksType, CallsType
  <2>3. pc'[e] \notin {"giveUp", "done"} => death'[e].at = "idle"
    BY <1>4, <1>0 DEF CallerStep, Route, Admit, AdmitRefused, RegisterExternal, WriteReq, GiveUp,
                LookUpBody, WriteBody, tasks, calls, TasksType, CallsWired, Free
  <2> QED
    BY <2>1, <2>2, <2>3, ConstantsAssumption DEF CallsWired
<1>5. CASE PumpStep
  <2>1. UNCHANGED <<pc, probing>>
    BY <1>5 DEF PumpStep, PumpDeliver, PumpForward, PumpRegister, PumpSend, PumpUnsent, PumpRelay,
                PumpUpdate, PumpHoldBack, PumpQueueProbe, TakeResponse, TakeReq, TakeContinuation,
                TakeNotify, TakeEof, tasks
  <2>2. /\ \A u \in Tasks \ {"pump", "eof"} : death'[u] = death[u]
        /\ \A u \in Tasks \ {"pump"} : cancel'[u] = cancel[u]
    BY <1>5, <1>0 DEF PumpStep, PumpDeliver, PumpForward, PumpRegister, PumpSend, PumpUnsent,
                PumpRelay, PumpUpdate, PumpHoldBack, PumpQueueProbe, TakeResponse, TakeReq,
                TakeContinuation, TakeNotify, TakeEof,
                calls, MasterDies, CallsType
  <2> QED
    BY <2>1, <2>2, ConstantsAssumption DEF CallsWired
<1>6. CASE ProbeStep
  <2>1. UNCHANGED <<pc, cancel>> /\ \A u \in Tasks \ {"probe"} : death'[u] = death[u]
    BY <1>6, <1>0 DEF ProbeStep, ProbeStart, ProbeWrite, ProbeAnswered, ProbeEnd, ProbeMark, tasks,
                calls, MasterDies, CallsType
  <2>2. probing'.at = "write" => death'["probe"].at = "idle"
    BY <1>6, <1>0, Fillers DEF ProbeStep, ProbeStart, ProbeWrite, ProbeAnswered, ProbeEnd, ProbeMark,
                calls, TasksType, ProbeStates, Free
  <2> QED
    BY <2>1, <2>2, ConstantsAssumption DEF CallsWired
<1>7. ASSUME \/ StopAll
             \/ \E e \in Externals : Stop(e) \/ StopFeeds(e)
      PROVE  CallsWired'
  <2>1. UNCHANGED <<pc, probing, death>> /\ \A u \in Tasks \ {"user"} : cancel'[u] = cancel[u]
    BY <1>7, <1>0 DEF StopAll, Stop, StopFeeds, tasks, CallsType
  <2> QED
    BY <2>1 DEF CallsWired
<1>8. ASSUME \/ \E t \in Tasks : RebuildStep(t)
             \/ \E e \in Externals : DropReceiver(e)
             \/ \E m \in Masters : AttachBegin(m) \/ AttachCommit(m)
             \/ HostStep
      PROVE  CallsWired'
  <2>1. UNCHANGED <<pc, death, cancel, probing>>
    BY <1>8 DEF RebuildStep, ReadHealth, ReadCaps, WriteCapTable, DropReceiver, AttachBegin,
                AttachCommit, HostStep,
                EmitData, EmitTerminal, EmitPeerReq, EmitContinuation, EmitNotify, Break, tasks, calls
  <2> QED
    BY <2>1, <1>1
<1>9. CASE UNCHANGED vars
  BY <1>9, <1>1 DEF vars, tasks, calls
<1> QED
  BY <1>2, <1>3, <1>4, <1>5, <1>6, <1>7, <1>8, <1>9 DEF Next, CallStep

\* Steps beside the wiring of requests: no peer call or probe is registered,
\* and the pump and the probe driver hold what they held.
LEMMA RequestsStill ==
  ASSUME HandOK, RequestsWired, PeersWired, UNCHANGED <<origin, hand, probing>>,
         budget'.made = budget.made,
         \A p \in Peers : /\ phase'[p] # "new" <=> phase[p] # "new"
                          /\ dest'[p] = dest[p]
                          /\ <<"sent", p>> \in said' <=> <<"sent", p>> \in said
                          /\ <<"req", p>> \in said' <=> <<"req", p>> \in said,
         Probes \cap Live' \subseteq Live,
         InboxOK',
         \A m \in Masters : \A i \in DOMAIN inbox'[m] : inbox'[m][i].kind = "req" =>
           \E j \in DOMAIN inbox[m] : inbox[m][j] = inbox'[m][i]
  PROVE  RequestsWired' /\ PeersWired'
<1>1. RequestsWired'
  <2>1. hand.at \in {"send", "unsent", "forward"} => hand.req \in Peers
    BY DEF HandOK
  <2>2. \A v \in Probes \cap Live' : v \in Probes \cap Live
    OBVIOUS
  <2> QED
    BY <2>1, <2>2 DEF RequestsWired
<1>2. PeersWired'
  <2>1. hand.at = "register" => hand.req \in Peers
    BY DEF HandOK
  <2>2. ASSUME NEW m \in Masters, NEW i \in DOMAIN inbox'[m], inbox'[m][i].kind = "req"
        PROVE  <<"req", inbox'[m][i].req>> \in said'
    <3>1. inbox'[m][i].req \in Peers
      BY <2>2 DEF InboxOK
    <3>2. <<"req", inbox'[m][i].req>> \in said
      BY <2>2 DEF PeersWired
    <3> QED
      BY <3>1, <3>2
  <2> QED
    BY <2>1, <2>2 DEF PeersWired
<1> QED
  BY <1>1, <1>2

\* A request ends, or nothing of the kind.
LEMMA EndedOnly ==
  ASSUME TableType, NEW kind \in TerminalKinds, NEW r, Terminate(r, kind)
  PROVE  /\ \A x \in Requests : phase'[x] # "new" <=> phase[x] # "new"
         /\ Live' \subseteq Live
         /\ r \notin Live'
  BY DEF TableType, Terminate, Live, TerminalKinds

LEMMA TailOf ==
  ASSUME HostsType, NEW m \in Masters, inbox[m] # <<>>, Take(m)
  PROVE  /\ \A k \in Masters \ {m} : inbox'[k] = inbox[k]
         /\ \A i \in DOMAIN inbox'[m] : i + 1 \in DOMAIN inbox[m] /\ inbox'[m][i] = inbox[m][i + 1]
         /\ 1 \in DOMAIN inbox[m] /\ Head(inbox[m]) = inbox[m][1]
<1>1. inbox[m] \in Seq(Frames)
  BY DEF HostsType
<1>2. inbox'[m] = Tail(inbox[m]) /\ \A k \in Masters \ {m} : inbox'[k] = inbox[k]
  BY DEF Take, HostsType
<1> QED
  BY <1>1, <1>2

LEMMA EmittedLast ==
  ASSUME HostsType, NEW m \in Masters, NEW f, Emit(m, f)
  PROVE  /\ \A k \in Masters \ {m} : inbox'[k] = inbox[k]
         /\ \A i \in DOMAIN inbox'[m] :
              \/ i \in DOMAIN inbox[m] /\ inbox'[m][i] = inbox[m][i]
              \/ i = Len(inbox[m]) + 1 /\ i \notin DOMAIN inbox[m] /\ inbox'[m][i] = f
         /\ \A i \in DOMAIN inbox[m] : i \in DOMAIN inbox'[m] /\ inbox'[m][i] = inbox[m][i]
         /\ Len(inbox[m]) + 1 \in DOMAIN inbox'[m] /\ inbox'[m][Len(inbox[m]) + 1] = f
<1>1. inbox[m] \in Seq(Frames)
  BY DEF HostsType
<1>2. inbox'[m] = Append(inbox[m], f) /\ \A k \in Masters \ {m} : inbox'[k] = inbox[k]
  BY DEF Emit, HostsType
<1> QED
  BY <1>1, <1>2

LEMMA PrefixOf ==
  ASSUME HostsType, NEW m \in Masters, AttachCommit(m)
  PROVE  /\ \A k \in Masters \ {m} : inbox'[k] = inbox[k]
         /\ \A i \in DOMAIN inbox'[m] : i \in DOMAIN inbox[m] /\ inbox'[m][i] = inbox[m][i]
<1>1. inbox[m] \in Seq(Frames)
  BY DEF HostsType
<1>2. PICK n \in 0 .. Len(inbox[m]) : inbox' = [inbox EXCEPT ![m] = SubSeq(@, 1, n)]
  BY DEF AttachCommit
<1>3. inbox'[m] = SubSeq(inbox[m], 1, n) /\ \A k \in Masters \ {m} : inbox'[k] = inbox[k]
  BY <1>2 DEF HostsType
<1> QED
  BY <1>1, <1>3

\* A frame leaves an inbox: what is left was there.
LEMMA RestWasThere ==
  ASSUME HostsType, NEW m \in Masters, inbox[m] # <<>>, Take(m)
  PROVE  \A k \in Masters : \A i \in DOMAIN inbox'[k] :
           \E j \in DOMAIN inbox[k] : inbox[k][j] = inbox'[k][i]
<1>1. ASSUME NEW k \in Masters, NEW i \in DOMAIN inbox'[k]
      PROVE  \E j \in DOMAIN inbox[k] : inbox[k][j] = inbox'[k][i]
  <2>1. CASE k = m
    BY <1>1, <2>1, TailOf
  <2>2. CASE k # m
    BY <1>1, <2>2, TailOf
  <2> QED
    BY <2>1, <2>2
<1> QED
  BY <1>1

LEMMA CallsRequestsKept ==
  ASSUME Shape, RequestsWired, PeersWired, NEW t \in Tasks, CallStep(t), InboxOK'
  PROVE  RequestsWired' /\ PeersWired'
<1>0. TableType /\ HandOK
  BY DEF Shape
<1>1. UNCHANGED <<origin, hand, probing, budget, dest, said, inbox>>
  BY DEF CallStep, DeathStep, MarkUnhealthy, SnapshotDeadKeys, SweepDone, SweepDeadKey, RebuildStep,
         ReadHealth, ReadCaps, WriteCapTable, CancelStep, CancelTerminate, CancelWrite, CancelAnswer, table,
         hosts, tasks
<1>2. phase' = phase \/ \E r, kind : kind \in TerminalKinds /\ Terminate(r, kind)
  BY DEF CallStep, DeathStep, MarkUnhealthy, SnapshotDeadKeys, SweepDone, SweepDeadKey, RebuildStep,
         ReadHealth, ReadCaps, WriteCapTable, CancelStep, CancelTerminate, CancelWrite, CancelAnswer, table,
         TerminalKinds
<1>3. (\A p \in Peers : phase'[p] # "new" <=> phase[p] # "new") /\ Live' \subseteq Live
  BY <1>0, <1>2, EndedOnly DEF Live, Requests
<1> QED
  BY <1>0, <1>1, <1>3, RequestsStill

LEMMA CallersRequestsKept ==
  ASSUME Shape, RequestsWired, PeersWired, InboxOK',
         \/ StopAll
         \/ \E e \in Externals : CallerStep(e) \/ DropReceiver(e) \/ Stop(e) \/ StopFeeds(e)
         \/ \E m \in Masters : AttachBegin(m)
  PROVE  RequestsWired' /\ PeersWired'
<1>0. TableType /\ HandOK /\ HostsType /\ budget \in Bounds
  BY DEF Shape
<1>1. UNCHANGED <<origin, hand, probing, inbox>>
  BY DEF StopAll, Stop, StopFeeds, DropReceiver, AttachBegin, CallerStep, Route, Admit, AdmitRefused,
         RegisterExternal, WriteReq, GiveUp, LookUpBody, WriteBody, hosts, tasks
<1>2. budget'.made = budget.made
  BY <1>0 DEF StopAll, Stop, StopFeeds, DropReceiver, AttachBegin, CallerStep, Route, Admit, AdmitRefused,
         RegisterExternal, WriteReq, GiveUp, LookUpBody, WriteBody, Bounds
<1>3. \A x \in Requests \ Externals : phase'[x] = phase[x] /\ dest'[x] = dest[x]
  BY <1>0 DEF StopAll, Stop, StopFeeds, DropReceiver, AttachBegin, CallerStep, Route, Admit, AdmitRefused,
         RegisterExternal, WriteReq, GiveUp, LookUpBody, WriteBody, table, TableType, Register, Terminate
<1>4. \A x \in Requests \ Externals : /\ <<"sent", x>> \in said' <=> <<"sent", x>> \in said
                                      /\ <<"req", x>> \in said' <=> <<"req", x>> \in said
  BY <1>0 DEF StopAll, Stop, StopFeeds, DropReceiver, AttachBegin, CallerStep, Route, Admit, AdmitRefused,
         RegisterExternal, WriteReq, GiveUp, LookUpBody, WriteBody, hosts, Receive
<1>5. Peers \subseteq Requests \ Externals /\ Probes \subseteq Requests \ Externals
  BY ConstantsAssumption DEF Requests
<1>6. Probes \cap Live' \subseteq Live
  BY <1>3, <1>5 DEF Live
<1> QED
  BY <1>0, <1>1, <1>2, <1>3, <1>4, <1>5, <1>6, RequestsStill

LEMMA HostsRequestsKept ==
  ASSUME Shape, RequestsWired, PeersWired, InboxOK',
         HostStep \/ \E m \in Masters : AttachCommit(m)
  PROVE  RequestsWired' /\ PeersWired'
<1>0. TableType /\ HandOK /\ HostsType /\ budget \in Bounds /\ InboxOK
  BY DEF Shape
<1>1. ASSUME NEW m \in Masters, NEW f, Emit(m, f), f.kind # "req", UNCHANGED <<table, tasks, origin>>,
             budget'.made = budget.made,
             \A p \in Peers : /\ <<"sent", p>> \in said' <=> <<"sent", p>> \in said
                              /\ <<"req", p>> \in said' <=> <<"req", p>> \in said
      PROVE  RequestsWired' /\ PeersWired'
  <2>1. \A k \in Masters : \A i \in DOMAIN inbox'[k] : inbox'[k][i].kind = "req" =>
          \E j \in DOMAIN inbox[k] : inbox[k][j] = inbox'[k][i]
    <3>1. ASSUME NEW k \in Masters, NEW i \in DOMAIN inbox'[k], inbox'[k][i].kind = "req"
          PROVE  \E j \in DOMAIN inbox[k] : inbox[k][j] = inbox'[k][i]
      BY <1>0, <1>1, <3>1, EmittedLast
    <3> QED
      BY <3>1
  <2> QED
    BY <1>0, <1>1, <2>1, RequestsStill DEF table, tasks, Live
<1>2. \A k, r : Frame(k, r).kind = k /\ Frame(k, r).req = r
  BY DEF Frame
<1>3. ASSUME NEW m \in Masters, NEW r \in Requests, EmitData(m, r) \/ EmitTerminal(m, r)
      PROVE  RequestsWired' /\ PeersWired'
  <2>1. PICK k \in {"data", "end", "err"} : Emit(m, Frame(k, r))
    BY <1>3 DEF EmitData, EmitTerminal
  <2> QED
    BY <1>1, <1>2, <1>3, <2>1 DEF EmitData, EmitTerminal
<1>4. ASSUME NEW m \in Masters, NEW r \in Peers, EmitContinuation(m, r)
      PROVE  RequestsWired' /\ PeersWired'
  <2>1. PICK k \in {"cont", "cancel"} : Emit(m, Frame(k, r))
    BY <1>4 DEF EmitContinuation
  <2> QED
    BY <1>1, <1>2, <1>4, <2>1 DEF EmitContinuation
<1>5. ASSUME NEW m \in Masters, NEW caps \in BOOLEAN, EmitNotify(m, caps)
      PROVE  RequestsWired' /\ PeersWired'
  <2>1. [Frame("notify", CHOOSE r \in Requests : TRUE) EXCEPT !.caps = caps].kind # "req"
    BY DEF Frame
  <2> QED
    BY <1>0, <1>1, <1>5, <2>1 DEF EmitNotify, Bounds
<1>6. ASSUME NEW m \in Masters, Break(m)
      PROVE  RequestsWired' /\ PeersWired'
  BY <1>0, <1>1, <1>2, <1>6 DEF Break, Bounds
<1>7. ASSUME NEW m \in Masters, AttachCommit(m)
      PROVE  RequestsWired' /\ PeersWired'
  <2>1. \A k \in Masters : \A i \in DOMAIN inbox'[k] :
          \E j \in DOMAIN inbox[k] : inbox[k][j] = inbox'[k][i]
    <3>1. ASSUME NEW k \in Masters, NEW i \in DOMAIN inbox'[k]
          PROVE  \E j \in DOMAIN inbox[k] : inbox[k][j] = inbox'[k][i]
      BY <1>0, <1>7, <3>1, PrefixOf
    <3> QED
      BY <3>1
  <2> QED
    BY <1>0, <1>7, <2>1, RequestsStill DEF AttachCommit, table, tasks, Live
<1>8. ASSUME NEW m \in Masters, NEW r \in Peers, EmitPeerReq(m, r)
      PROVE  RequestsWired' /\ PeersWired'
  <2>1. /\ UNCHANGED <<phase, dest, hand, probing, budget>> /\ Emit(m, Frame("req", r))
        /\ said' = said \cup {<<"req", r>>} /\ <<"req", r>> \notin said /\ r \in budget.made
        /\ \A p \in Peers \ {r} : origin'[p] = origin[p]
    BY <1>8, <1>0 DEF EmitPeerReq, table, tasks, HostsType
  <2>2. RequestsWired'
    <3>1. hand.at = "forward" => hand.req \in Peers
      BY <1>0 DEF HandOK
    <3>2. hand.at = "forward" => hand.req # r
      BY <3>1, <2>1 DEF RequestsWired, PeersWired
    <3> QED
      BY <2>1, <3>1, <3>2 DEF RequestsWired, Live
  <2>3. ASSUME NEW k \in Masters, NEW i \in DOMAIN inbox'[k], inbox'[k][i].kind = "req"
        PROVE  <<"req", inbox'[k][i].req>> \in said'
    BY <1>0, <1>2, <2>1, <2>3, EmittedLast DEF PeersWired
  <2>4. PeersWired'
    BY <2>1, <2>3 DEF PeersWired
  <2> QED
    BY <2>2, <2>4
<1> QED
  BY <1>3, <1>4, <1>5, <1>6, <1>7, <1>8 DEF HostStep

LEMMA PumpRequestsKept ==
  ASSUME Shape, RequestsWired, PeersWired, PumpStep, InboxOK'
  PROVE  RequestsWired' /\ PeersWired'
<1>0. TableType /\ HandOK /\ HostsType /\ InboxOK /\ TasksType
  BY DEF Shape
<1>00. NoHand.at = "idle"
  BY Fillers
<1>1. UNCHANGED <<origin, probing, budget>>
  BY DEF PumpStep, PumpDeliver, PumpForward, PumpRegister, PumpSend, PumpUnsent, PumpRelay,
         PumpUpdate, PumpHoldBack, PumpQueueProbe, TakeResponse, TakeReq, TakeContinuation, TakeNotify,
         TakeEof, tasks, hosts
<1>2. ASSUME hand'.at \notin {"register", "send", "unsent", "forward"},
             UNCHANGED <<said, dest>>, \A m \in Masters : \A i \in DOMAIN inbox'[m] :
               \E j \in DOMAIN inbox[m] : inbox[m][j] = inbox'[m][i],
             phase' = phase \/ \E r, kind : kind \in TerminalKinds /\ Terminate(r, kind)
      PROVE  RequestsWired' /\ PeersWired'
  <2>1. (\A p \in Peers : phase'[p] # "new" <=> phase[p] # "new") /\ Live' \subseteq Live
    BY <1>0, <1>2, EndedOnly DEF Live, Requests
  <2>2. RequestsWired'
    BY <1>1, <1>2, <2>1 DEF RequestsWired
  <2>3. ASSUME NEW m \in Masters, NEW i \in DOMAIN inbox'[m], inbox'[m][i].kind = "req"
        PROVE  <<"req", inbox'[m][i].req>> \in said'
    <3>1. PICK j \in DOMAIN inbox[m] : inbox[m][j] = inbox'[m][i]
      BY <1>2
    <3> QED
      BY <1>2, <2>3, <3>1 DEF PeersWired
  <2>4. PeersWired'
    BY <1>1, <1>2, <2>1, <2>3 DEF PeersWired
  <2> QED
    BY <2>2, <2>4
<1>3. CASE PumpDeliver \/ PumpForward \/ PumpUnsent \/ PumpRelay \/ PumpQueueProbe
  <2>1. hand' = NoHand /\ UNCHANGED <<said, dest, inbox>>
    BY <1>3 DEF PumpDeliver, PumpForward, PumpUnsent, PumpRelay, PumpQueueProbe, table, hosts
  <2>2. phase' = phase \/ Terminate(hand.req, "master_died")
    BY <1>3 DEF PumpDeliver, PumpForward, PumpUnsent, PumpRelay, PumpQueueProbe, table
  <2> QED
    BY <1>2, <1>00, <2>1, <2>2 DEF TerminalKinds
<1>4. CASE PumpRegister
  <2>1. /\ hand.req \in Peers /\ hand.at = "register" /\ hand' = [hand EXCEPT !.at = "send"]
        /\ phase[hand.req] = "new" /\ UNCHANGED <<said, inbox>>
        /\ phase' = [phase EXCEPT ![hand.req] = "live"] /\ dest' = [dest EXCEPT ![hand.req] = hand.to]
    BY <1>4, <1>0 DEF PumpRegister, HandOK, Register, hosts
  <2>2. /\ hand' \in Hands /\ hand'.at = "send" /\ hand'.req = hand.req /\ hand'.to = hand.to
    BY <2>1, <1>0 DEF TasksType, Hands
  <2>3. hand.req \in Requests /\ hand.req \notin Probes
    BY <2>1, ConstantsAssumption DEF Requests
  <2>4. /\ phase'[hand.req] = "live" /\ dest'[hand.req] = hand.to
        /\ \A x \in Requests : x # hand.req => phase'[x] = phase[x]
    BY <1>0, <2>1, <2>3 DEF TableType
  <2>5. RequestsWired'
    BY <1>1, <2>1, <2>2, <2>3, <2>4 DEF RequestsWired, PeersWired, Live
  <2>6. PeersWired'
    BY <1>1, <2>1, <2>2, <2>4 DEF PeersWired, Requests
  <2> QED
    BY <2>5, <2>6
<1>5. CASE PumpSend
  <2>1. /\ hand.req \in Peers /\ hand.at = "send" /\ UNCHANGED <<table, inbox>>
        /\ \/ hand'.at = "idle" /\ said' = said \cup {<<"sent", hand.req>>}
           \/ hand' = [hand EXCEPT !.at = "unsent"] /\ said' = said
    BY <1>5, <1>0, <1>00 DEF PumpSend, HandOK, Receive
  <2>2. hand' = [hand EXCEPT !.at = "unsent"] =>
          hand'.at = "unsent" /\ hand'.req = hand.req /\ hand'.to = hand.to
    BY <1>0 DEF TasksType, Hands
  <2>3. RequestsWired'
    BY <1>1, <2>1, <2>2 DEF RequestsWired, table, Live
  <2>4. PeersWired'
    BY <1>1, <2>1, <2>2 DEF PeersWired, RequestsWired, table
  <2> QED
    BY <2>3, <2>4
<1>6. ASSUME NEW m \in Masters,
             TakeResponse(m) \/ TakeReq(m) \/ TakeContinuation(m) \/ TakeNotify(m) \/ TakeEof(m)
      PROVE  RequestsWired' /\ PeersWired'
  <2> DEFINE f == Head(inbox[m])
  <2>1. /\ f \in Frames /\ f.req \in Requests
        /\ f.kind = "req" => f.req \in Peers
        /\ 1 \in DOMAIN inbox[m] /\ f = inbox[m][1]
        /\ hand.at = "idle" /\ UNCHANGED <<said, dest>>
        /\ \A k \in Masters : \A i \in DOMAIN inbox'[k] :
             \E j \in DOMAIN inbox[k] : inbox[k][j] = inbox'[k][i]
    BY <1>6, <1>0, Taken, TailOf, RestWasThere
    DEF TakeResponse, TakeReq, TakeContinuation, TakeNotify, TakeEof, PumpFree, Frames, table, hosts
  <2> HIDE DEF f
  <2>2. CASE TakeContinuation(m) \/ TakeNotify(m) \/ TakeEof(m)
    <3>1. phase' = phase /\ hand'.at \in {"idle", "relay", "update"}
      BY <2>1, <2>2 DEF TakeContinuation, TakeNotify, TakeEof, table, tasks, Holding
    <3> QED
      BY <1>2, <2>1, <3>1
  <2>3. CASE TakeResponse(m) /\ ~(f.req \in Live /\ f.req \notin Channelled)
    <3>1. phase' = phase \/ \E kind \in TerminalKinds : Terminate(f.req, kind)
      BY <2>3 DEF TakeResponse, f, IsTerminal, TerminalKinds
    <3>2. hand'.at \in {"idle", "deliver"}
      BY <2>1, <2>3 DEF TakeResponse, f, Holding
    <3> QED
      BY <1>2, <2>1, <3>1, <3>2
  <2>4. CASE TakeResponse(m) /\ f.req \in Live /\ f.req \notin Channelled
    <3>1. phase' = phase \/ \E kind \in TerminalKinds : Terminate(f.req, kind)
      BY <2>4 DEF TakeResponse, f, IsTerminal, TerminalKinds
    <3>2. hand'.at = "forward" /\ hand'.req = f.req /\ hand'.to = origin[f.req]
      BY <2>4 DEF TakeResponse, f, Holding
    <3>3. (\A x \in Requests : phase'[x] # "new" <=> phase[x] # "new") /\ Live' \subseteq Live
      BY <1>0, <3>1, EndedOnly DEF Live
    <3>4. phase[f.req] # "new"
      BY <2>4 DEF Live
    <3>5. RequestsWired'
      BY <1>1, <2>1, <3>2, <3>3, <3>4 DEF RequestsWired
    <3>6. ASSUME NEW k \in Masters, NEW i \in DOMAIN inbox'[k], inbox'[k][i].kind = "req"
          PROVE  <<"req", inbox'[k][i].req>> \in said'
      <4>1. PICK j \in DOMAIN inbox[k] : inbox[k][j] = inbox'[k][i]
        BY <2>1
      <4> QED
        BY <2>1, <3>6, <4>1 DEF PeersWired
    <3>7. PeersWired'
      BY <1>1, <2>1, <3>2, <3>3, <3>6 DEF PeersWired, Requests
    <3> QED
      BY <3>5, <3>7
  <2>5. CASE TakeReq(m)
    <3>1. phase' = phase /\ f.kind = "req"
          /\ (hand' = hand \/ (hand'.at = "register" /\ hand'.req = f.req))
      BY <2>5 DEF TakeReq, table, f, Holding
    <3>2. RequestsWired'
      BY <1>1, <2>1, <3>1 DEF RequestsWired, Live
    <3>3. ASSUME NEW k \in Masters, NEW i \in DOMAIN inbox'[k], inbox'[k][i].kind = "req"
          PROVE  <<"req", inbox'[k][i].req>> \in said'
      <4>1. PICK j \in DOMAIN inbox[k] : inbox[k][j] = inbox'[k][i]
        BY <2>1
      <4> QED
        BY <2>1, <3>3, <4>1 DEF PeersWired
    <3>4. PeersWired'
      BY <1>1, <2>1, <3>1, <3>3 DEF PeersWired
    <3> QED
      BY <3>2, <3>4
  <2> QED
    BY <1>6, <2>2, <2>3, <2>4, <2>5
<1>7. CASE PumpUpdate \/ PumpHoldBack
  <2>1. hand'.at \in {"updated", "rebuilt", "idle"} /\ UNCHANGED <<said, dest, inbox, phase>>
    BY <1>0, <1>00, <1>7 DEF PumpUpdate, PumpHoldBack, TasksType, Hands, table, hosts
  <2> QED
    BY <1>2, <2>1
<1> QED
  BY <1>3, <1>4, <1>5, <1>6, <1>7 DEF PumpStep

LEMMA ProbesRequestsKept ==
  ASSUME Shape, RequestsWired, PeersWired, ProbeStep, InboxOK'
  PROVE  RequestsWired' /\ PeersWired'
<1>0. TableType /\ HandOK /\ HostsType /\ InboxOK /\ TasksType /\ ProbeOK
  BY DEF Shape
<1>1. /\ UNCHANGED <<origin, hand, budget, inbox>>
      /\ \A p \in Peers : /\ phase'[p] # "new" <=> phase[p] # "new"
                          /\ dest'[p] = dest[p]
                          /\ <<"sent", p>> \in said' <=> <<"sent", p>> \in said
                          /\ <<"req", p>> \in said' <=> <<"req", p>> \in said
  <2>1. UNCHANGED <<origin, hand, budget, inbox>>
    BY DEF ProbeStep, ProbeStart, ProbeWrite, ProbeAnswered, ProbeEnd, ProbeMark, hosts
  <2>2. \A p \in Peers : p \in Requests /\ p \notin Probes
    BY ConstantsAssumption DEF Requests
  <2>3. ASSUME NEW r \in Probes, ProbeStart(r)
        PROVE  \A p \in Peers : phase'[p] = phase[p] /\ dest'[p] = dest[p]
    BY <1>0, <2>2, <2>3 DEF ProbeStart, Register, TableType
  <2>4. CASE ProbeEnd
    <3>1. \E kind \in TerminalKinds : Terminate(probing.req, kind)
      BY <2>4 DEF ProbeEnd, TerminalKinds
    <3> QED
      BY <1>0, <2>1, <2>2, <2>4, <3>1, EndedOnly DEF ProbeEnd, hosts
  <2>5. ASSUME NEW r \in Probes, ProbeStart(r) PROVE UNCHANGED said
    BY <2>5 DEF ProbeStart, hosts
  <2>6. CASE ProbeWrite
    BY <1>0, <2>1, <2>2, <2>6 DEF ProbeWrite, table, Receive, ProbeOK
  <2>7. CASE ProbeAnswered \/ ProbeMark
    BY <2>1, <2>7 DEF ProbeAnswered, ProbeMark, table, hosts
  <2> QED
    BY <2>1, <2>3, <2>4, <2>5, <2>6, <2>7 DEF ProbeStep
<1>2. \A v \in Probes \cap Live' : probing'.at \in {"write", "wait", "end"} /\ probing'.req = v
  <2>1. ASSUME NEW r \in Probes, ProbeStart(r), NEW v \in Probes \cap Live'
        PROVE  probing'.at = "write" /\ probing'.req = v
    <3>1. r \in Requests /\ v \in Requests
      BY DEF Requests
    <3>2. v = r \/ v \in Live
      BY <1>0, <2>1, <3>1 DEF ProbeStart, Register, Live, TableType
    <3> QED
      BY <2>1, <3>2 DEF ProbeStart, RequestsWired
  <2>2. CASE ProbeEnd
    <3>1. \E kind \in TerminalKinds : Terminate(probing.req, kind)
      BY <2>2 DEF ProbeEnd, TerminalKinds
    <3>2. Live' \subseteq Live /\ probing.req \notin Live'
      BY <1>0, <3>1, EndedOnly
    <3> QED
      BY <3>2 DEF RequestsWired
  <2>3. CASE ProbeWrite \/ ProbeAnswered
    <3>1. Live' = Live /\ probing.at \in {"write", "wait"}
      BY <2>3 DEF ProbeWrite, ProbeAnswered, table, Live
    <3>2. probing'.at \in {"wait", "end"} /\ probing'.req = probing.req
      BY <2>3, <1>0 DEF ProbeWrite, ProbeAnswered, TasksType, ProbeStates
    <3> QED
      BY <3>1, <3>2 DEF RequestsWired
  <2>4. CASE ProbeMark
    BY <2>4 DEF ProbeMark, table, Live, RequestsWired
  <2> QED
    BY <2>1, <2>2, <2>3, <2>4 DEF ProbeStep
<1>3. \A x : hand.at \in {"send", "unsent", "forward", "register"} => hand.req \in Peers
  BY <1>0 DEF HandOK
<1>4. RequestsWired'
  BY <1>1, <1>2, <1>3 DEF RequestsWired
<1>5. PeersWired'
  <2>1. ASSUME NEW m \in Masters, NEW i \in DOMAIN inbox[m], inbox[m][i].kind = "req"
        PROVE  inbox[m][i].req \in Peers
    BY <2>1, <1>0 DEF InboxOK
  <2> QED
    BY <1>1, <1>3, <2>1 DEF PeersWired
<1> QED
  BY <1>4, <1>5

LEMMA WiringInit == Init => Wiring
<1> SUFFICES ASSUME Init PROVE Wiring
  OBVIOUS
<1>1. CallsWired
  BY Fillers DEF Init, CallsWired
<1>2. RequestsWired
  BY Fillers DEF Init, RequestsWired, Live
<1>3. PeersWired
  BY Fillers DEF Init, PeersWired, Requests
<1> QED
  BY <1>1, <1>2, <1>3 DEF Wiring

LEMMA WiringNext == Shape /\ Wiring /\ [Next]_vars => Wiring'
<1> SUFFICES ASSUME Shape, Wiring, [Next]_vars PROVE Wiring'
  OBVIOUS
<1>0. Shape' /\ InboxOK' /\ HandOK /\ RequestsWired /\ PeersWired
  BY ShapeNext DEF Shape, Wiring
<1>1. CallsWired'
  BY CallsWiredKept DEF Wiring
<1>2. CASE Next
  <2>1. RequestsWired' /\ PeersWired'
    BY <1>0, <1>2, CallsRequestsKept, CallersRequestsKept, HostsRequestsKept, PumpRequestsKept,
       ProbesRequestsKept DEF Next
  <2> QED
    BY <1>1, <2>1 DEF Wiring
<1>3. CASE UNCHANGED vars
  BY <1>0, <1>1, <1>3, RequestsStill DEF vars, table, hosts, tasks, Wiring, Live
<1> QED
  BY <1>2, <1>3

(***************************************************************************)
(* Without updates, a connection that broke stays broken until its master  *)
(* reattaches, and a master that works is in service until it dies.        *)
(***************************************************************************)

\* The updates the inbox of m holds; and that the end of its connection is not
\* in it.
Waiting(m) == {i \in DOMAIN inbox[m] : inbox[m][i].kind = "notify"}
NoEof(m) == \A i \in DOMAIN inbox[m] : inbox[m][i].kind # "eof"

\* Without updates nothing is held back or probed.
Updating == {"update", "updated", "rebuilt"}
NothingProbed ==
  /\ NoUpdates(budget)
  /\ \A m \in Masters : Waiting(m) = {}
  /\ hand.at \notin Updating /\ probeQueue = <<>> /\ probing.at = "idle"

\* No master reattaches, no death is handled but that of a broken connection,
\* and so every master that works is in service.
NoReturn == attaching = {} /\ budget.attach = 0
GoneStays ==
  /\ \A t \in Tasks : death[t].at # "idle" => death[t].master \notin up
  /\ \A m \in up : NoEof(m)
NoneOutOfService == NoReturn /\ NothingProbed /\ GoneStays /\ up \subseteq healthy

\* With one death to come, and no update, nothing has happened yet.
FirstDeath ==
  /\ budget.deaths <= 1
  /\ budget.deaths = 1 =>
       /\ up = Masters /\ healthy = Masters /\ attaching = {}
       /\ \A t \in Tasks : death[t].at = "idle"
       /\ \A m \in Masters : NoEof(m)

\* The updates of a master come and are taken; nothing else touches them.
LEMMA InboxMoves ==
  ASSUME Shape, Next
  PROVE  \/ UNCHANGED inbox /\ budget'.notify = budget.notify
         \/ \E m \in Masters :
              /\ inbox[m] # <<>> /\ Take(m) /\ budget' = budget
              /\ Head(inbox[m]).kind = "notify" <=> TakeNotify(m)
              /\ Head(inbox[m]).kind = "eof" <=> TakeEof(m)
         \/ \E m \in Masters, r \in Requests, k \in Kinds \ {"notify", "eof"} :
              Emit(m, Frame(k, r)) /\ budget' = budget
         \/ \E m \in Masters, caps \in BOOLEAN : EmitNotify(m, caps)
         \/ \E m \in Masters : Break(m) \/ AttachCommit(m)
<1>0. budget \in Bounds
  BY DEF Shape
<1>1. ASSUME NEW t \in Tasks, CallStep(t)
      PROVE  UNCHANGED inbox /\ budget'.notify = budget.notify
  BY <1>1 DEF CallStep, DeathStep, MarkUnhealthy, SnapshotDeadKeys, SweepDone, SweepDeadKey, RebuildStep,
         ReadHealth, ReadCaps, WriteCapTable, CancelStep, CancelTerminate, CancelWrite, CancelAnswer, hosts
<1>2. ASSUME \/ StopAll
             \/ \E e \in Externals : CallerStep(e) \/ DropReceiver(e) \/ Stop(e) \/ StopFeeds(e)
             \/ \E m \in Masters : AttachBegin(m)
      PROVE  UNCHANGED inbox /\ budget'.notify = budget.notify
  BY <1>0, <1>2 DEF StopAll, Stop, StopFeeds, DropReceiver, CallerStep, Route, Admit, AdmitRefused,
         RegisterExternal, WriteReq, GiveUp, LookUpBody, WriteBody, AttachBegin, hosts, Bounds
<1>3. CASE PumpDeliver \/ PumpForward \/ PumpRegister \/ PumpSend \/ PumpUnsent \/ PumpRelay
             \/ PumpUpdate \/ PumpHoldBack \/ PumpQueueProbe \/ ProbeStep
  BY <1>3 DEF PumpDeliver, PumpForward, PumpRegister, PumpSend, PumpUnsent, PumpRelay,
         PumpUpdate, PumpHoldBack, PumpQueueProbe, ProbeStep, ProbeStart, ProbeWrite, ProbeAnswered,
         ProbeEnd, ProbeMark, hosts
<1>4. ASSUME NEW m \in Masters,
             TakeResponse(m) \/ TakeReq(m) \/ TakeContinuation(m) \/ TakeNotify(m) \/ TakeEof(m)
      PROVE  /\ inbox[m] # <<>> /\ Take(m) /\ budget' = budget
             /\ Head(inbox[m]).kind = "notify" <=> TakeNotify(m)
             /\ Head(inbox[m]).kind = "eof" <=> TakeEof(m)
  BY <1>4 DEF TakeResponse, TakeReq, TakeContinuation, TakeNotify, TakeEof
<1>5. ASSUME NEW m \in Masters, NEW r \in Requests, EmitData(m, r) \/ EmitTerminal(m, r)
      PROVE  \E k \in Kinds \ {"notify", "eof"} : Emit(m, Frame(k, r)) /\ budget' = budget
  BY <1>5 DEF EmitData, EmitTerminal, Kinds
<1>6. ASSUME NEW m \in Masters, NEW r \in Peers, EmitPeerReq(m, r) \/ EmitContinuation(m, r)
      PROVE  r \in Requests /\ \E k \in Kinds \ {"notify", "eof"} : Emit(m, Frame(k, r)) /\ budget' = budget
  BY <1>6 DEF EmitPeerReq, EmitContinuation, Kinds, Requests
<1>7. CASE PumpStep
  BY <1>3, <1>4, <1>7 DEF PumpStep
<1>8. CASE HostStep
  BY <1>5, <1>6, <1>8 DEF HostStep
<1> QED
  BY <1>1, <1>2, <1>3, <1>7, <1>8 DEF Next

\* The death of a master starts where a write to it fails or its end is read.
LEMMA DeathMoves ==
  ASSUME Shape, Next
  PROVE  \A t \in Tasks :
           \/ death'[t] = death[t]
           \/ /\ death'[t].at = "mark" /\ death'[t].master \in Masters
              /\ death'[t].master \notin up \/ (t = "eof" /\ TakeEof(death'[t].master))
           \/ /\ death[t].at # "idle"
              /\ death'[t].at = "idle" \/ death'[t].master = death[t].master
<1>0. CallsType /\ TasksType /\ TableType
  BY DEF Shape
<1>00. /\ \A t \in Tasks : death[t] \in Deaths
       /\ NoDeath.at = "idle"
       /\ \A m \in Masters : LET d == [NoDeath EXCEPT !.at = "mark", !.master = m]
                             IN  d.at = "mark" /\ d.master = m
  BY <1>0, Fillers DEF CallsType, Deaths
<1>1. ASSUME NEW u \in Tasks, NEW m \in Masters, MasterDies(u, m),
             m \notin up \/ (u = "eof" /\ TakeEof(m)), NEW t \in Tasks
      PROVE  \/ death'[t] = death[t]
             \/ /\ death'[t].at = "mark" /\ death'[t].master \in Masters
                /\ death'[t].master \notin up \/ (t = "eof" /\ TakeEof(death'[t].master))
  BY <1>1, <1>0, <1>00 DEF MasterDies, CallsType
<1>2. ASSUME NEW u \in Tasks, DeathStep(u), NEW t \in Tasks
      PROVE  \/ death'[t] = death[t]
             \/ /\ death[t].at # "idle"
                /\ death'[t].at = "idle" \/ death'[t].master = death[t].master
  BY <1>2, <1>0, <1>00 DEF DeathStep, MarkUnhealthy, SnapshotDeadKeys, SweepDone, SweepDeadKey, CallsType,
     Deaths
<1>3. ASSUME NEW u \in Tasks, RebuildStep(u) \/ CancelTerminate(u) \/ CancelAnswer(u)
      PROVE  UNCHANGED death
  BY <1>3 DEF RebuildStep, ReadHealth, ReadCaps, WriteCapTable, CancelTerminate, CancelAnswer
<1>4. ASSUME NEW u \in Tasks, CancelWrite(u)
      PROVE  UNCHANGED death \/ \E m \in Masters : MasterDies(u, m) /\ m \notin up
  <2>1. Head(cancel[u]).req \in Requests
    <3>1. cancel[u] \in Seq(Works) /\ cancel[u] # <<>>
      BY <1>0, <1>4 DEF CallsType, CancelWrite, InCancel
    <3>2. Head(cancel[u]) \in Works
      BY <3>1
    <3> QED
      BY <3>2 DEF Works
  <2>2. dest[Head(cancel[u]).req] \in Masters
    BY <1>0, <2>1 DEF TableType
  <2> QED
    BY <1>4, <2>2 DEF CancelWrite
<1>5. ASSUME NEW e \in Externals, CallerStep(e)
      PROVE  UNCHANGED death \/ \E m \in Masters : MasterDies(e, m) /\ m \notin up
  <2>1. dest[e] \in Masters
    BY <1>0 DEF TableType, Requests
  <2> QED
    BY <1>5, <2>1 DEF CallerStep, Route, Admit, AdmitRefused, RegisterExternal, WriteReq, GiveUp,
                      LookUpBody,
       WriteBody, calls
<1>6. CASE PumpStep
  <2>1. hand.to \in Masters
    BY <1>0 DEF TasksType, Hands
  <2>2. CASE PumpDeliver \/ PumpForward \/ PumpRegister \/ PumpSend \/ PumpUnsent \/ PumpRelay
             \/ PumpUpdate \/ PumpHoldBack \/ PumpQueueProbe
    <3>1. UNCHANGED death \/ (MasterDies("pump", hand.to) /\ hand.to \notin up)
      BY <2>2 DEF PumpDeliver, PumpForward, PumpRegister, PumpSend, PumpUnsent, PumpRelay,
         PumpUpdate, PumpHoldBack, PumpQueueProbe, calls
    <3> QED
      BY <1>1, <2>1, <3>1
  <2>3. ASSUME NEW m \in Masters, TakeResponse(m) \/ TakeReq(m) \/ TakeContinuation(m) \/ TakeNotify(m)
        PROVE  UNCHANGED death
    BY <2>3 DEF TakeResponse, TakeReq, TakeContinuation, TakeNotify, calls
  <2>4. ASSUME NEW m \in Masters, TakeEof(m) PROVE MasterDies("eof", m)
    BY <2>4 DEF TakeEof
  <2> QED
    BY <1>1, <1>6, <2>2, <2>3, <2>4 DEF PumpStep
<1>7. CASE ProbeStep
  <2>1. probing.master \in Masters
    BY <1>0 DEF TasksType, ProbeStates
  <2>2. UNCHANGED death \/ (MasterDies("probe", probing.master) /\ probing.master \notin up)
    BY <1>7 DEF ProbeStep, ProbeStart, ProbeWrite, ProbeAnswered, ProbeEnd, ProbeMark, calls
  <2> QED
    BY <1>1, <2>1, <2>2
<1>8. ASSUME \/ StopAll \/ HostStep
             \/ \E e \in Externals : DropReceiver(e) \/ Stop(e) \/ StopFeeds(e)
             \/ \E m \in Masters : AttachBegin(m) \/ AttachCommit(m)
      PROVE  UNCHANGED death
  BY <1>8 DEF StopAll, Stop, StopFeeds, DropReceiver, AttachBegin, AttachCommit, calls,
         HostStep, EmitData, EmitTerminal, EmitPeerReq, EmitContinuation, EmitNotify, Break
<1>9. ASSUME NEW u \in Tasks, CallStep(u), NEW t \in Tasks
      PROVE  \/ death'[t] = death[t]
             \/ /\ death'[t].at = "mark" /\ death'[t].master \in Masters
                /\ death'[t].master \notin up
             \/ /\ death[t].at # "idle"
                /\ death'[t].at = "idle" \/ death'[t].master = death[t].master
  <2>1. CASE DeathStep(u)
    BY <1>2, <2>1
  <2>2. CASE UNCHANGED death
    BY <2>2
  <2>3. CASE \E m \in Masters : MasterDies(u, m) /\ m \notin up
    BY <2>3, <1>0, <1>00 DEF MasterDies, CallsType
  <2> QED
    BY <1>3, <1>4, <1>9, <2>1, <2>2, <2>3 DEF CallStep, CancelStep
<1>10. ASSUME NEW e \in Externals, CallerStep(e), NEW t \in Tasks
       PROVE  \/ death'[t] = death[t]
              \/ /\ death'[t].at = "mark" /\ death'[t].master \in Masters
                 /\ death'[t].master \notin up
  <2>1. CASE UNCHANGED death
    BY <2>1
  <2>2. CASE \E m \in Masters : MasterDies(e, m) /\ m \notin up
    BY <2>2, <1>0, <1>00 DEF MasterDies, CallsType
  <2> QED
    BY <1>5, <1>10, <2>1, <2>2
<1> QED
  BY <1>6, <1>7, <1>8, <1>9, <1>10 DEF Next

\* Where the end of a connection may newly be, and that it is read once.
LEMMA EofMoves ==
  ASSUME Shape, Next
  PROVE  \A m \in Masters :
           /\ NoEof(m) => NoEof(m)' \/ Break(m)
           /\ TakeEof(m) => ~NoEof(m)
           /\ ~NoEof(m) => ~NoEof(m)' \/ TakeEof(m) \/ AttachCommit(m)
<1>0. HostsType
  BY DEF Shape
<1>1. ASSUME NEW m \in Masters, TakeEof(m) PROVE ~NoEof(m)
  BY <1>0, <1>1, TailOf DEF TakeEof, NoEof
<1>2. CASE UNCHANGED inbox
  BY <1>1, <1>2 DEF NoEof
<1>3. ASSUME NEW m \in Masters, inbox[m] # <<>>, Take(m), Head(inbox[m]).kind = "eof" <=> TakeEof(m),
             NEW k \in Masters
      PROVE  (NoEof(k) => NoEof(k)') /\ (~NoEof(k) => ~NoEof(k)' \/ TakeEof(k))
  <2>1. CASE k # m
    BY <1>0, <1>3, <2>1, TailOf DEF NoEof
  <2>2. CASE k = m
    <3>1. NoEof(m) => NoEof(m)'
      BY <1>0, <1>3, TailOf DEF NoEof
    <3>2. ASSUME NEW i \in DOMAIN inbox[m], inbox[m][i].kind = "eof", Head(inbox[m]).kind # "eof"
          PROVE  ~NoEof(m)'
      <4>1. inbox[m] \in Seq(Frames) /\ inbox'[m] = Tail(inbox[m])
        BY <1>0, <1>3 DEF Take, HostsType
      <4>2. i # 1 /\ i \in Nat /\ i # 0
        BY <4>1, <3>2
      <4>3. i - 1 \in DOMAIN inbox'[m] /\ inbox'[m][i - 1] = inbox[m][i]
        BY <4>1, <4>2
      <4> QED
        BY <3>2, <4>3 DEF NoEof
    <3> QED
      BY <1>3, <2>2, <3>1, <3>2 DEF NoEof
  <2> QED
    BY <2>1, <2>2
<1>4. ASSUME NEW m \in Masters, NEW f, Emit(m, f), NEW k \in Masters
      PROVE  /\ ~NoEof(k) => ~NoEof(k)'
             /\ NoEof(k) /\ f.kind # "eof" => NoEof(k)'
             /\ NoEof(k) /\ k # m => NoEof(k)'
  <2>1. CASE k = m
    BY <1>0, <1>4, <2>1, EmittedLast DEF NoEof
  <2>2. CASE k # m
    BY <1>0, <1>4, <2>2, EmittedLast DEF NoEof
  <2> QED
    BY <2>1, <2>2
<1>5. ASSUME NEW m \in Masters, NEW r \in Requests, NEW k \in Kinds \ {"notify", "eof"}
      PROVE  Frame(k, r).kind # "eof"
  BY DEF Frame
<1>6. ASSUME NEW m \in Masters, NEW caps \in BOOLEAN, EmitNotify(m, caps)
      PROVE  \E f : Emit(m, f) /\ f.kind # "eof"
  <2> DEFINE f == [Frame("notify", CHOOSE r \in Requests : TRUE) EXCEPT !.caps = caps]
  <2>1. Emit(m, f) /\ f.kind # "eof"
    BY <1>6 DEF EmitNotify, Frame
  <2> QED
    BY <2>1
<1>7. ASSUME NEW m \in Masters, Break(m)
      PROVE  \E f : Emit(m, f)
  BY <1>7 DEF Break
<1>8. ASSUME NEW m \in Masters, AttachCommit(m), NEW k \in Masters
      PROVE  (NoEof(k) => NoEof(k)') /\ (~NoEof(k) => ~NoEof(k)' \/ AttachCommit(k))
  <2>1. CASE k = m
    BY <1>0, <1>8, <2>1, PrefixOf DEF NoEof
  <2>2. CASE k # m
    BY <1>0, <1>8, <2>2, PrefixOf DEF NoEof
  <2> QED
    BY <2>1, <2>2
<1> QED
  BY <1>1, <1>2, <1>3, <1>4, <1>5, <1>6, <1>7, <1>8, InboxMoves

LEMMA NothingProbedInit ==
  ASSUME Init, NoUpdates(budget)
  PROVE  NothingProbed
<1>1. \A m \in Masters : Waiting(m) = {}
  BY DEF Init, Waiting
<1> QED
  BY <1>1, Fillers DEF Init, NothingProbed, Updating

\* Without an update none of the steps that follow one is taken.
LEMMA NothingToProbe ==
  ASSUME Shape, NothingProbed
  PROVE  /\ \A m \in Masters : ~TakeNotify(m)
         /\ ~PumpUpdate /\ ~PumpHoldBack /\ ~PumpQueueProbe /\ ~ProbeStep
<1>0. HostsType
  BY DEF Shape
<1>1. ASSUME NEW m \in Masters, TakeNotify(m) PROVE FALSE
  <2>1. 1 \in Waiting(m)
    BY <1>0, <1>1, TailOf DEF TakeNotify, Waiting
  <2> QED
    BY <2>1 DEF NothingProbed
<1>2. ~PumpUpdate /\ ~PumpHoldBack /\ ~PumpQueueProbe
  BY DEF NothingProbed, Updating, PumpUpdate, PumpHoldBack, PumpQueueProbe
<1>3. ~ProbeStep
  BY DEF NothingProbed, ProbeStep, ProbeStart, ProbeWrite, ProbeAnswered, ProbeEnd, ProbeMark
<1> QED
  BY <1>1, <1>2, <1>3

\* Only these steps move the probe driver, its queue and the pump's update.
LEMMA ProbeMoves ==
  ASSUME Shape, Next, ~PumpUpdate, ~PumpHoldBack, ~PumpQueueProbe, ~ProbeStep,
         \A m \in Masters : ~TakeNotify(m)
  PROVE  /\ UNCHANGED <<probing, probeQueue>>
         /\ hand'.at \in Updating => hand.at \in Updating
<1>0. TasksType
  BY DEF Shape
<1>1. UNCHANGED <<probing, probeQueue>>
  BY DEF Next, CallStep, DeathStep, MarkUnhealthy, SnapshotDeadKeys, SweepDone, SweepDeadKey,
         RebuildStep, ReadHealth, ReadCaps, WriteCapTable, CancelStep, CancelTerminate, CancelWrite,
         CancelAnswer, StopAll, Stop, StopFeeds, DropReceiver, AttachBegin, AttachCommit, tasks,
         HostStep, EmitData, EmitTerminal, EmitPeerReq, EmitContinuation, EmitNotify, Break,
         PumpStep, PumpDeliver, PumpForward, PumpRegister, PumpSend, PumpUnsent, PumpRelay,
         TakeResponse, TakeReq, TakeContinuation, TakeEof,
         CallerStep, Route, Admit, AdmitRefused, RegisterExternal, WriteReq, GiveUp, LookUpBody, WriteBody
<1>2. CASE PumpDeliver \/ PumpForward \/ PumpRegister \/ PumpSend \/ PumpUnsent \/ PumpRelay
  BY <1>0, <1>2, Fillers DEF PumpDeliver, PumpForward, PumpRegister, PumpSend, PumpUnsent, PumpRelay,
     Updating, TasksType, Hands
<1>3. ASSUME NEW m \in Masters, TakeResponse(m) \/ TakeReq(m) \/ TakeContinuation(m) \/ TakeEof(m)
      PROVE  hand' = hand \/ hand'.at \in {"deliver", "forward", "register", "relay"}
  BY <1>3 DEF TakeResponse, TakeReq, TakeContinuation, TakeEof, Holding, tasks
<1>4. CASE PumpStep
  BY <1>1, <1>2, <1>3, <1>4 DEF PumpStep, Updating
<1>5. CASE ~PumpStep
  <2>1. UNCHANGED hand
    BY <1>5 DEF Next, CallStep, DeathStep, MarkUnhealthy, SnapshotDeadKeys, SweepDone, SweepDeadKey,
         RebuildStep, ReadHealth, ReadCaps, WriteCapTable, CancelStep, CancelTerminate, CancelWrite,
         CancelAnswer, StopAll, Stop, StopFeeds, DropReceiver, AttachBegin, AttachCommit, tasks,
         HostStep, EmitData, EmitTerminal, EmitPeerReq, EmitContinuation, EmitNotify, Break,
         CallerStep, Route, Admit, AdmitRefused, RegisterExternal, WriteReq, GiveUp, LookUpBody, WriteBody
  <2> QED
    BY <1>1, <2>1
<1> QED
  BY <1>1, <1>4, <1>5

LEMMA NothingProbedNext ==
  ASSUME Shape, NothingProbed, [Next]_vars
  PROVE  NothingProbed'
<1>0. HostsType /\ budget \in Bounds /\ \A m \in Masters : budget.notify[m] = 0
  BY DEF Shape, NothingProbed, NoUpdates
<1>2. CASE UNCHANGED vars
  <2>1. UNCHANGED <<budget, inbox, hand, probeQueue, probing>>
    BY <1>2 DEF vars, hosts, tasks
  <2> QED
    BY <2>1 DEF NothingProbed, NoUpdates, Waiting
<1>3. CASE Next
  <2>1. hand'.at \notin Updating /\ probeQueue' = <<>> /\ probing'.at = "idle"
    BY <1>3, NothingToProbe, ProbeMoves DEF NothingProbed
  <2>3. ASSUME UNCHANGED inbox, budget'.notify = budget.notify
        PROVE  \A k \in Masters : Waiting(k)' = {} /\ budget'.notify[k] = 0
    BY <1>0, <2>3 DEF Waiting, NothingProbed
  <2>4. ASSUME NEW m \in Masters, inbox[m] # <<>>, Take(m), budget' = budget
        PROVE  \A k \in Masters : Waiting(k)' = {} /\ budget'.notify[k] = 0
    <3>1. \A k \in Masters : \A i \in DOMAIN inbox'[k] : inbox'[k][i].kind # "notify"
      BY <1>0, <2>4, RestWasThere DEF Waiting, NothingProbed
    <3> QED
      BY <1>0, <2>4, <3>1 DEF Waiting
  <2>5. ASSUME NEW m \in Masters, NEW f, Emit(m, f), f.kind # "notify", budget'.notify = budget.notify
        PROVE  \A k \in Masters : Waiting(k)' = {} /\ budget'.notify[k] = 0
    <3>1. ASSUME NEW k \in Masters, NEW i \in DOMAIN inbox'[k] PROVE inbox'[k][i].kind # "notify"
      BY <1>0, <2>5, <3>1, EmittedLast DEF Waiting, NothingProbed
    <3> QED
      BY <1>0, <2>5, <3>1 DEF Waiting
  <2>6. ASSUME NEW m \in Masters, NEW r \in Requests, NEW k \in Kinds \ {"notify", "eof"}
        PROVE  Frame(k, r).kind # "notify"
    BY DEF Frame
  <2>7. ASSUME NEW m \in Masters, Break(m)
        PROVE  \E f : Emit(m, f) /\ f.kind # "notify" /\ budget'.notify = budget.notify
    BY <1>0, <2>7 DEF Break, Frame, Bounds
  <2>8. ASSUME NEW m \in Masters, NEW caps \in BOOLEAN, EmitNotify(m, caps) PROVE FALSE
    BY <1>0, <2>8 DEF EmitNotify
  <2>9. ASSUME NEW m \in Masters, AttachCommit(m)
        PROVE  \A k \in Masters : Waiting(k)' = {} /\ budget'.notify[k] = 0
    <3>1. ASSUME NEW k \in Masters, NEW i \in DOMAIN inbox'[k] PROVE inbox'[k][i].kind # "notify"
      BY <1>0, <2>9, <3>1, PrefixOf DEF Waiting, NothingProbed
    <3>2. budget' = budget
      BY <2>9 DEF AttachCommit
    <3> QED
      BY <1>0, <3>1, <3>2 DEF Waiting
  <2>10. \A k \in Masters : Waiting(k)' = {} /\ budget'.notify[k] = 0
    BY <1>0, <1>3, <2>3, <2>4, <2>5, <2>6, <2>7, <2>8, <2>9, InboxMoves DEF NothingProbed
  <2> QED
    BY <2>1, <2>10 DEF NothingProbed, NoUpdates
<1> QED
  BY <1>2, <1>3

\* Which steps change the connections, the flags and the deaths to come.
LEMMA LinkMoves ==
  ASSUME Shape, Next
  PROVE  /\ up' = up \/ \E m \in Masters : Break(m) \/ AttachCommit(m)
         /\ \/ healthy' = healthy \/ \E t \in Tasks : MarkUnhealthy(t)
            \/ ProbeMark \/ PumpHoldBack \/ \E m \in Masters : AttachCommit(m)
         /\ attaching' = attaching \/ \E m \in Masters : AttachBegin(m) \/ AttachCommit(m)
         /\ \/ budget'.deaths = budget.deaths
            \/ \E m \in Masters : Break(m) /\ budget'.deaths = budget.deaths - 1
         /\ budget'.attach = budget.attach \/ \E m \in Masters : AttachBegin(m)
<1>0. budget \in Bounds
  BY DEF Shape
<1>1. ASSUME NEW t \in Tasks, CallStep(t)
      PROVE  UNCHANGED <<up, attaching, budget>> /\ (healthy' = healthy \/ MarkUnhealthy(t))
  BY <1>1 DEF CallStep, DeathStep, SnapshotDeadKeys, SweepDone, SweepDeadKey, RebuildStep,
         ReadHealth, ReadCaps, WriteCapTable, CancelStep, CancelTerminate, CancelWrite, CancelAnswer, links,
         MarkUnhealthy
<1>2. ASSUME \/ StopAll
             \/ \E e \in Externals : CallerStep(e) \/ DropReceiver(e) \/ Stop(e) \/ StopFeeds(e)
      PROVE  UNCHANGED <<up, attaching, healthy, budget.deaths, budget.attach>>
  BY <1>0, <1>2 DEF StopAll, Stop, StopFeeds, DropReceiver, CallerStep, Route, Admit, AdmitRefused,
         RegisterExternal, WriteReq, GiveUp, LookUpBody, WriteBody, links, Bounds
<1>3. CASE PumpStep
  <2>1. UNCHANGED <<up, attaching, budget>>
    BY <1>3 DEF PumpStep, PumpDeliver, PumpForward, PumpRegister, PumpSend, PumpUnsent, PumpRelay,
         PumpUpdate, PumpHoldBack, PumpQueueProbe, TakeResponse, TakeReq, TakeContinuation, TakeNotify,
         TakeEof, links
  <2>2. UNCHANGED healthy \/ PumpHoldBack
    BY <1>3 DEF PumpStep, PumpDeliver, PumpForward, PumpRegister, PumpSend, PumpUnsent, PumpRelay,
         PumpUpdate, PumpQueueProbe, TakeResponse, TakeReq, TakeContinuation, TakeNotify, TakeEof, links
  <2> QED
    BY <2>1, <2>2
<1>4. CASE ProbeStep
  BY <1>4 DEF ProbeStep, ProbeStart, ProbeWrite, ProbeAnswered, ProbeEnd, ProbeMark, links
<1>5. ASSUME NEW m \in Masters, AttachBegin(m) \/ AttachCommit(m)
      PROVE  /\ budget'.deaths = budget.deaths
             /\ AttachCommit(m) => budget'.attach = budget.attach
             /\ AttachBegin(m) => UNCHANGED <<up, healthy>>
  BY <1>0, <1>5 DEF AttachBegin, AttachCommit, Bounds
<1>6. CASE HostStep
  <2>1. UNCHANGED <<attaching, healthy>>
    BY <1>6 DEF HostStep, EmitData, EmitTerminal, EmitPeerReq, EmitContinuation, EmitNotify, Break, links
  <2>2. \/ up' = up /\ budget'.deaths = budget.deaths
        \/ \E m \in Masters : Break(m) /\ budget'.deaths = budget.deaths - 1
    BY <1>0, <1>6 DEF HostStep, EmitData, EmitTerminal, EmitPeerReq, EmitContinuation, EmitNotify, Break,
         Bounds, links
  <2>3. budget'.attach = budget.attach
    BY <1>0, <1>6 DEF HostStep, EmitData, EmitTerminal, EmitPeerReq, EmitContinuation, EmitNotify, Break,
         Bounds
  <2> QED
    BY <2>1, <2>2, <2>3
<1> QED
  BY <1>1, <1>2, <1>3, <1>4, <1>5, <1>6 DEF Next

LEMMA FirstDeathInit ==
  ASSUME Init, budget.deaths <= 1
  PROVE  FirstDeath
  BY Fillers DEF Init, FirstDeath, NoEof

LEMMA FirstDeathNext ==
  ASSUME Shape, FirstDeath, NothingProbed, [Next]_vars
  PROVE  FirstDeath'
<1>0. budget \in Bounds /\ budget.deaths \in Nat /\ LinksType
  BY DEF Shape, Bounds
<1>1. CASE UNCHANGED vars
  <2>1. UNCHANGED <<budget, up, healthy, attaching, death, inbox>>
    BY <1>1 DEF vars, links, hosts, calls
  <2> QED
    BY <2>1 DEF FirstDeath, NoEof
<1>2. CASE Next
  <2>1. budget'.deaths <= 1 /\ (budget'.deaths = 1 => budget.deaths = 1 /\ ~\E m \in Masters : Break(m))
    <3>1. ASSUME NEW m \in Masters, Break(m) PROVE budget'.deaths = budget.deaths - 1
      BY <1>0, <3>1 DEF Break, Bounds
    <3> QED
      BY <1>0, <1>2, <3>1, LinkMoves DEF FirstDeath
  <2>2. ASSUME budget'.deaths = 1
        PROVE  /\ up' = Masters /\ healthy' = Masters /\ attaching' = {}
               /\ \A t \in Tasks : death'[t].at = "idle"
               /\ \A m \in Masters : NoEof(m)'
    <3>0. /\ up = Masters /\ healthy = Masters /\ attaching = {}
          /\ \A t \in Tasks : death[t].at = "idle"
          /\ \A m \in Masters : NoEof(m) /\ ~Break(m)
      BY <2>1, <2>2 DEF FirstDeath
    <3>1. \A m \in Masters : ~AttachBegin(m) /\ ~AttachCommit(m)
      BY <3>0 DEF AttachBegin, AttachCommit
    <3>2. \A t \in Tasks : ~MarkUnhealthy(t)
      BY <3>0 DEF MarkUnhealthy
    <3>3. ~ProbeMark /\ ~PumpHoldBack
      BY NothingToProbe DEF ProbeStep
    <3>4. up' = Masters /\ healthy' = Masters /\ attaching' = {}
      BY <1>2, <3>0, <3>1, <3>2, <3>3, LinkMoves
    <3>5. \A m \in Masters : NoEof(m)' /\ ~TakeEof(m)
      BY <1>2, <3>0, EofMoves
    <3>6. \A t \in Tasks : death'[t].at = "idle"
      BY <1>2, <3>0, <3>5, DeathMoves
    <3> QED
      BY <3>4, <3>5, <3>6
  <2> QED
    BY <2>1, <2>2 DEF FirstDeath
<1> QED
  BY <1>1, <1>2

LEMMA NoneOutOfServiceInit ==
  ASSUME Init, NoUpdates(budget), budget.attach = 0
  PROVE  NoneOutOfService
<1>1. GoneStays
  BY Fillers DEF Init, GoneStays, NoEof
<1> QED
  BY <1>1, NothingProbedInit DEF Init, NoneOutOfService, NoReturn

LEMMA NoneOutOfServiceNext ==
  ASSUME Shape, NoneOutOfService, [Next]_vars
  PROVE  NoneOutOfService' /\ up' \subseteq up
<1>0. LinksType /\ budget \in Bounds /\ NoReturn /\ NothingProbed /\ GoneStays /\ up \subseteq healthy
  BY DEF Shape, NoneOutOfService
<1>1. NothingProbed'
  BY <1>0, NothingProbedNext
<1>2. CASE UNCHANGED vars
  <2>1. UNCHANGED <<budget, inbox, attaching, up, healthy, death>>
    BY <1>2 DEF vars, links, hosts, calls
  <2> QED
    BY <1>0, <1>1, <2>1 DEF NoneOutOfService, NoReturn, GoneStays, NoEof
<1>3. CASE Next
  <2>1. \A m \in Masters : ~AttachBegin(m) /\ ~AttachCommit(m)
    BY <1>0 DEF NoReturn, AttachBegin, AttachCommit, Bounds
  <2>2. NoReturn'
    BY <1>0, <1>3, <2>1, LinkMoves DEF NoReturn
  <2>3. up' \subseteq up
    BY <1>3, <2>1, LinkMoves DEF Break
  <2>4. GoneStays'
    <3>1. ASSUME NEW t \in Tasks, death'[t].at # "idle"
          PROVE  death'[t].master \notin up
      <4>1. \A m \in Masters : TakeEof(m) => m \notin up
        BY <1>0, <1>3, EofMoves DEF GoneStays
      <4> QED
        BY <1>0, <1>3, <3>1, <4>1, DeathMoves DEF GoneStays
    <3>2. ASSUME NEW m \in up' PROVE NoEof(m)'
      <4>1. m \in Masters /\ NoEof(m)
        BY <1>0, <2>3, <3>2 DEF GoneStays, LinksType
      <4>2. Break(m) => m \notin up'
        BY DEF Break
      <4> QED
        BY <1>3, <3>2, <4>1, <4>2, EofMoves
    <3> QED
      BY <2>3, <3>1, <3>2 DEF GoneStays
  <2>5. up' \subseteq healthy'
    <3>1. ASSUME NEW t \in Tasks, MarkUnhealthy(t) PROVE healthy' = healthy \ {death[t].master}
                                                         /\ death[t].master \notin up
      BY <1>0, <3>1 DEF MarkUnhealthy, GoneStays
    <3>2. ~ProbeMark /\ ~PumpHoldBack
      BY <1>0, NothingToProbe DEF ProbeStep
    <3>3. healthy' = healthy \/ \E t \in Tasks : MarkUnhealthy(t)
      BY <1>3, <2>1, <3>2, LinkMoves
    <3> QED
      BY <1>0, <2>3, <3>1, <3>3
  <2> QED
    BY <1>1, <2>2, <2>3, <2>4, <2>5 DEF NoneOutOfService
<1> QED
  BY <1>2, <1>3

(***************************************************************************)
(* The sweep of a dead master.                                             *)
(***************************************************************************)

\* Its caller, the pump or the probe driver is about to find out itself.
FindsOut(r) ==
  \/ r \in Externals /\ pc[r] \in {"sending", "giveUp"}
  \/ hand.at \in {"send", "unsent"} /\ hand.req = r
  \/ probing.at # "idle" /\ probing.req = r
Sweeping(r) ==
  \E t \in Tasks :
    /\ death[t].master = dest[r]
    /\ death[t].at \in {"mark", "snapshot"} \/ (death[t].at = "sweep" /\ r \in death[t].todo)
SweptOrFindsOut ==
  \A r \in Live :
    dest[r] \notin up /\ (Noticed(dest[r]) \/ dest[r] \notin healthy) => FindsOut(r) \/ Sweeping(r)

\* A task handles one death at a time.
LEMMA DeathKept ==
  ASSUME Shape, CallsWired, Next
  PROVE  \A t \in Tasks : death'[t] = death[t] \/ death[t].at = "idle" \/ DeathStep(t)
<1>0. CallsType /\ HandOK
  BY DEF Shape
<1>1. ASSUME NEW u \in Tasks, NEW m, MasterDies(u, m), NEW t \in Tasks
      PROVE  t = u \/ death'[t] = death[t]
  BY <1>1, <1>0 DEF MasterDies, CallsType
<1>2. ASSUME NEW u \in Tasks, DeathStep(u), NEW t \in Tasks
      PROVE  t = u \/ death'[t] = death[t]
  BY <1>2, <1>0 DEF DeathStep, MarkUnhealthy, SnapshotDeadKeys, SweepDone, SweepDeadKey, CallsType
<1>3. ASSUME NEW u \in Tasks, RebuildStep(u) \/ CancelStep(u)
      PROVE  UNCHANGED death \/ (death[u].at = "idle" /\ \E m : MasterDies(u, m))
  BY <1>3 DEF RebuildStep, ReadHealth, ReadCaps, WriteCapTable, CancelStep, CancelTerminate, CancelWrite,
     CancelAnswer, InCancel
<1>4. ASSUME NEW e \in Externals, CallerStep(e)
      PROVE  UNCHANGED death \/ (death[e].at = "idle" /\ \E m : MasterDies(e, m))
  BY <1>4 DEF CallerStep, Route, Admit, AdmitRefused, RegisterExternal, WriteReq, GiveUp, LookUpBody,
     WriteBody, calls, CallsWired
<1>5. CASE PumpStep
  <2>1. \/ UNCHANGED death
        \/ death["pump"].at = "idle" /\ \E m : MasterDies("pump", m)
        \/ death["eof"].at = "idle" /\ \E m : MasterDies("eof", m)
    BY <1>5, <1>0 DEF PumpStep, PumpDeliver, PumpForward, PumpRegister, PumpSend, PumpUnsent, PumpRelay,
         PumpUpdate, PumpHoldBack, PumpQueueProbe, TakeResponse, TakeReq, TakeContinuation, TakeNotify,
         TakeEof, calls, HandOK,
         Immediate, Free
  <2> QED
    BY <2>1, <1>1
<1>6. CASE ProbeStep
  <2>1. UNCHANGED death \/ (death["probe"].at = "idle" /\ \E m : MasterDies("probe", m))
    BY <1>6 DEF ProbeStep, ProbeStart, ProbeWrite, ProbeAnswered, ProbeEnd, ProbeMark, calls, CallsWired
  <2> QED
    BY <2>1, <1>1
<1>7. ASSUME \/ StopAll \/ HostStep
             \/ \E e \in Externals : DropReceiver(e) \/ Stop(e) \/ StopFeeds(e)
             \/ \E m \in Masters : AttachBegin(m) \/ AttachCommit(m)
      PROVE  UNCHANGED death
  BY <1>7 DEF StopAll, Stop, StopFeeds, DropReceiver, AttachBegin, AttachCommit, calls,
         HostStep, EmitData, EmitTerminal, EmitPeerReq, EmitContinuation, EmitNotify, Break
<1>8. ASSUME NEW u \in Tasks, CallStep(u), NEW t \in Tasks
      PROVE  death'[t] = death[t] \/ death[t].at = "idle" \/ DeathStep(t)
  BY <1>1, <1>2, <1>3, <1>8 DEF CallStep
<1>9. ASSUME NEW e \in Externals, CallerStep(e), NEW t \in Tasks
      PROVE  death'[t] = death[t] \/ death[t].at = "idle"
  BY <1>1, <1>4, <1>9
<1> QED
  BY <1>5, <1>6, <1>7, <1>8, <1>9 DEF Next

\* A request is in the table, for the same master, or just came in by a caller,
\* the pump or the probe driver.
LEMMA LiveMoves ==
  ASSUME Shape, NotYetRegistered, Next
  PROVE  \A r \in Live' : (r \in Live /\ dest'[r] = dest[r]) \/ FindsOut(r)'
<1>0. TableType /\ HandOK /\ TasksType
  BY DEF Shape
<1>1. ASSUME UNCHANGED dest,
             phase' = phase \/ \E r, kind : kind \in TerminalKinds /\ Terminate(r, kind)
      PROVE  \A r \in Live' : r \in Live /\ dest'[r] = dest[r]
  BY <1>0, <1>1, EndedOnly DEF Live
<1>2. ASSUME NEW t \in Tasks, CallStep(t)
      PROVE  \A r \in Live' : r \in Live /\ dest'[r] = dest[r]
  <2>1. UNCHANGED dest /\ (phase' = phase \/ \E r, kind : kind \in TerminalKinds /\ Terminate(r, kind))
    BY <1>2 DEF CallStep, DeathStep, MarkUnhealthy, SnapshotDeadKeys, SweepDone, SweepDeadKey, RebuildStep,
         ReadHealth, ReadCaps, WriteCapTable, CancelStep, CancelTerminate, CancelWrite, CancelAnswer, table,
         TerminalKinds
  <2> QED
    BY <1>1, <2>1
<1>3. ASSUME NEW e \in Externals, CallerStep(e)
      PROVE  \A r \in Live' : (r \in Live /\ dest'[r] = dest[r]) \/ FindsOut(r)'
  <2>0. e \in Requests
    BY DEF Requests
  <2>1. CASE RegisterExternal(e)
    <3>1. pc'[e] = "sending"
      BY <2>1, <1>0 DEF RegisterExternal, TasksType
    <3>2. \A r \in Live' \ {e} : r \in Live /\ dest'[r] = dest[r]
      BY <2>0, <2>1, <1>0 DEF RegisterExternal, Register, Live, TableType
    <3> QED
      BY <3>1, <3>2 DEF FindsOut
  <2>2. CASE Route(e)
    <3>1. phase[e] = "new" /\ phase' = phase /\ \A r \in Requests \ {e} : dest'[r] = dest[r]
      BY <2>2, <1>0 DEF Route, NotYetRegistered, TableType
    <3> QED
      BY <3>1 DEF Live
  <2>3. CASE Admit(e) \/ AdmitRefused(e) \/ WriteReq(e) \/ GiveUp(e) \/ LookUpBody(e) \/ WriteBody(e)
    <3>1. UNCHANGED dest /\ (phase' = phase \/ Terminate(e, "master_died"))
      BY <2>3 DEF Admit, AdmitRefused, WriteReq, GiveUp, LookUpBody, WriteBody, table
    <3> QED
      BY <1>1, <3>1 DEF TerminalKinds
  <2> QED
    BY <1>3, <2>1, <2>2, <2>3 DEF CallerStep
<1>4. CASE PumpStep
  <2>1. CASE PumpRegister
    <3>1. hand.req \in Requests /\ hand'.at = "send" /\ hand'.req = hand.req
      BY <2>1, <1>0 DEF PumpRegister, HandOK, Requests, TasksType, Hands
    <3>2. \A r \in Live' \ {hand.req} : r \in Live /\ dest'[r] = dest[r]
      BY <2>1, <3>1, <1>0 DEF PumpRegister, Register, Live, TableType
    <3> QED
      BY <3>1, <3>2 DEF FindsOut
  <2>2. CASE ~PumpRegister
    <3>1. UNCHANGED dest /\ (phase' = phase \/ \E r, kind : kind \in TerminalKinds /\ Terminate(r, kind))
      BY <1>4, <2>2 DEF PumpStep, PumpDeliver, PumpForward, PumpSend, PumpUnsent, PumpRelay, IsTerminal,
         PumpUpdate, PumpHoldBack, PumpQueueProbe, TakeResponse, TakeReq, TakeContinuation, TakeNotify,
         TakeEof, table, TerminalKinds
    <3> QED
      BY <1>1, <3>1
  <2> QED
    BY <2>1, <2>2
<1>5. CASE ProbeStep
  <2>1. ASSUME NEW v \in Probes, ProbeStart(v)
        PROVE  \A r \in Live' : (r \in Live /\ dest'[r] = dest[r]) \/ FindsOut(r)'
    <3>1. v \in Requests /\ probing'.at = "write" /\ probing'.req = v
      BY <2>1 DEF ProbeStart, Requests
    <3>2. \A r \in Live' \ {v} : r \in Live /\ dest'[r] = dest[r]
      BY <2>1, <3>1, <1>0 DEF ProbeStart, Register, Live, TableType
    <3> QED
      BY <3>1, <3>2 DEF FindsOut
  <2>2. CASE ProbeWrite \/ ProbeAnswered \/ ProbeEnd \/ ProbeMark
    <3>1. UNCHANGED dest /\ (phase' = phase \/ \E r, kind : kind \in TerminalKinds /\ Terminate(r, kind))
      BY <2>2 DEF ProbeWrite, ProbeAnswered, ProbeEnd, ProbeMark, table, TerminalKinds
    <3> QED
      BY <1>1, <3>1
  <2> QED
    BY <1>5, <2>1, <2>2 DEF ProbeStep
<1>6. ASSUME \/ StopAll \/ HostStep
             \/ \E e \in Externals : DropReceiver(e) \/ Stop(e) \/ StopFeeds(e)
             \/ \E k \in Masters : AttachBegin(k) \/ AttachCommit(k)
      PROVE  \A r \in Live' : r \in Live /\ dest'[r] = dest[r]
  <2>1. UNCHANGED <<phase, dest>>
    BY <1>6 DEF StopAll, Stop, StopFeeds, DropReceiver, AttachBegin, AttachCommit, table,
         HostStep, EmitData, EmitTerminal, EmitPeerReq, EmitContinuation, EmitNotify, Break
  <2> QED
    BY <1>1, <2>1
<1> QED
  BY <1>2, <1>3, <1>4, <1>5, <1>6 DEF Next

\* Who is about to find out that a master is gone finds out.
LEMMA FindsOutKept ==
  ASSUME Shape, RequestsWired, Next, NEW r \in Live, r \in Live', dest[r] \notin up, FindsOut(r)
  PROVE  FindsOut(r)'
<1>0. TableType /\ HandOK /\ TasksType /\ ProbeOK /\ r \in Requests
  BY DEF Shape, Live
<1>1. ASSUME r \in Externals, pc[r] \in {"sending", "giveUp"}
      PROVE  pc'[r] \in {"sending", "giveUp"}
  <2>1. CASE CallerStep(r)
    <3>1. ~GiveUp(r)
      BY <1>0, EndedOnly DEF GiveUp, TerminalKinds
    <3> QED
      BY <1>0, <1>1, <2>1, <3>1 DEF CallerStep, Route, Admit, AdmitRefused, RegisterExternal, WriteReq,
         LookUpBody, WriteBody, TasksType
  <2>2. ASSUME NEW e \in Externals, e # r, CallerStep(e)
        PROVE  pc'[r] = pc[r]
    <3>1. \A f \in Externals \ {e} : pc'[f] = pc[f]
      BY <1>0, <2>2 DEF CallerStep, Route, Admit, AdmitRefused, RegisterExternal, WriteReq, GiveUp,
         LookUpBody, WriteBody, TasksType
    <3> QED
      BY <1>1, <2>2, <3>1
  <2>3. CASE ~\E e \in Externals : CallerStep(e)
    <3>1. UNCHANGED pc
      BY <2>3 DEF Next, CallStep, DeathStep, MarkUnhealthy, SnapshotDeadKeys, SweepDone, SweepDeadKey,
         RebuildStep, ReadHealth, ReadCaps, WriteCapTable, CancelStep, CancelTerminate, CancelWrite,
         CancelAnswer,
         StopAll, Stop, StopFeeds, DropReceiver, AttachBegin, AttachCommit, tasks,
         HostStep, EmitData, EmitTerminal, EmitPeerReq, EmitContinuation, EmitNotify, Break,
         ProbeStep, ProbeStart, ProbeWrite, ProbeAnswered, ProbeEnd, ProbeMark, PumpStep, PumpDeliver,
         PumpForward, PumpRegister, PumpSend, PumpUnsent, PumpRelay, PumpUpdate, PumpHoldBack,
         PumpQueueProbe, TakeResponse,
         TakeReq, TakeContinuation, TakeNotify, TakeEof
    <3> QED
      BY <1>1, <3>1
  <2> QED
    BY <1>1, <2>1, <2>2, <2>3
<1>2. ASSUME hand.at \in {"send", "unsent"}, hand.req = r
      PROVE  hand'.at \in {"send", "unsent"} /\ hand'.req = r
  <2>1. CASE PumpSend
    BY <1>0, <1>2, <2>1 DEF PumpSend, RequestsWired, TasksType, Hands
  <2>2. ~PumpUnsent
    BY <1>0, <1>2, EndedOnly DEF PumpUnsent, TerminalKinds
  <2>3. CASE PumpStep /\ ~PumpSend
    BY <1>2, <2>2, <2>3 DEF PumpStep, PumpDeliver, PumpForward, PumpRegister, PumpRelay, PumpUpdate,
                            PumpHoldBack, PumpQueueProbe,
       TakeResponse, TakeReq, TakeContinuation, TakeNotify, TakeEof, PumpFree
  <2>4. CASE ~PumpStep
    <3>1. UNCHANGED hand
      BY <2>4 DEF Next, CallStep, DeathStep, MarkUnhealthy, SnapshotDeadKeys, SweepDone, SweepDeadKey,
         RebuildStep, ReadHealth, ReadCaps, WriteCapTable, CancelStep, CancelTerminate, CancelWrite,
         CancelAnswer,
         StopAll, Stop, StopFeeds, DropReceiver, AttachBegin, AttachCommit, tasks,
         HostStep, EmitData, EmitTerminal, EmitPeerReq, EmitContinuation, EmitNotify, Break,
         ProbeStep, ProbeStart, ProbeWrite, ProbeAnswered, ProbeEnd, ProbeMark,
         CallerStep, Route, Admit, AdmitRefused, RegisterExternal, WriteReq, GiveUp, LookUpBody, WriteBody
    <3> QED
      BY <1>2, <3>1
  <2> QED
    BY <2>1, <2>3, <2>4
<1>3. ASSUME probing.at # "idle", probing.req = r
      PROVE  probing'.at # "idle" /\ probing'.req = r
  <2>1. probing.at # "mark"
    BY <1>0, <1>3 DEF ProbeOK, RequestsWired
  <2>2. ~ProbeEnd
    <3>1. ASSUME ProbeEnd PROVE FALSE
      <4>1. \E kind \in TerminalKinds : Terminate(r, kind)
        BY <1>3, <3>1 DEF ProbeEnd, TerminalKinds
      <4> QED
        BY <4>1, <1>0, EndedOnly
    <3> QED
      BY <3>1
  <2>3. CASE ProbeStep
    BY <1>0, <1>3, <2>1, <2>2, <2>3 DEF ProbeStep, ProbeStart, ProbeWrite, ProbeAnswered, ProbeMark,
       TasksType, ProbeStates
  <2>4. CASE ~ProbeStep
    <3>1. UNCHANGED probing
      BY <2>4 DEF Next, CallStep, DeathStep, MarkUnhealthy, SnapshotDeadKeys, SweepDone, SweepDeadKey,
         RebuildStep, ReadHealth, ReadCaps, WriteCapTable, CancelStep, CancelTerminate, CancelWrite,
         CancelAnswer,
         StopAll, Stop, StopFeeds, DropReceiver, AttachBegin, AttachCommit, tasks,
         HostStep, EmitData, EmitTerminal, EmitPeerReq, EmitContinuation, EmitNotify, Break,
         PumpStep, PumpDeliver, PumpForward, PumpRegister, PumpSend, PumpUnsent, PumpRelay, PumpUpdate,
         PumpHoldBack, PumpQueueProbe,
         TakeResponse, TakeReq, TakeContinuation, TakeNotify, TakeEof,
         CallerStep, Route, Admit, AdmitRefused, RegisterExternal, WriteReq, GiveUp, LookUpBody, WriteBody
    <3> QED
      BY <1>3, <3>1
  <2> QED
    BY <2>3, <2>4
<1> QED
  BY <1>1, <1>2, <1>3 DEF FindsOut

\* A sweep under way takes every request of its master.
LEMMA SweepingKept ==
  ASSUME Shape, CallsWired, Next, NEW r \in Live, r \in Live', dest'[r] = dest[r], Sweeping(r)
  PROVE  Sweeping(r)'
<1>0. TableType /\ CallsType /\ r \in Requests
  BY DEF Shape, Live
<1>1. PICK t \in Tasks :
        /\ death[t].master = dest[r]
        /\ death[t].at \in {"mark", "snapshot"} \/ (death[t].at = "sweep" /\ r \in death[t].todo)
  BY DEF Sweeping
<1>2. CASE death'[t] = death[t]
  BY <1>1, <1>2 DEF Sweeping
<1>3. CASE DeathStep(t)
  <2>1. /\ death'[t].master = dest[r]
        /\ death'[t].at \in {"mark", "snapshot"} \/ (death'[t].at = "sweep" /\ r \in death'[t].todo)
    <3>0. death[t] \in Deaths
      BY <1>0 DEF CallsType
    <3>1. CASE MarkUnhealthy(t)
      BY <1>0, <1>1, <3>0, <3>1 DEF MarkUnhealthy, CallsType, Deaths
    <3>2. CASE SnapshotDeadKeys(t)
      BY <1>0, <1>1, <3>0, <3>2 DEF SnapshotDeadKeys, CallsType, Deaths
    <3>3. CASE SweepDone(t)
      BY <1>1, <3>3 DEF SweepDone
    <3>4. ASSUME NEW x \in death[t].todo, SweepDeadKey(t, x)
          PROVE  /\ death'[t].master = dest[r]
                 /\ death'[t].at = "sweep" /\ r \in death'[t].todo
      <4>1. x # r
        BY <1>0, <3>4, EndedOnly DEF SweepDeadKey, TerminalKinds
      <4> QED
        BY <1>0, <1>1, <3>0, <3>4, <4>1 DEF SweepDeadKey, CallsType, Deaths
    <3> QED
      BY <1>3, <3>1, <3>2, <3>3, <3>4 DEF DeathStep
  <2> QED
    BY <2>1 DEF Sweeping
<1> QED
  BY <1>1, <1>2, <1>3, DeathKept

\* How a master comes to be lost: cut off, and out of service or its end read.
Lost(m) == m \notin up /\ (Noticed(m) \/ m \notin healthy)

LEMMA Losing ==
  ASSUME Shape, Next, NEW m \in Masters, Lost(m)', ~Lost(m)
  PROVE  \/ \E t \in Tasks : MarkUnhealthy(t) /\ death[t].master = m
         \/ TakeEof(m) /\ m \in healthy
         \/ Break(m) /\ m \notin healthy
         \/ PumpHoldBack /\ hand.to = m
         \/ ProbeMark /\ probing.master = m
<1>0. HostsType /\ LinksType /\ m \notin up'
  BY DEF Shape, Lost
<1>1. ~AttachCommit(m)
  BY <1>0 DEF AttachCommit
<1>2. CASE m \in up
  <2>1. Break(m)
    <3>1. ASSUME NEW k \in Masters, Break(k) \/ AttachCommit(k) PROVE m \notin up' => Break(k) /\ k = m
      BY <1>2, <3>1 DEF Break, AttachCommit
    <3> QED
      BY <1>0, <1>2, <3>1, LinkMoves
  <2>2. ~NoEof(m)' /\ healthy' = healthy
    <3>1. /\ Len(inbox[m]) + 1 \in DOMAIN inbox'[m] /\ inbox'[m][Len(inbox[m]) + 1].kind = "eof"
      BY <1>0, <2>1, EmittedLast DEF Break, Frame
    <3> QED
      BY <2>1, <3>1 DEF NoEof, Break
  <2> QED
    BY <2>1, <2>2 DEF Lost, Noticed, NoEof
<1>3. CASE m \notin up
  <2>1. m \in healthy /\ ~NoEof(m)
    BY <1>3 DEF Lost, Noticed, NoEof
  <2>2. CASE NoEof(m)'
    BY <1>1, <2>1, <2>2, EofMoves
  <2>3. CASE ~NoEof(m)'
    <3>1. m \notin healthy'
      BY <2>3 DEF Lost, Noticed, NoEof
    <3>2. ASSUME NEW t \in Tasks, MarkUnhealthy(t) PROVE death[t].master = m
      BY <2>1, <3>1, <3>2 DEF MarkUnhealthy
    <3>3. PumpHoldBack => hand.to = m
      BY <2>1, <3>1 DEF PumpHoldBack
    <3>4. ASSUME NEW k \in Masters, AttachCommit(k) PROVE FALSE
      BY <1>1, <2>1, <3>1, <3>4 DEF AttachCommit
    <3>5. ProbeMark => probing.master = m
      BY <2>1, <3>1 DEF ProbeMark
    <3> QED
      BY <2>1, <3>1, <3>2, <3>3, <3>4, <3>5, LinkMoves
  <2> QED
    BY <2>2, <2>3
<1> QED
  BY <1>2, <1>3

LEMMA SweptInit == Init => SweptOrFindsOut
  BY DEF Init, SweptOrFindsOut, Live

LEMMA SweptNext ==
  ASSUME Shape, NotYetRegistered, Wiring, SweptOrFindsOut, [Next]_vars,
         NoneOutOfService \/ (FirstDeath /\ NothingProbed)
  PROVE  SweptOrFindsOut'
<1>0. /\ TableType /\ CallsType /\ TasksType /\ LinksType /\ budget \in Bounds
      /\ CallsWired /\ RequestsWired
  BY DEF Shape, Wiring
<1>1. CASE UNCHANGED vars
  <2>1. UNCHANGED <<phase, dest, up, healthy, inbox, pc, hand, probing, death>>
    BY <1>1 DEF vars, table, links, hosts, tasks, calls
  <2> QED
    BY <2>1 DEF SweptOrFindsOut, Live, Noticed, FindsOut, Sweeping
<1>2. CASE Next
  <2> SUFFICES ASSUME NEW r \in Live', Lost(dest[r])' PROVE FindsOut(r)' \/ Sweeping(r)'
    BY DEF SweptOrFindsOut, Lost
  <2>1. CASE ~(r \in Live /\ dest'[r] = dest[r])
    BY <1>2, <2>1, LiveMoves
  <2>2. CASE r \in Live /\ dest'[r] = dest[r]
    <3>0. PICK m \in Masters : m = dest[r]
      BY <1>0, <2>2 DEF TableType, Live
    <3>00. Lost(m)'
      BY <2>2, <3>0 DEF Lost, Noticed
    <3>1. CASE Lost(m)
      <4>1. m \notin up /\ (FindsOut(r) \/ Sweeping(r))
        BY <2>2, <3>0, <3>1 DEF Lost, SweptOrFindsOut
      <4> QED
        BY <1>0, <1>2, <2>2, <3>0, <4>1, FindsOutKept, SweepingKept
    <3>2. ASSUME NEW t \in Tasks, MarkUnhealthy(t), death[t].master = m
          PROVE  Sweeping(r)'
      <4>1. death'[t].at = "snapshot" /\ death'[t].master = m
        BY <1>0, <3>2 DEF MarkUnhealthy, CallsType, Deaths
      <4> QED
        BY <2>2, <3>0, <4>1 DEF Sweeping
    <3>3. CASE TakeEof(m) /\ m \in healthy
      <4>1. death'["eof"].at = "mark" /\ death'["eof"].master = m
        BY <1>0, <3>3, Fillers DEF TakeEof, MasterDies, CallsType, Deaths
      <4> QED
        BY <2>2, <3>0, <4>1 DEF Sweeping
    <3>4. ~(Break(m) /\ m \notin healthy)
      <4>1. ASSUME Break(m), FirstDeath PROVE m \in healthy
        BY <1>0, <4>1 DEF Break, FirstDeath, Bounds
      <4> QED
        BY <4>1 DEF Break, NoneOutOfService
    <3>5. ~ProbeMark /\ ~PumpHoldBack
      BY NothingToProbe DEF NoneOutOfService, ProbeStep
    <3> QED
      BY <1>2, <3>00, <3>1, <3>2, <3>3, <3>4, <3>5, Losing
  <2> QED
    BY <2>1, <2>2
<1> QED
  BY <1>1, <1>2

\* Once the end of a connection was read and the death of the master handled,
\* the table holds no request for it but those whose caller is about to find
\* out (handle_master_death_with_reason): if no host updates its caps, and no
\* master comes back or at most one connection breaks.
THEOREM DeadMasterSwept ==
  ASSUME \A s \in Scenarios : NoUpdates(s) /\ (s.attach = 0 \/ s.deaths <= 1)
  PROVE  Spec => []DeadMasterHoldsNothing
<1> DEFINE Known == NoneOutOfService \/ (FirstDeath /\ NothingProbed)
           Swept == Wiring /\ Known /\ SweptOrFindsOut
<1>1. Init => Swept
  BY WiringInit, NoneOutOfServiceInit, FirstDeathInit, NothingProbedInit, SweptInit DEF Init
<1>2. Inv /\ Swept /\ [Next]_vars => Swept'
  <2> SUFFICES ASSUME Inv, Swept, [Next]_vars PROVE Swept'
    OBVIOUS
  <2>1. Shape /\ NotYetRegistered
    BY DEF Inv, Ledger
  <2>2. Wiring'
    BY <2>1, WiringNext
  <2>3. CASE NoneOutOfService
    BY <2>1, <2>2, <2>3, NoneOutOfServiceNext, SweptNext
  <2>4. CASE FirstDeath /\ NothingProbed
    BY <2>1, <2>2, <2>4, FirstDeathNext, NothingProbedNext, SweptNext
  <2> QED
    BY <2>3, <2>4
<1>3. Swept => DeadMasterHoldsNothing
  <2> SUFFICES ASSUME SweptOrFindsOut, NEW r \in Live, Noticed(dest[r])
               PROVE  FindsOut(r) \/ DeathUnderWay(dest[r])
    BY DEF DeadMasterHoldsNothing, FindsOut
  <2>1. FindsOut(r) \/ Sweeping(r)
    BY DEF SweptOrFindsOut, Noticed
  <2> QED
    BY <2>1 DEF Sweeping, DeathUnderWay
<1> HIDE DEF Swept
<1> QED
  BY <1>1, <1>2, <1>3, InvAlways, PTL DEF Spec

(***************************************************************************)
(* The answer to a peer call.                                              *)
(***************************************************************************)

\* As SentPeersAnswered, from the moment the REQ is about to be written.
PeersAnswered ==
  \A r \in Peers :
    /\ phase[r] \in {"end", "err", "master_died"}
    /\ <<"sent", r>> \in said \/ (hand.at = "send" /\ hand.req = r)
    /\ origin[r] \in up
    => r \in answered \/ (hand.at = "forward" /\ hand.req = r /\ IsTerminal(hand.kind))

\* How a peer call ends other than by a cancellation.
LEMMA PeerEnds ==
  ASSUME Shape, Next, NEW r \in Peers, phase'[r] \in {"end", "err", "master_died"}
  PROVE  \/ phase'[r] = phase[r]
         \/ \E m \in Masters : /\ TakeResponse(m) /\ hand'.at = "forward" /\ hand'.req = r
                               /\ IsTerminal(hand'.kind)
         \/ \E t \in Tasks : SweepDeadKey(t, r) /\ r \in Live
         \/ PumpUnsent /\ hand.req = r
<1>0. TableType /\ HandOK /\ ProbeOK /\ TasksType /\ HostsType /\ InboxOK
  BY DEF Shape
<1>1. r \in Requests /\ r \notin Externals /\ r \notin Probes /\ r \notin Channelled
  BY ConstantsAssumption DEF Requests, Channelled
<1>2. ASSUME NEW t \in Tasks, CallStep(t)
      PROVE  phase'[r] = phase[r] \/ (SweepDeadKey(t, r) /\ r \in Live)
  <2>1. ASSUME NEW x \in death[t].todo, SweepDeadKey(t, x)
        PROVE  phase'[r] = phase[r] \/ (SweepDeadKey(t, r) /\ r \in Live)
    BY <1>0, <1>1, <2>1 DEF SweepDeadKey, Terminate, TableType, Live
  <2>2. ASSUME CancelTerminate(t)
        PROVE  phase'[r] = phase[r]
    BY <1>0, <1>1, <2>2 DEF CancelTerminate, Terminate, TableType
  <2>3. CASE MarkUnhealthy(t) \/ SnapshotDeadKeys(t) \/ SweepDone(t) \/ RebuildStep(t) \/ CancelWrite(t)
             \/ CancelAnswer(t)
    BY <2>3 DEF MarkUnhealthy, SnapshotDeadKeys, SweepDone, RebuildStep, ReadHealth, ReadCaps,
                WriteCapTable,
       CancelWrite, CancelAnswer, table
  <2> QED
    BY <1>2, <2>1, <2>2, <2>3 DEF CallStep, DeathStep, CancelStep
<1>3. ASSUME NEW e \in Externals, CallerStep(e)
      PROVE  phase'[r] = phase[r]
  BY <1>0, <1>1, <1>3 DEF CallerStep, Route, Admit, AdmitRefused, RegisterExternal, WriteReq, GiveUp,
     LookUpBody, WriteBody, table, TableType, Register, Terminate
<1>4. CASE PumpStep
  <2>1. CASE PumpRegister
    <3>1. hand.req \in Requests
      BY <1>0, <2>1 DEF PumpRegister, TasksType, Hands
    <3> QED
      BY <1>0, <1>1, <2>1, <3>1 DEF PumpRegister, Register, TableType
  <2>2. CASE PumpUnsent
    BY <1>0, <1>1, <2>2 DEF PumpUnsent, Terminate, TableType
  <2>3. ASSUME NEW m \in Masters, TakeResponse(m), phase'[r] # phase[r]
        PROVE  hand'.at = "forward" /\ hand'.req = r /\ IsTerminal(hand'.kind)
    <3>1. /\ Head(inbox[m]) \in Frames /\ Head(inbox[m]).req \in Live /\ IsTerminal(Head(inbox[m]).kind)
          /\ Terminate(Head(inbox[m]).req, Head(inbox[m]).kind)
      BY <1>0, <2>3, Taken DEF TakeResponse
    <3>2. Head(inbox[m]).req = r
      BY <1>0, <1>1, <2>3, <3>1 DEF Terminate, TableType
    <3> QED
      BY <1>1, <2>3, <3>1, <3>2 DEF TakeResponse, Holding
  <2>4. ASSUME NEW m \in Masters, TakeReq(m) \/ TakeContinuation(m) \/ TakeNotify(m) \/ TakeEof(m)
        PROVE  phase' = phase
    BY <2>4 DEF TakeReq, TakeContinuation, TakeNotify, TakeEof, table
  <2>5. CASE PumpDeliver \/ PumpForward \/ PumpSend \/ PumpRelay \/ PumpUpdate \/ PumpHoldBack \/ PumpQueueProbe
    BY <2>5 DEF PumpDeliver, PumpForward, PumpSend, PumpRelay, PumpUpdate, PumpHoldBack,
                PumpQueueProbe, table
  <2> QED
    BY <1>4, <2>1, <2>2, <2>3, <2>4, <2>5 DEF PumpStep
<1>5. CASE ProbeStep
  <2>1. ASSUME NEW v \in Probes, ProbeStart(v) PROVE phase'[r] = phase[r]
    BY <1>0, <1>1, <2>1 DEF ProbeStart, Register, TableType
  <2>2. CASE ProbeEnd
    BY <1>0, <1>1, <2>2 DEF ProbeEnd, Terminate, TableType, ProbeOK
  <2>3. CASE ProbeWrite \/ ProbeAnswered \/ ProbeMark
    BY <2>3 DEF ProbeWrite, ProbeAnswered, ProbeMark, table
  <2> QED
    BY <1>5, <2>1, <2>2, <2>3 DEF ProbeStep
<1>6. ASSUME \/ StopAll \/ HostStep
             \/ \E e \in Externals : DropReceiver(e) \/ Stop(e) \/ StopFeeds(e)
             \/ \E k \in Masters : AttachBegin(k) \/ AttachCommit(k)
      PROVE  phase' = phase
  BY <1>6 DEF StopAll, Stop, StopFeeds, DropReceiver, AttachBegin, AttachCommit, table,
     HostStep, EmitData, EmitTerminal, EmitPeerReq, EmitContinuation, EmitNotify, Break
<1> QED
  BY <1>2, <1>3, <1>4, <1>5, <1>6 DEF Next

\* The REQ of a peer call is written once it is registered, an answer that was
\* given stays given, and a frame to be forwarded is.
LEMMA PeerMoves ==
  ASSUME Shape, Next, NEW r \in Peers
  PROVE  /\ <<"sent", r>> \in said' \/ (hand'.at = "send" /\ hand'.req = r) =>
              \/ <<"sent", r>> \in said
              \/ hand.at = "send" /\ hand.req = r
              \/ PumpRegister /\ hand.req = r /\ phase'[r] = "live"
         /\ <<"sent", r>> \in said => <<"sent", r>> \in said'
         /\ answered \subseteq answered'
         /\ origin'[r] = origin[r] \/ (<<"req", r>> \notin said /\ phase' = phase)
         /\ hand.at = "forward" => hand' = hand \/ PumpForward
<1>0. TableType /\ HandOK /\ ProbeOK /\ TasksType /\ HostsType
  BY DEF Shape
<1>1. r \in Requests /\ r \notin Externals /\ r \notin Probes
  BY ConstantsAssumption DEF Requests
<1>2. NoHand.at = "idle"
  BY Fillers
<1> DEFINE Still == /\ <<"sent", r>> \in said' <=> <<"sent", r>> \in said
                    /\ answered \subseteq answered' /\ hand' = hand
                    /\ origin'[r] = origin[r] \/ (<<"req", r>> \notin said /\ phase' = phase)
<1>3. ASSUME NEW t \in Tasks, CallStep(t) PROVE Still
  BY <1>3 DEF CallStep, DeathStep, MarkUnhealthy, SnapshotDeadKeys, SweepDone, SweepDeadKey, RebuildStep,
     ReadHealth, ReadCaps, WriteCapTable, CancelStep, CancelTerminate, CancelWrite, CancelAnswer,
     hosts, tasks,
     delivery
<1>4. ASSUME NEW e \in Externals, CallerStep(e) PROVE Still
  BY <1>1, <1>4 DEF CallerStep, Route, Admit, AdmitRefused, RegisterExternal, WriteReq, GiveUp,
     LookUpBody, WriteBody, hosts, delivery, Receive
<1>5. CASE ProbeStep
  <2>1. UNCHANGED <<answered, hand, origin>>
    BY <1>5 DEF ProbeStep, ProbeStart, ProbeWrite, ProbeAnswered, ProbeEnd, ProbeMark, hosts, delivery
  <2>2. said' = said \/ (said' = said \cup {<<"sent", probing.req>>} /\ probing.at = "write")
    BY <1>5 DEF ProbeStep, ProbeStart, ProbeWrite, ProbeAnswered, ProbeEnd, ProbeMark, hosts, Receive
  <2>3. probing.at = "write" => probing.req # r
    BY <1>0, <1>1 DEF ProbeOK
  <2> QED
    BY <2>1, <2>2, <2>3
<1>6. ASSUME NEW k \in Masters, NEW p \in Peers, EmitPeerReq(k, p)
      PROVE  Still
  BY <1>0, <1>6 DEF EmitPeerReq, table, delivery, tasks, HostsType
<1>7. ASSUME \/ StopAll \/ HostStep
             \/ \E e \in Externals : DropReceiver(e) \/ Stop(e) \/ StopFeeds(e)
             \/ \E k \in Masters : AttachBegin(k) \/ AttachCommit(k)
      PROVE  Still
  <2>1. \A x : /\ x \in {"data", "cont"} => x # "sent"
    OBVIOUS
  <2>2. CASE ~\E k \in Masters, p \in Peers : EmitPeerReq(k, p)
    BY <1>7, <2>2 DEF StopAll, Stop, StopFeeds, DropReceiver, AttachBegin, AttachCommit, hosts, delivery,
       tasks, HostStep, EmitData, EmitTerminal, EmitContinuation, EmitNotify, Break
  <2> QED
    BY <1>6, <2>2
<1>8. CASE PumpStep
  <2>1. origin' = origin /\ answered \subseteq answered'
    BY <1>8 DEF PumpStep, PumpDeliver, PumpForward, PumpRegister, PumpSend, PumpUnsent, PumpRelay,
         PumpUpdate, PumpHoldBack, PumpQueueProbe, TakeResponse, TakeReq, TakeContinuation, TakeNotify,
         TakeEof, hosts, delivery
  <2>2. hand.at = "forward" => PumpForward
    BY <1>8 DEF PumpStep, PumpDeliver, PumpForward, PumpRegister, PumpSend, PumpUnsent, PumpRelay,
         PumpUpdate, PumpHoldBack, PumpQueueProbe, TakeResponse, TakeReq, TakeContinuation, TakeNotify,
         TakeEof, PumpFree
  <2>3. CASE PumpRegister
    <3>1. hand'.at = "send" /\ hand'.req = hand.req /\ said' = said /\ hand.req \in Requests
          /\ phase'[hand.req] = "live"
      BY <1>0, <2>3 DEF PumpRegister, Register, TasksType, Hands, hosts, TableType
    <3> QED
      BY <2>1, <2>2, <2>3, <3>1
  <2>4. CASE PumpSend
    <3>1. /\ said' = said \cup {<<"sent", hand.req>>} \/ said' = said
          /\ hand'.at # "send" /\ hand.at = "send"
      BY <1>0, <1>2, <2>4 DEF PumpSend, Receive, TasksType, Hands
    <3> QED
      BY <2>1, <2>2, <3>1
  <2>5. CASE ~PumpRegister /\ ~PumpSend
    <3>1. said' = said
      BY <1>8, <2>5 DEF PumpStep, PumpDeliver, PumpForward, PumpUnsent, PumpRelay,
         PumpUpdate, PumpHoldBack, PumpQueueProbe, TakeResponse, TakeReq, TakeContinuation, TakeNotify,
         TakeEof, hosts
    <3>2. hand'.at # "send"
      <4>1. CASE PumpDeliver \/ PumpForward \/ PumpUnsent \/ PumpRelay \/ PumpUpdate \/ PumpHoldBack
                   \/ PumpQueueProbe
        BY <1>0, <1>2, <4>1 DEF TasksType, Hands, PumpDeliver, PumpForward, PumpUnsent, PumpRelay,
           PumpUpdate, PumpHoldBack, PumpQueueProbe
      <4>2. ASSUME NEW m \in Masters,
                   TakeResponse(m) \/ TakeReq(m) \/ TakeContinuation(m) \/ TakeNotify(m) \/ TakeEof(m)
            PROVE  hand' = hand \/ hand'.at # "send"
        BY <4>2 DEF TakeResponse, TakeReq, TakeContinuation, TakeNotify, TakeEof, Holding, tasks
      <4>3. ASSUME NEW m \in Masters,
                   TakeResponse(m) \/ TakeReq(m) \/ TakeContinuation(m) \/ TakeNotify(m) \/ TakeEof(m)
            PROVE  hand.at = "idle"
        BY <4>3 DEF TakeResponse, TakeReq, TakeContinuation, TakeNotify, TakeEof, PumpFree
      <4> QED
        BY <1>8, <2>5, <4>1, <4>2, <4>3 DEF PumpStep
    <3> QED
      BY <2>1, <2>2, <3>1, <3>2
  <2> QED
    BY <2>3, <2>4, <2>5
<1> QED
  BY <1>3, <1>4, <1>5, <1>7, <1>8 DEF Next

LEMMA PeersAnsweredInit == Init => PeersAnswered
  BY DEF Init, PeersAnswered, Requests

LEMMA PeersAnsweredNext ==
  ASSUME Shape, Wiring, NoneOutOfService, PeersAnswered, [Next]_vars
  PROVE  PeersAnswered'
<1>0. TableType /\ HandOK /\ LinksType /\ HostsType /\ TasksType /\ RequestsWired /\ PeersWired
  BY DEF Shape, Wiring
<1>1. CASE UNCHANGED vars
  <2>1. UNCHANGED <<phase, said, hand, origin, up, answered>>
    BY <1>1 DEF vars, table, hosts, tasks, links, delivery
  <2> QED
    BY <2>1 DEF PeersAnswered
<1>2. CASE Next
  <2> SUFFICES ASSUME NEW r \in Peers, phase'[r] \in {"end", "err", "master_died"},
                      <<"sent", r>> \in said' \/ (hand'.at = "send" /\ hand'.req = r),
                      origin'[r] \in up'
               PROVE  r \in answered' \/ (hand'.at = "forward" /\ hand'.req = r /\ IsTerminal(hand'.kind))
    BY DEF PeersAnswered
  <2>0. r \in Requests /\ up' \subseteq up
    BY NoneOutOfServiceNext DEF Requests
  <2>1. \/ phase'[r] = phase[r]
        \/ \E m \in Masters : /\ TakeResponse(m) /\ hand'.at = "forward" /\ hand'.req = r
                              /\ IsTerminal(hand'.kind)
        \/ \E t \in Tasks : SweepDeadKey(t, r) /\ r \in Live
        \/ PumpUnsent /\ hand.req = r
    BY <1>2, PeerEnds
  <2>2. /\ \/ <<"sent", r>> \in said
           \/ hand.at = "send" /\ hand.req = r
        /\ answered \subseteq answered'
        /\ origin'[r] = origin[r] \/ (<<"req", r>> \notin said /\ phase' = phase)
        /\ hand.at = "forward" => hand' = hand \/ PumpForward
    BY <1>2, PeerMoves
  <2>3. ~(PumpUnsent /\ hand.req = r)
    BY <1>0, <2>2 DEF PumpUnsent, RequestsWired
  <2>4. phase[r] # "new" /\ <<"req", r>> \in said
    BY <1>0, <2>2 DEF RequestsWired, PeersWired
  <2>5. origin'[r] = origin[r] /\ origin[r] \in up
    BY <2>0, <2>2, <2>4
  <2>6. CASE phase'[r] = phase[r]
    <3>1. r \in answered \/ (hand.at = "forward" /\ hand.req = r /\ IsTerminal(hand.kind))
      BY <2>2, <2>5, <2>6 DEF PeersAnswered
    <3>2. CASE PumpForward /\ hand.req = r /\ IsTerminal(hand.kind)
      <4>1. hand.to = origin[r] /\ hand.to \in up
        BY <1>0, <2>5, <3>2 DEF PumpForward, RequestsWired
      <4> QED
        BY <3>2, <4>1 DEF PumpForward
    <3> QED
      BY <2>2, <3>1, <3>2
  <2>7. ASSUME NEW t \in Tasks, SweepDeadKey(t, r), r \in Live
        PROVE  r \in answered'
    <3>1. origin[r] \in healthy
      BY <2>5 DEF NoneOutOfService
    <3> QED
      BY <2>5, <2>7, <3>1 DEF SweepDeadKey
  <2> QED
    BY <2>1, <2>3, <2>6, <2>7
<1> QED
  BY <1>1, <1>2

\* Without peer calls in the scenario none is ever registered.
NoPeers == budget.made \cap Peers = {}

LEMMA NoPeersNext == Shape /\ NoPeers /\ [Next]_vars => NoPeers'
<1> SUFFICES ASSUME Shape, NoPeers, [Next]_vars PROVE budget'.made = budget.made
  BY DEF NoPeers
<1>1. budget \in Bounds
  BY DEF Shape
<1>2. ASSUME NEW t \in Tasks, CallStep(t) PROVE budget' = budget
  BY <1>2 DEF CallStep, DeathStep, MarkUnhealthy, SnapshotDeadKeys, SweepDone, SweepDeadKey, RebuildStep,
     ReadHealth, ReadCaps, WriteCapTable, CancelStep, CancelTerminate, CancelWrite, CancelAnswer
<1>3. ASSUME \/ StopAll
             \/ \E e \in Externals : CallerStep(e) \/ DropReceiver(e) \/ Stop(e) \/ StopFeeds(e)
             \/ \E k \in Masters : AttachBegin(k) \/ AttachCommit(k)
      PROVE  budget'.made = budget.made
  BY <1>1, <1>3 DEF StopAll, Stop, StopFeeds, DropReceiver, AttachBegin, AttachCommit, CallerStep, Route,
     Admit, AdmitRefused, RegisterExternal, WriteReq, GiveUp, LookUpBody, WriteBody, Bounds
<1>4. CASE PumpStep \/ ProbeStep
  BY <1>4 DEF ProbeStep, ProbeStart, ProbeWrite, ProbeAnswered, ProbeEnd, ProbeMark, PumpStep,
     PumpDeliver, PumpForward, PumpRegister, PumpSend, PumpUnsent, PumpRelay, PumpUpdate, PumpHoldBack,
     PumpQueueProbe,
     TakeResponse, TakeReq, TakeContinuation, TakeNotify, TakeEof
<1>5. CASE HostStep
  BY <1>1, <1>5 DEF HostStep, EmitData, EmitTerminal, EmitPeerReq, EmitContinuation, EmitNotify, Break,
     Bounds
<1> QED
  BY <1>2, <1>3, <1>4, <1>5 DEF Next, vars

\* A request leaves the table only together with an answer: a caller of the
\* engine has its terminal or is about to, and a peer call that reached its
\* destination has its response or an ERR while its source can be reached.  For
\* peer calls, if no host updates its caps and no master comes back; or if there
\* are none.
THEOREM ReleasedAnswered ==
  ASSUME \A s \in Scenarios : (NoUpdates(s) /\ s.attach = 0) \/ s.made \cap Peers = {}
  PROVE  Spec => []AnsweredWhenReleased
<1> DEFINE Known == (NoneOutOfService /\ PeersAnswered) \/ NoPeers
           Answered == Wiring /\ Known
<1>1. Init => Answered
  BY WiringInit, NoneOutOfServiceInit, PeersAnsweredInit DEF Init, NoPeers
<1>2. Inv /\ Answered /\ [Next]_vars => Answered'
  <2> SUFFICES ASSUME Inv, Answered, [Next]_vars PROVE Answered'
    OBVIOUS
  <2>1. Shape /\ Wiring'
    BY WiringNext DEF Inv
  <2>2. CASE NoneOutOfService /\ PeersAnswered
    BY <2>1, <2>2, NoneOutOfServiceNext, PeersAnsweredNext
  <2>3. CASE NoPeers
    BY <2>1, <2>3, NoPeersNext
  <2> QED
    BY <2>2, <2>3
<1>3. Inv /\ Answered => AnsweredWhenReleased
  <2> SUFFICES ASSUME Inv, Answered PROVE SentPeersAnswered
    BY DEF Inv, Ledger, AnsweredWhenReleased
  <2>1. CASE PeersAnswered
    BY <2>1 DEF PeersAnswered, SentPeersAnswered
  <2>2. CASE NoPeers
    <3>1. \A p \in Peers : phase[p] = "new"
      BY <2>2 DEF NoPeers, Wiring, PeersWired
    <3> QED
      BY <3>1 DEF SentPeersAnswered
  <2> QED
    BY <2>1, <2>2
<1> HIDE DEF Answered
<1> QED
  BY <1>1, <1>2, <1>3, InvAlways, PTL DEF Spec
=============================================================================
