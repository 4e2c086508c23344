----------------------------- MODULE RelaySwitch -----------------------------
(***************************************************************************)
(* The life of requests in a RelaySwitch (relay_switch.rs) over its        *)
(* RequestTable (request_state.rs): registration, routing, responses,      *)
(* peer calls, cancellation, the death of a master and its return.         *)
(*                                                                         *)
(* A master is a relay connection with a host behind it; the host is the   *)
(* environment.  A step is what the code does between two awaits that let  *)
(* another task in: a critical section of the request table, a write to a  *)
(* master, a read or a write of the cap table.                             *)
(***************************************************************************)
EXTENDS Integers, Sequences, FiniteSets

CONSTANTS
  Externals,    \* requests of the engine (execute_cap)
  Peers,        \* peer calls of cartridges
  Probes,       \* runtime identity probes
  Masters,      \* relay connections
  ParentOf,     \* the request during which a peer call is made
  Capacity,     \* handler slots behind each master, 0 = no limit
  Scenarios     \* bounds: what a behaviour may contain, one scenario each

\* The tasks of the switch itself; each caller is a task too.
Routines == {"pump", "eof", "probe", "attach", "user"}
Requests == Externals \cup Peers \cup Probes
\* Requests whose responses go to a channel of the switch's own process.
Channelled == Externals \cup Probes

\* How many connections break and masters reattach; how many RelayNotify
\* updates each master sends; how often the engine cancels or stops requests
\* and drops a receiver; which requests are made and which of them send data
\* and continuations; and the masters that offer caps at the start.
Bounds == [deaths : Nat, attach : Nat, notify : [Masters -> Nat], stops : Nat, drops : Nat,
           made : SUBSET Requests, chatty : SUBSET Requests, offering : SUBSET Masters]

ASSUME ConstantsAssumption ==
  /\ Externals \cap Peers = {} /\ Externals \cap Probes = {} /\ Peers \cap Probes = {}
  /\ Requests # {} /\ Masters # {}
  /\ Externals \cap Routines = {}
  /\ ParentOf \in [Peers -> Requests]
  /\ Capacity \in Nat
  /\ Scenarios \subseteq Bounds

VARIABLES
  phase,     \* per request: new, live (it is in the table), or its TerminalKind
  dest,      \* per request: RoutingEntry.destination_master_idx
  origin,    \* per peer call: the master it came from
  children,  \* per request: peer calls linked under it while it was live
  permits,   \* external requests whose AdmissionPermit is not dropped
  channel,   \* per channelled request: what was delivered to its channel
  deaf,      \* external requests whose receiver was dropped
  answered,  \* peer calls whose source master was sent a terminal
  up,        \* masters whose connection works
  healthy,   \* masters whose `healthy` flag is set
  offering,  \* masters whose `caps` is not empty
  attaching, \* the master add_master is reading the handshake of
  routable,  \* masters in cap_table
  inbox,     \* per master: frames its reader has for the pump, in order
  jobs,      \* per master: requests its host received and has not ended
  pc,        \* per external request: where its caller stands
  hand,      \* the frame the pump is handling
  probing,   \* the probe driver's current probe
  probeQueue,\* masters to probe
  death,     \* per task: the death of a master it is handling
  cancel,    \* per task: what is left of the cancellation it is performing
  rebuild,   \* per task: the rebuild of cap_table it is performing
  said,      \* bookkeeping of the hosts: frames already emitted, REQs received
  budget     \* what is left of the scenario's bounds

table == <<phase, dest, children, permits>>
delivery == <<channel, answered>>
links == <<up, healthy, offering, attaching>>
hosts == <<inbox, jobs, said, origin>>
tasks == <<pc, hand, probing, probeQueue>>
calls == <<death, cancel, rebuild>>
vars == <<table, delivery, deaf, links, routable, hosts, tasks, calls, budget>>

\* Tasks that run code of the switch.  The pump handles frames with frame_rx
\* locked; "eof" handles closed connections, with frame_rx unlocked.
Tasks == Externals \cup Routines

TerminalKinds == {"end", "err", "cancelled", "master_died"}
Live == {r \in Requests : phase[r] = "live"}
NoDeath == [at |-> "idle", master |-> CHOOSE m \in Masters : TRUE, todo |-> {}]
NoRebuild == [at |-> "idle", left |-> {}, draft |-> {}]
StartRebuild == [at |-> "health", left |-> Masters, draft |-> {}]
NoHand == [at |-> "idle", kind |-> "none", req |-> CHOOSE r \in Requests : TRUE,
           to |-> CHOOSE m \in Masters : TRUE, news |-> "none"]
NoProbe == [at |-> "idle", req |-> CHOOSE r \in Requests : TRUE,
            master |-> CHOOSE m \in Masters : TRUE, ok |-> FALSE]

Kinds == {"data", "end", "err", "req", "cont", "cancel", "notify", "eof"}
Frames == [kind : Kinds, req : Requests, caps : BOOLEAN]
Frame(k, r) == [kind |-> k, req |-> r, caps |-> FALSE]
Deliveries == {"data", "end", "err", "cancelled", "master_died"}

Phases == {"new", "live"} \cup TerminalKinds
CallerPCs == {"idle", "routed", "admitted", "sending", "giveUp", "streaming", "writingBody",
              "done", "failed"}
Hands == [at : {"idle", "deliver", "forward", "register", "send", "unsent", "relay", "update", "updated",
                "rebuilt"},
          kind : Kinds \cup {"none"}, req : Requests, to : Masters, news : {"none", "caps", "first"}]
ProbeStates == [at : {"idle", "write", "wait", "end", "mark"}, req : Requests,
                master : Masters, ok : BOOLEAN]
Deaths == [at : {"idle", "mark", "snapshot", "sweep"}, master : Masters, todo : SUBSET Requests]
Works == [do : {"cancel", "write", "answer"}, req : Requests]
Rebuilds == [at : {"idle", "health", "caps"}, left : SUBSET Masters, draft : SUBSET Masters]

TableType ==
  /\ phase \in [Requests -> Phases]
  /\ dest \in [Requests -> Masters]
  /\ children \in [Requests -> Seq(Peers)]
  /\ permits \subseteq Externals
DeliveryType ==
  /\ channel \in [Channelled -> Seq(Deliveries)]
  /\ deaf \subseteq Externals /\ answered \subseteq Peers
LinksType ==
  /\ up \subseteq Masters /\ healthy \subseteq Masters
  /\ offering \subseteq Masters /\ routable \subseteq Masters /\ attaching \subseteq Masters
HostsType ==
  /\ inbox \in [Masters -> Seq(Frames)]
  /\ jobs \in [Masters -> SUBSET Requests]
  /\ said \subseteq {"data", "req", "cont", "sent"} \X Requests
  /\ origin \in [Peers -> Masters]
TasksType ==
  /\ pc \in [Externals -> CallerPCs]
  /\ hand \in Hands /\ probing \in ProbeStates /\ probeQueue \in Seq(Masters)
CallsType ==
  /\ death \in [Tasks -> Deaths]
  /\ cancel \in [Tasks -> Seq(Works)]
  /\ rebuild \in [Tasks -> Rebuilds]

TypeOK == /\ TableType /\ DeliveryType /\ LinksType /\ HostsType /\ TasksType /\ CallsType
          /\ budget \in Bounds

\* A task that is not inside a call to one of the shared routines.
Free(t) == death[t].at = "idle" /\ cancel[t] = <<>> /\ rebuild[t].at = "idle"

(***************************************************************************)
(* The request table.                                                      *)
(***************************************************************************)

Register(r, m) ==
  /\ phase[r] = "new"
  /\ phase' = [phase EXCEPT ![r] = "live"]
  /\ dest' = [dest EXCEPT ![r] = m]

\* RequestTable::terminate of a live request; of any other it does nothing.
Terminate(r, kind) ==
  phase' = [phase EXCEPT ![r] = IF @ = "live" THEN kind ELSE @]

\* Sending to an unbounded channel never waits, and fails if nobody listens.
Deliver(r, what) ==
  channel' = IF r \in Channelled \ deaf THEN [channel EXCEPT ![r] = Append(@, what)]
                                        ELSE channel

(***************************************************************************)
(* The death of a master: handle_master_death_with_reason, run by the task *)
(* whose write failed or by the one that read the end of the connection.   *)
(***************************************************************************)

\* Only the death of a master that is marked healthy is handled at all.
MasterDies(t, m) ==
  death' = IF m \in healthy
             THEN [death EXCEPT ![t] = [NoDeath EXCEPT !.at = "mark", !.master = m]]
             ELSE death

\* With the flag goes the admission of the master (module Admission).
MarkUnhealthy(t) ==
  /\ death[t].at = "mark"
  /\ healthy' = healthy \ {death[t].master}
  /\ death' = [death EXCEPT ![t].at = "snapshot"]
  /\ UNCHANGED <<table, delivery, deaf, up, offering, attaching, routable, hosts, tasks,
                 cancel, rebuild, budget>>

\* Mutant: the requests of other masters are not swept.
SnapshotExternals(t) ==
  /\ death[t].at = "snapshot"
  /\ death' = [death EXCEPT ![t].at = "sweep",
                            ![t].todo = {r \in Live \cap Channelled :
                                           dest[r] = death[t].master}]
  /\ UNCHANGED <<table, delivery, deaf, links, routable, hosts, tasks, cancel, rebuild,
                 budget>>

SnapshotDeadKeys(t) ==
  /\ death[t].at = "snapshot"
  /\ death' = [death EXCEPT ![t].at = "sweep",
                            ![t].todo = {r \in Live : dest[r] = death[t].master}]
  /\ UNCHANGED <<table, delivery, deaf, links, routable, hosts, tasks, cancel, rebuild,
                 budget>>

\* Mutant: the sweep answers only requests that came from the engine.
SweepExternalsOnly(t, r) ==
  /\ death[t].at = "sweep"
  /\ r \in death[t].todo
  /\ death' = [death EXCEPT ![t].todo = @ \ {r}]
  /\ Terminate(r, "master_died")
  /\ IF r \in Live
       THEN /\ permits' = permits \ {r}
            /\ Deliver(r, "master_died")
       ELSE UNCHANGED <<permits, channel>>
  /\ UNCHANGED <<dest, children, answered, deaf, links, routable, hosts, tasks, cancel,
                 rebuild, budget>>

\* Terminate one dead request and tell whoever waits for it.
SweepDeadKey(t, r) ==
  /\ death[t].at = "sweep"
  /\ r \in death[t].todo
  /\ death' = [death EXCEPT ![t].todo = @ \ {r}]
  /\ Terminate(r, "master_died")
  /\ IF r \in Live
       THEN /\ permits' = permits \ {r}
            /\ Deliver(r, "master_died")
            /\ answered' = IF r \in Peers /\ origin[r] \in healthy \cap up
                             THEN answered \cup {r} ELSE answered
       ELSE UNCHANGED <<permits, delivery>>
  /\ UNCHANGED <<dest, children, deaf, links, routable, hosts, tasks, cancel, rebuild,
                 budget>>

\* The sweep is over: rebuild the tables.
SweepDone(t) ==
  /\ death[t].at = "sweep"
  /\ death[t].todo = {}
  /\ death' = [death EXCEPT ![t] = NoDeath]
  /\ rebuild' = [rebuild EXCEPT ![t] = StartRebuild]
  /\ UNCHANGED <<table, delivery, deaf, links, routable, hosts, tasks, cancel, budget>>

DeathStep(t) ==
  MarkUnhealthy(t) \/ SnapshotDeadKeys(t) \/ SweepDone(t)
    \/ \E r \in death[t].todo : SweepDeadKey(t, r)

(***************************************************************************)
(* rebuild_cap_table: master by master the health, then, behind a lock of   *)
(* their own, the caps; then replace the table.                            *)
(***************************************************************************)

\* The slot the loop is at; the loop goes through them in a fixed order.
Slot(t) == CHOOSE m \in rebuild[t].left : TRUE

ReadHealth(t) ==
  /\ rebuild[t].at = "health"
  /\ rebuild[t].left # {}
  /\ death[t].at = "idle"
  /\ rebuild' = IF Slot(t) \in healthy THEN [rebuild EXCEPT ![t].at = "caps"]
                                      ELSE [rebuild EXCEPT ![t].left = @ \ {Slot(t)}]
  /\ UNCHANGED <<table, delivery, deaf, links, routable, hosts, tasks, death, cancel, budget>>

ReadCaps(t) ==
  /\ rebuild[t].at = "caps"
  /\ rebuild' = [rebuild EXCEPT ![t] = [at |-> "health", left |-> @.left \ {Slot(t)},
                                        draft |-> @.draft \cup ({Slot(t)} \cap offering)]]
  /\ UNCHANGED <<table, delivery, deaf, links, routable, hosts, tasks, death, cancel, budget>>

WriteCapTable(t) ==
  /\ rebuild[t].at = "health"
  /\ rebuild[t].left = {}
  /\ routable' = rebuild[t].draft
  /\ rebuild' = [rebuild EXCEPT ![t] = NoRebuild]
  /\ UNCHANGED <<table, delivery, deaf, links, hosts, tasks, death, cancel, budget>>

RebuildStep(t) == ReadHealth(t) \/ ReadCaps(t) \/ WriteCapTable(t)

(***************************************************************************)
(* Cancellation: cancel_request and its recursion as a list of work.       *)
(***************************************************************************)

Work(do, r) == [do |-> do, req |-> r]
CancelAll(s) == [i \in 1 .. Len(s) |-> Work("cancel", s[i])]
InCancel(t) == cancel[t] # <<>> /\ death[t].at = "idle" /\ rebuild[t].at = "idle"

\* Mutant: the children of a cancelled request are not visited.
CancelTerminateOnly(t) ==
  /\ InCancel(t)
  /\ Head(cancel[t]).do = "cancel"
  /\ LET r == Head(cancel[t]).req
     IN  /\ Terminate(r, "cancelled")
         /\ cancel' = [cancel EXCEPT ![t] =
                         IF r \in Live
                           THEN <<Work("write", r), Work("answer", r)>> \o Tail(@)
                           ELSE Tail(@)]
  /\ UNCHANGED <<dest, children, permits, delivery, deaf, links, routable, hosts, tasks,
                 death, rebuild, budget>>

\* Terminate first; then the Cancel frame, the children, and the ERR.
CancelTerminate(t) ==
  /\ InCancel(t)
  /\ Head(cancel[t]).do = "cancel"
  /\ LET r == Head(cancel[t]).req
     IN  /\ Terminate(r, "cancelled")
         /\ cancel' = [cancel EXCEPT ![t] =
                         IF r \in Live
                           THEN <<Work("write", r)>> \o CancelAll(children[r])
                                  \o <<Work("answer", r)>> \o Tail(@)
                           ELSE Tail(@)]
  /\ UNCHANGED <<dest, children, permits, delivery, deaf, links, routable, hosts, tasks,
                 death, rebuild, budget>>

\* The Cancel frame: the host ignores it unless it runs the request.
CancelWrite(t) ==
  /\ InCancel(t)
  /\ Head(cancel[t]).do = "write"
  /\ LET r == Head(cancel[t]).req
         m == dest[r]
     IN  IF m \in up
           THEN UNCHANGED death
           ELSE MasterDies(t, m)
  /\ cancel' = [cancel EXCEPT ![t] = Tail(@)]
  /\ UNCHANGED <<table, delivery, deaf, links, routable, inbox, jobs, said, origin, tasks,
                 rebuild, budget>>

\* Mutant: the permit outlives the cancelled request.
CancelAnswerKeepsPermit(t) ==
  /\ InCancel(t)
  /\ Head(cancel[t]).do = "answer"
  /\ Deliver(Head(cancel[t]).req, "cancelled")
  /\ cancel' = [cancel EXCEPT ![t] = Tail(@)]
  /\ UNCHANGED <<phase, dest, children, permits, answered, deaf, links, routable, hosts,
                 tasks, death, rebuild, budget>>

\* ERR CANCELLED to the channel; the state, and its permit with it, is dropped.
CancelAnswer(t) ==
  /\ InCancel(t)
  /\ Head(cancel[t]).do = "answer"
  /\ Deliver(Head(cancel[t]).req, "cancelled")
  /\ permits' = permits \ {Head(cancel[t]).req}
  /\ cancel' = [cancel EXCEPT ![t] = Tail(@)]
  /\ UNCHANGED <<phase, dest, children, answered, deaf, links, routable, hosts, tasks,
                 death, rebuild, budget>>

CancelStep(t) == CancelTerminate(t) \/ CancelWrite(t) \/ CancelAnswer(t)

\* cancel_request, by an engine that has the rid from execute_cap.
Stop(r) ==
  /\ Free("user")
  /\ budget.stops > 0
  /\ pc[r] \in {"streaming", "writingBody", "done"}
  /\ budget' = [budget EXCEPT !.stops = @ - 1]
  /\ cancel' = [cancel EXCEPT !["user"] = <<Work("cancel", r)>>]
  /\ UNCHANGED <<table, delivery, deaf, links, routable, hosts, tasks, death, rebuild>>

\* stop_request_feeds: the Cancel frame alone; the request ends by itself.
StopFeeds(r) ==
  /\ Free("user")
  /\ budget.stops > 0
  /\ pc[r] \in {"streaming", "writingBody", "done"}
  /\ r \in Live
  /\ budget' = [budget EXCEPT !.stops = @ - 1]
  /\ cancel' = [cancel EXCEPT !["user"] = <<Work("write", r)>>]
  /\ UNCHANGED <<table, delivery, deaf, links, routable, hosts, tasks, death, rebuild>>

\* cancel_all_requests: every request without an origin that is live now.
StopAll ==
  /\ Free("user")
  /\ budget.stops > 0
  /\ budget' = [budget EXCEPT !.stops = @ - 1]
  /\ \E s \in [1 .. Cardinality(Live \cap Channelled) -> Live \cap Channelled] :
       /\ \A i, j \in DOMAIN s : s[i] = s[j] => i = j
       /\ cancel' = [cancel EXCEPT !["user"] = CancelAll(s)]
  /\ UNCHANGED <<table, delivery, deaf, links, routable, hosts, tasks, death, rebuild>>

(***************************************************************************)
(* The caller of execute_cap: route, admission, registration, REQ, body.   *)
(***************************************************************************)

HasRoom(m) ==
  Capacity = 0 \/ Cardinality({r \in permits : dest[r] = m}) < Capacity

Route(e) ==
  /\ e \in budget.made
  /\ pc[e] = "idle"
  /\ IF routable = {}
       THEN pc' = [pc EXCEPT ![e] = "failed"] /\ UNCHANGED dest
       ELSE /\ \E m \in routable : dest' = [dest EXCEPT ![e] = m]
            /\ pc' = [pc EXCEPT ![e] = "routed"]
  /\ UNCHANGED <<phase, children, permits, delivery, deaf, links, routable, hosts, hand,
                 probing, probeQueue, calls, budget>>

\* The admission of the caller; module Admission has its detail.
Admit(e) ==
  /\ pc[e] = "routed"
  /\ HasRoom(dest[e])
  /\ permits' = permits \cup {e}
  /\ pc' = [pc EXCEPT ![e] = "admitted"]
  /\ UNCHANGED <<phase, dest, children, delivery, deaf, links, routable, hosts, hand,
                 probing, probeQueue, calls, budget>>

\* The outage of the target outlived the window.
AdmitRefused(e) ==
  /\ pc[e] = "routed"
  /\ dest[e] \notin healthy
  /\ pc' = [pc EXCEPT ![e] = "failed"]
  /\ UNCHANGED <<table, delivery, deaf, links, routable, hosts, hand, probing, probeQueue,
                 calls, budget>>

RegisterExternal(e) ==
  /\ pc[e] = "admitted"
  /\ Register(e, dest[e])
  /\ pc' = [pc EXCEPT ![e] = "sending"]
  /\ UNCHANGED <<children, permits, delivery, deaf, links, routable, hosts, hand, probing,
                 probeQueue, calls, budget>>

\* The host of m has received the REQ of r.
Receive(m, r) ==
  /\ jobs' = [jobs EXCEPT ![m] = @ \cup {r}]
  /\ said' = said \cup {<<"sent", r>>}

\* write_initial_request: the write, then, if it failed, the removal.
WriteReq(e) ==
  /\ pc[e] = "sending"
  /\ IF dest[e] \in up
       THEN /\ Receive(dest[e], e)
            /\ pc' = [pc EXCEPT ![e] = "streaming"]
            /\ UNCHANGED death
       ELSE /\ MasterDies(e, dest[e])
            /\ pc' = [pc EXCEPT ![e] = "giveUp"]
            /\ UNCHANGED <<jobs, said>>
  /\ UNCHANGED <<table, delivery, deaf, links, routable, inbox, origin, hand,
                 probing, probeQueue, cancel, rebuild, budget>>

GiveUp(e) ==
  /\ pc[e] = "giveUp"
  /\ Free(e)
  /\ Terminate(e, "master_died")
  /\ permits' = IF e \in Live THEN permits \ {e} ELSE permits
  /\ pc' = [pc EXCEPT ![e] = "failed"]
  /\ UNCHANGED <<dest, children, delivery, deaf, links, routable, hosts, hand, probing,
                 probeQueue, calls, budget>>

\* send_to_master with a body frame: look the request up, then write.
LookUpBody(e) ==
  /\ pc[e] = "streaming"
  /\ pc' = [pc EXCEPT ![e] = IF e \in Live THEN "writingBody" ELSE "done"]
  /\ UNCHANGED <<table, delivery, deaf, links, routable, hosts, hand, probing, probeQueue,
                 calls, budget>>

WriteBody(e) ==
  /\ pc[e] = "writingBody"
  /\ pc' = [pc EXCEPT ![e] = "done"]
  /\ IF dest[e] \in up THEN UNCHANGED death ELSE MasterDies(e, dest[e])
  /\ UNCHANGED <<table, delivery, deaf, links, routable, hosts, hand, probing, probeQueue,
                 cancel, rebuild, budget>>

CallerStep(e) ==
  \/ Route(e) \/ Admit(e) \/ AdmitRefused(e) \/ RegisterExternal(e) \/ WriteReq(e)
  \/ GiveUp(e) \/ LookUpBody(e) \/ WriteBody(e)

\* The engine drops the response receiver (an abandoned or timed-out run).
DropReceiver(e) ==
  /\ pc[e] \in {"streaming", "writingBody", "done"}
  /\ e \notin deaf
  /\ budget.drops > 0
  /\ budget' = [budget EXCEPT !.drops = @ - 1]
  /\ deaf' = deaf \cup {e}
  /\ UNCHANGED <<table, delivery, links, routable, hosts, tasks, calls>>

(***************************************************************************)
(* The pump: read_from_masters_timeout and handle_master_frame.            *)
(***************************************************************************)

Holding(at, f, m) == [at |-> at, kind |-> f.kind, req |-> f.req, to |-> m, news |-> "none"]
PumpFree == hand.at = "idle" /\ Free("pump")
IsTerminal(kind) == kind \in {"end", "err"}

Take(m) == inbox' = [inbox EXCEPT ![m] = Tail(@)]

\* Mutant: a terminal is looked up under one guard and removed under another,
\* so the second one for a request finds its way too.
TakeResponseUnchecked(m) ==
  LET f == Head(inbox[m])
  IN  /\ PumpFree
      /\ inbox[m] # <<>>
      /\ f.kind \in {"data", "end", "err"}
      /\ Take(m)
      /\ IF IsTerminal(f.kind)
           THEN Terminate(f.req, f.kind) /\ permits' = permits \ {f.req}
           ELSE UNCHANGED <<phase, permits>>
      /\ hand' = IF f.req \in Channelled THEN Holding("deliver", f, m)
                                         ELSE Holding("forward", f, origin[f.req])
      /\ UNCHANGED <<dest, children, delivery, deaf, links, routable, jobs, said,
                     origin, pc, probing, probeQueue, calls, budget>>

\* A response: under one guard of the table resolve the way back, and on a
\* terminal remove the entry.  A frame of a released request is dropped.
TakeResponse(m) ==
  LET f == Head(inbox[m])
  IN  /\ PumpFree
      /\ inbox[m] # <<>>
      /\ f.kind \in {"data", "end", "err"}
      /\ Take(m)
      /\ IF f.req \in Live
           THEN /\ IF IsTerminal(f.kind)
                     THEN Terminate(f.req, f.kind) /\ permits' = permits \ {f.req}
                     ELSE UNCHANGED <<phase, permits>>
                /\ hand' = IF f.req \in Channelled THEN Holding("deliver", f, m)
                                                   ELSE Holding("forward", f, origin[f.req])
           ELSE UNCHANGED <<phase, permits, hand>>
      /\ UNCHANGED <<dest, children, delivery, deaf, links, routable, jobs, said,
                     origin, pc, probing, probeQueue, calls, budget>>

\* Send to the channel, outside the guard.  If nobody listens to a request
\* that has not ended, cancel it.
PumpDeliver ==
  /\ hand.at = "deliver"
  /\ hand' = NoHand
  /\ Deliver(hand.req, hand.kind)
  /\ cancel' = IF hand.req \in deaf /\ ~IsTerminal(hand.kind)
                 THEN [cancel EXCEPT !["pump"] = <<Work("cancel", hand.req)>>] ELSE cancel
  /\ UNCHANGED <<table, answered, deaf, links, routable, hosts, pc, probing, probeQueue,
                 death, rebuild, budget>>

\* Write the response of a peer call to the master it came from.
PumpForward ==
  /\ hand.at = "forward"
  /\ hand' = NoHand
  /\ IF hand.to \in up
       THEN /\ answered' = IF IsTerminal(hand.kind) THEN answered \cup {hand.req}
                                                    ELSE answered
            /\ UNCHANGED death
       ELSE MasterDies("pump", hand.to) /\ UNCHANGED answered
  /\ UNCHANGED <<table, channel, deaf, links, routable, hosts, pc, probing, probeQueue,
                 cancel, rebuild, budget>>

\* The REQ of a peer call: find its route, or answer NO_HANDLER.
TakeReq(m) ==
  LET f == Head(inbox[m])
  IN  /\ PumpFree
      /\ inbox[m] # <<>>
      /\ f.kind = "req"
      /\ Take(m)
      /\ IF routable = {}
           THEN /\ answered' = IF m \in up THEN answered \cup {f.req} ELSE answered
                /\ UNCHANGED hand
           ELSE /\ \E to \in routable : hand' = Holding("register", f, to)
                /\ UNCHANGED answered
      /\ UNCHANGED <<table, channel, deaf, links, routable, jobs, said, origin, pc,
                     probing, probeQueue, calls, budget>>

\* Register the peer call and link it under its parent, under one guard.
PumpRegister ==
  /\ hand.at = "register"
  /\ Register(hand.req, hand.to)
  /\ children' = IF ParentOf[hand.req] \in Live
                   THEN [children EXCEPT ![ParentOf[hand.req]] = Append(@, hand.req)]
                   ELSE children
  /\ hand' = [hand EXCEPT !.at = "send"]
  /\ UNCHANGED <<permits, delivery, deaf, links, routable, hosts, pc, probing, probeQueue,
                 calls, budget>>

PumpSend ==
  /\ hand.at = "send"
  /\ IF hand.to \in up
       THEN /\ Receive(hand.to, hand.req)
            /\ hand' = NoHand
            /\ UNCHANGED death
       ELSE /\ MasterDies("pump", hand.to)
            /\ hand' = [hand EXCEPT !.at = "unsent"]
            /\ UNCHANGED <<jobs, said>>
  /\ UNCHANGED <<table, delivery, deaf, links, routable, inbox, origin, pc, probing,
                 probeQueue, cancel, rebuild, budget>>

\* Mutant: the entry of a REQ that could not be written stays in the table.
PumpUnsentKeepsEntry ==
  /\ hand.at = "unsent"
  /\ Free("pump")
  /\ hand' = NoHand
  /\ UNCHANGED <<table, delivery, deaf, links, routable, hosts, pc, probing, probeQueue,
                 calls, budget>>

\* The REQ could not be written: the entry goes, and the source is not told.
PumpUnsent ==
  /\ hand.at = "unsent"
  /\ Free("pump")
  /\ Terminate(hand.req, "master_died")
  /\ hand' = NoHand
  /\ UNCHANGED <<dest, children, permits, delivery, deaf, links, routable, hosts, pc, probing,
                 probeQueue, calls, budget>>

\* A continuation of a peer call, or its Cancel, for the destination.
TakeContinuation(m) ==
  LET f == Head(inbox[m])
  IN  /\ PumpFree
      /\ inbox[m] # <<>>
      /\ f.kind \in {"cont", "cancel"}
      /\ Take(m)
      /\ hand' = IF f.req \in Live THEN Holding("relay", f, dest[f.req]) ELSE hand
      /\ UNCHANGED <<table, delivery, deaf, links, routable, jobs, said, origin, pc,
                     probing, probeQueue, calls, budget>>

PumpRelay ==
  /\ hand.at = "relay"
  /\ hand' = NoHand
  /\ IF hand.to \in up
       THEN UNCHANGED death
       ELSE MasterDies("pump", hand.to)
  /\ UNCHANGED <<table, delivery, deaf, links, routable, hosts, pc, probing, probeQueue,
                 cancel, rebuild, budget>>

\* RelayNotify: read the prior caps, that tell whether the new ones are the
\* master's first and it must be probed.
TakeNotify(m) ==
  LET f == Head(inbox[m])
      news == IF ~f.caps THEN "none" ELSE IF m \in offering THEN "caps" ELSE "first"
  IN  /\ PumpFree
      /\ inbox[m] # <<>>
      /\ f.kind = "notify"
      /\ Take(m)
      /\ hand' = [Holding("update", f, m) EXCEPT !.news = news]
      /\ UNCHANGED <<table, delivery, deaf, links, routable, jobs, said, origin, pc, probing,
                     probeQueue, calls, budget>>

PumpUpdate ==
  /\ hand.at = "update"
  /\ offering' = IF hand.news = "none" THEN offering \ {hand.to} ELSE offering \cup {hand.to}
  /\ hand' = [hand EXCEPT !.at = "updated"]
  /\ UNCHANGED <<table, delivery, deaf, up, healthy, attaching, routable, hosts, pc, probing,
                 probeQueue, calls, budget>>

\* A master with its first caps is held back until it is probed.  Its caps
\* were published before, with awaits between: see ProbedBeforeRouted.
PumpHoldBack ==
  /\ hand.at = "updated"
  /\ healthy' = IF hand.news = "first" THEN healthy \ {hand.to} ELSE healthy
  /\ rebuild' = [rebuild EXCEPT !["pump"] = StartRebuild]
  /\ hand' = IF hand.news = "first" THEN [hand EXCEPT !.at = "rebuilt"] ELSE NoHand
  /\ UNCHANGED <<table, delivery, deaf, up, offering, attaching, routable, hosts, pc, probing,
                 probeQueue, death, cancel, budget>>

PumpQueueProbe ==
  /\ hand.at = "rebuilt"
  /\ Free("pump")
  /\ probeQueue' = Append(probeQueue, hand.to)
  /\ hand' = NoHand
  /\ UNCHANGED <<table, delivery, deaf, links, routable, hosts, pc, probing, calls, budget>>

\* The end of a connection, handled after frame_rx is unlocked.
TakeEof(m) ==
  /\ PumpFree
  /\ Free("eof")
  /\ inbox[m] # <<>>
  /\ Head(inbox[m]).kind = "eof"
  /\ Take(m)
  /\ MasterDies("eof", m)
  /\ UNCHANGED <<table, delivery, deaf, links, routable, jobs, said, origin, tasks,
                 cancel, rebuild, budget>>

PumpStep ==
  \/ PumpDeliver \/ PumpForward \/ PumpRegister \/ PumpSend \/ PumpUnsent \/ PumpRelay
  \/ PumpUpdate \/ PumpHoldBack \/ PumpQueueProbe
  \/ \E m \in Masters : TakeResponse(m) \/ TakeReq(m) \/ TakeContinuation(m)
                          \/ TakeNotify(m) \/ TakeEof(m)

(***************************************************************************)
(* The probe driver: run_identity_probe_via_relay, one master at a time.   *)
(***************************************************************************)

ProbeStart(r) ==
  /\ Free("probe")
  /\ probing.at = "idle"
  /\ probeQueue # <<>>
  /\ Register(r, Head(probeQueue))
  /\ probeQueue' = Tail(probeQueue)
  /\ probing' = [at |-> "write", req |-> r, master |-> Head(probeQueue), ok |-> FALSE]
  /\ UNCHANGED <<children, permits, delivery, deaf, links, routable, hosts, pc, hand, calls,
                 budget>>

ProbeWrite ==
  /\ probing.at = "write"
  /\ IF probing.master \in up
       THEN /\ Receive(probing.master, probing.req)
            /\ probing' = [probing EXCEPT !.at = "wait"]
            /\ UNCHANGED death
       ELSE /\ MasterDies("probe", probing.master)
            /\ probing' = [probing EXCEPT !.at = "end"]
            /\ UNCHANGED <<jobs, said>>
  /\ UNCHANGED <<table, delivery, deaf, links, routable, inbox, origin, pc, hand,
                 probeQueue, cancel, rebuild, budget>>

Terminals(r) == {i \in DOMAIN channel[r] : channel[r][i] # "data"}

\* The answer comes, or the probe times out.
ProbeAnswered ==
  /\ probing.at = "wait"
  /\ \/ \E i \in Terminals(probing.req) :
          probing' = [probing EXCEPT !.at = "end", !.ok = channel[probing.req][i] = "end"]
     \/ probing' = [probing EXCEPT !.at = "end"]
  /\ UNCHANGED <<table, delivery, deaf, links, routable, hosts, pc, hand, probeQueue, calls,
                 budget>>

ProbeEnd ==
  /\ probing.at = "end"
  /\ Free("probe")
  /\ Terminate(probing.req, IF probing.ok THEN "end" ELSE "err")
  /\ probing' = [probing EXCEPT !.at = "mark"]
  /\ UNCHANGED <<dest, children, permits, delivery, deaf, links, routable, hosts, pc, hand,
                 probeQueue, calls, budget>>

ProbeMark ==
  /\ probing.at = "mark"
  /\ healthy' = IF probing.ok THEN healthy \cup {probing.master}
                              ELSE healthy \ {probing.master}
  /\ rebuild' = [rebuild EXCEPT !["probe"] = StartRebuild]
  /\ probing' = NoProbe
  /\ UNCHANGED <<table, delivery, deaf, up, offering, attaching, routable, hosts, pc, hand,
                 probeQueue, death, cancel, budget>>

ProbeStep ==
  (\E r \in Probes : ProbeStart(r)) \/ ProbeWrite \/ ProbeAnswered \/ ProbeEnd \/ ProbeMark

(***************************************************************************)
(* add_master with the id of an unhealthy slot: the slot gets a new link.  *)
(***************************************************************************)

\* add_master finds the slot unhealthy and starts the handshake.
AttachBegin(m) ==
  /\ attaching = {}
  /\ Free("attach")
  /\ budget.attach > 0
  /\ m \notin healthy
  /\ m \notin up
  /\ budget' = [budget EXCEPT !.attach = @ - 1]
  /\ attaching' = {m}
  /\ UNCHANGED <<table, delivery, deaf, up, healthy, offering, routable, hosts, tasks, calls>>

\* The slot gets the new connection, with the outcome of its identity probe.
\* Frames that the old reader already passed on stay in the channel, its EOF
\* among them; the rest goes with the aborted reader.
AttachCommit(m) ==
  /\ m \in attaching
  /\ attaching' = {}
  /\ up' = up \cup {m}
  /\ \E n \in 0 .. Len(inbox[m]) : inbox' = [inbox EXCEPT ![m] = SubSeq(@, 1, n)]
  /\ \E caps, ok \in BOOLEAN :
       /\ caps \/ ok
       /\ offering' = IF caps THEN offering \cup {m} ELSE offering \ {m}
       /\ healthy' = IF ok THEN healthy \cup {m} ELSE healthy \ {m}
  /\ rebuild' = [rebuild EXCEPT !["attach"] = StartRebuild]
  /\ UNCHANGED <<table, delivery, deaf, routable, jobs, said, origin, tasks, death,
                 cancel, budget>>

(***************************************************************************)
(* The hosts behind the masters: what they may send, and lost connections. *)
(***************************************************************************)

Emit(m, f) == inbox' = [inbox EXCEPT ![m] = Append(@, f)]

EmitData(m, r) ==
  /\ r \in jobs[m] \cap budget.chatty
  /\ <<"data", r>> \notin said
  /\ said' = said \cup {<<"data", r>>}
  /\ Emit(m, Frame("data", r))
  /\ UNCHANGED <<table, delivery, deaf, links, routable, jobs, origin, tasks, calls,
                 budget>>

EmitTerminal(m, r) ==
  /\ r \in jobs[m]
  /\ jobs' = [jobs EXCEPT ![m] = @ \ {r}]
  /\ \E k \in {"end", "err"} : Emit(m, Frame(k, r))
  /\ UNCHANGED <<table, delivery, deaf, links, routable, said, origin, tasks, calls,
                 budget>>

EmitPeerReq(m, r) ==
  /\ r \in budget.made
  /\ ParentOf[r] \in jobs[m]
  /\ <<"req", r>> \notin said
  /\ said' = said \cup {<<"req", r>>}
  /\ origin' = [origin EXCEPT ![r] = m]
  /\ Emit(m, Frame("req", r))
  /\ UNCHANGED <<table, delivery, deaf, links, routable, jobs, tasks, calls, budget>>

EmitContinuation(m, r) ==
  /\ m \in up
  /\ r \in budget.chatty
  /\ origin[r] = m
  /\ <<"req", r>> \in said
  /\ <<"cont", r>> \notin said
  /\ said' = said \cup {<<"cont", r>>}
  /\ \E k \in {"cont", "cancel"} : Emit(m, Frame(k, r))
  /\ UNCHANGED <<table, delivery, deaf, links, routable, jobs, origin, tasks, calls,
                 budget>>

EmitNotify(m, caps) ==
  /\ m \in up
  /\ budget.notify[m] > 0
  /\ budget' = [budget EXCEPT !.notify[m] = @ - 1]
  /\ Emit(m, [Frame("notify", CHOOSE r \in Requests : TRUE) EXCEPT !.caps = caps])
  /\ UNCHANGED <<table, delivery, deaf, links, routable, jobs, said, origin, tasks,
                 calls>>

\* The connection breaks: the host is gone, the reader reports the end.
Break(m) ==
  /\ m \in up
  /\ budget.deaths > 0
  /\ budget' = [budget EXCEPT !.deaths = @ - 1]
  /\ up' = up \ {m}
  /\ jobs' = [jobs EXCEPT ![m] = {}]
  /\ Emit(m, Frame("eof", CHOOSE r \in Requests : TRUE))
  /\ UNCHANGED <<table, delivery, deaf, healthy, offering, attaching, routable, said,
                 origin, tasks, calls>>

HostStep ==
  \E m \in Masters :
    \/ \E r \in Requests : EmitData(m, r) \/ EmitTerminal(m, r)
    \/ \E r \in Peers : EmitPeerReq(m, r) \/ EmitContinuation(m, r)
    \/ \E caps \in BOOLEAN : EmitNotify(m, caps)
    \/ Break(m)

Init ==
  /\ phase = [r \in Requests |-> "new"]
  /\ dest = [r \in Requests |-> CHOOSE m \in Masters : TRUE]
  /\ origin = [r \in Peers |-> CHOOSE m \in Masters : TRUE]
  /\ children = [r \in Requests |-> <<>>]
  /\ permits = {}
  /\ channel = [r \in Channelled |-> <<>>]
  /\ deaf = {} /\ answered = {}
  /\ up = Masters /\ healthy = Masters
  /\ budget \in Scenarios
  /\ offering = budget.offering /\ routable = budget.offering /\ attaching = {}
  /\ inbox = [m \in Masters |-> <<>>]
  /\ jobs = [m \in Masters |-> {}]
  /\ pc = [e \in Externals |-> "idle"]
  /\ hand = NoHand /\ probing = NoProbe /\ probeQueue = <<>>
  /\ death = [t \in Tasks |-> NoDeath]
  /\ cancel = [t \in Tasks |-> <<>>]
  /\ rebuild = [t \in Tasks |-> NoRebuild]
  /\ said = {}

CallStep(t) == DeathStep(t) \/ RebuildStep(t) \/ CancelStep(t)

Next ==
  \/ \E t \in Tasks : CallStep(t)
  \/ \E e \in Externals : CallerStep(e) \/ DropReceiver(e) \/ Stop(e) \/ StopFeeds(e)
  \/ StopAll
  \/ PumpStep
  \/ ProbeStep
  \/ \E m \in Masters : AttachBegin(m) \/ AttachCommit(m)
  \/ HostStep

\* Every task that runs goes on, the runtime being fair to its tasks, and the
\* host of a job ends it.
Fairness ==
  /\ \A t \in Tasks : WF_vars(CallStep(t))
  /\ \A e \in Externals : WF_vars(CallerStep(e))
  /\ WF_vars(PumpStep)
  /\ WF_vars(ProbeStep)
  /\ \A r \in Requests : WF_vars(\E m \in Masters : EmitTerminal(m, r))

Spec == Init /\ [][Next]_vars
FairSpec == Spec /\ Fairness

(***************************************************************************)
(* Properties.                                                             *)
(***************************************************************************)

Pending(do, r) == \E t \in Tasks : \E i \in DOMAIN cancel[t] : cancel[t][i] = Work(do, r)
Ended(r) == phase[r] \in TerminalKinds

\* Whoever races whom (the pump, a death, a cancellation, the caller itself),
\* a response channel gets at most one terminal: terminate answers once (L7).
OneTerminal == \A r \in Channelled : Cardinality(Terminals(r)) <= 1

\* The terminal is in the caller's channel, or on its way there, or the caller
\* is given an Err.
ExternalsAnswered ==
  \A e \in Externals \ deaf :
    Ended(e) =>
      \/ Terminals(e) # {}
      \/ pc[e] \in {"giveUp", "failed"}
      \/ hand.at = "deliver" /\ hand.req = e /\ IsTerminal(hand.kind)
      \/ Pending("answer", e)

\* So it is for a peer call that reached its destination: it has the response, or
\* the ERR of the destination's death, as long as its source can be reached.
SentPeersAnswered ==
  \A r \in Peers :
    /\ phase[r] \in {"end", "err", "master_died"}
    /\ <<"sent", r>> \in said
    /\ origin[r] \in up
    => r \in answered \/ (hand.at = "forward" /\ hand.req = r /\ IsTerminal(hand.kind))

\* A request leaves the table only together with an answer to whoever asked,
\* the engine or a cartridge behind a master (L6).
AnsweredWhenReleased == ExternalsAnswered /\ SentPeersAnswered

\* A permit lives exactly as long as the request it admits: from admission,
\* through the table, to the end of whatever removed the request from it.
PermitsFollowRequests ==
  permits = {e \in Externals : pc[e] = "admitted" \/ e \in Live \/ Pending("answer", e)}

\* A peer call linked under a cancelled request is cancelled or about to be.
CascadeReaches ==
  \A r \in Peers \cap Live :
    /\ phase[ParentOf[r]] = "cancelled"
    /\ \E i \in DOMAIN children[ParentOf[r]] : children[ParentOf[r]][i] = r
    => Pending("cancel", r)

\* The end of the connection of m was read by the pump.
Noticed(m) == m \notin up /\ \A i \in DOMAIN inbox[m] : inbox[m][i].kind # "eof"
DeathUnderWay(m) == \E t \in Tasks : death[t].at # "idle" /\ death[t].master = m

\* Once a dead master was noticed and its death handled, the table holds no
\* request for it except one whose caller is about to find out by itself.
DeadMasterHoldsNothing ==
  \A r \in Live :
    \/ ~Noticed(dest[r])
    \/ DeathUnderWay(dest[r])
    \/ r \in Externals /\ pc[r] \in {"sending", "giveUp"}
    \/ hand.at \in {"send", "unsent"} /\ hand.req = r
    \/ probing.at # "idle" /\ probing.req = r

\* A master that comes by its first caps is not routed to before its probe:
\* "we must probe it end-to-end before letting the new caps become routable".
\* A rebuild by another task, between the two writes of the update or begun
\* before them, routes to it; no run checks this.
ProbedBeforeRouted ==
  \A m \in routable :
    /\ \A i \in DOMAIN probeQueue : probeQueue[i] # m
    /\ ~(probing.at # "idle" /\ probing.master = m)

\* A master is marked dead only while the link it has now is broken.
DeathOnlyOfOwnSession == [][\A m \in healthy \ healthy' : m \notin up]_vars

\* A peer call that leaves the table without having been cancelled was
\* answered, as long as its source can be reached.
PeerAlwaysAnswered ==
  \A r \in Peers :
    /\ phase[r] \in {"end", "err", "master_died"}
    /\ origin[r] \in up
    => r \in answered \/ (hand.req = r /\ hand.at = "forward")

\* Every request ends: by its response, a cancellation or the death of its
\* master, wherever the death falls between its steps.
EveryRequestEnds == \A r \in Requests : r \in Live ~> r \notin Live
=============================================================================
