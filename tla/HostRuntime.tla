----------------------------- MODULE HostRuntime -----------------------------
(***************************************************************************)
(* A cartridge host (bifaci/host_runtime.rs): one loop between the relay,  *)
(* which brings the engine's requests, and the cartridge processes that    *)
(* serve them and make calls of their own.  The loop keeps who serves      *)
(* which request (incoming_rxids) and who made which call (outgoing_rids), *)
(* starts a process on demand, and when one dies answers for it.  Its two  *)
(* inputs, the processes' events and the relay's frames, come in any       *)
(* order, and a process dies at any moment: on its own, killed by the      *)
(* memory watchdog, by a forced Cancel, by a missed heartbeat, or because  *)
(* its install left the roster.                                            *)
(*                                                                         *)
(* What the host sends passes the relay slave (bifaci/relay.rs), whose     *)
(* reorder buffer wants every flow's frames numbered without a gap, and    *)
(* reaches the switch (RelaySwitch): here the switch takes a frame as soon *)
(* as the host sends it, and toHost delays what it sends in return.        *)
(*                                                                         *)
(* Left out: LOG frames, the eviction of routing entries by the thousand,  *)
(* the capabilities the host advertises, and the end of the relay.         *)
(***************************************************************************)
EXTENDS Integers, Sequences, FiniteSets, SequencesExt

CONSTANTS
    Cartridges, Requests,
    Handler,      \* [Requests -> Cartridges \cup {Elsewhere}]: who serves a request
    Caller,       \* [Requests -> Cartridges \cup {Elsewhere}]: who made it
    Parent,       \* [Requests -> Requests \cup {None}]: in whose service (parent_rid)
    Streaming,    \* Requests whose handler may answer before its input has ended
    BrokenPipes,  \* BOOLEAN: a write to a dead process may fail before its death is known
    Granted,      \* Requests that are sent a grant, one each
    Troubles,     \* Faults, Cancels and new rosters, at most
    Elsewhere, None

Here(x) == x \in Cartridges
Flows == Requests \X {"call", "answer"}    \* FlowKey: (rid, no XID), (rid, XID)

ASSUME HostAssumption ==
    /\ None \notin Cartridges \cup Requests
    /\ Parent \in [Requests -> Requests \cup {None}]
    /\ \A r \in Requests : /\ Here(Handler[r]) \/ Here(Caller[r])
                           /\ Handler[r] # Caller[r]
                           /\ Here(Caller[r]) <=> Parent[r] # None
                           /\ Parent[r] # None => Handler[Parent[r]] = Caller[r]
    /\ Streaming \cup Granted \subseteq Requests /\ BrokenPipes \in BOOLEAN /\ Troubles \in Nat

VARIABLES
    call,       \* [Requests -> {"new", "open", "over"}]: the switch's table
    sent,       \* Requests whose END whoever is elsewhere has sent
    granted,    \* Requests for which a grant has been sent
    toHost,     \* Frames from the switch
    expect,     \* [Flows -> Nat]: expected_seq of the slave's reorder buffer
    gap,        \* The slave met a frame out of sequence
    up,         \* The loop runs
    cart,       \* [Cartridges -> record]: the ManagedCartridges
    incoming,   \* [Requests -> Cartridges \cup {None}]: incoming_rxids
    outgoing,   \* [Requests -> Cartridges \cup {None}]: outgoing_rids
    bodyDone,   \* incoming_body_done
    respDone,   \* incoming_response_done
    peers,      \* [Requests -> SUBSET Requests]: incoming_to_peer_rids
    released,   \* recent_released_rids
    maxSeq,     \* [Flows -> Int]: outgoing_max_seq, -1 where there is none
    unrouted,   \* Requests a frame of which was counted no_route
    events,     \* CartridgeEvents not handled yet
    atHandler,  \* [Requests -> SUBSET types]: what the serving process has received
    atCaller,   \* [Requests -> SUBSET types]: what the calling process has received
    wrote,      \* [Flows -> Nat]: frames a process has written
    astray,     \* Requests a frame of which reached the wrong process
    troubles    \* Troubles left

net == <<call, toHost, expect, gap>>
tables == <<incoming, outgoing, bodyDone, respDone, peers, released, maxSeq, unrouted>>
process == <<atHandler, atCaller, wrote, astray>>
vars == <<call, sent, granted, toHost, expect, gap, up, cart, tables, events, process, troubles>>

Live(r) == call[r] = "open"
Terminal(type) == type \in {"end", "err"}

\* A frame for the host; to is whom the sender means it for, which only a
\* CREDIT frame says (credit_dir).
Frame(type, r, to) == [type |-> type, r |-> r, to |-> to, force |-> FALSE]
CancelFrame(r, force) == [type |-> "cancel", r |-> r, to |-> "handler", force |-> force]
\* A frame for the relay; the kind of flow says whether it has an XID.
Out(type, r, kind, seq) == [type |-> type, flow |-> <<r, kind>>, seq |-> seq]
------------------------------------------------------------------------------
(* The slave and the switch                                                *)

\* The reorder buffer, which Cancels do not enter.
Expected(f) ==
    /\ gap' = (gap \/ f.seq # expect[f.flow])
    /\ expect' = [expect EXCEPT ![f.flow] = IF Terminal(f.type) THEN 0 ELSE @ + 1]

Forward(queue, here, frame) == IF here THEN Append(queue, frame) ELSE queue

\* handle_master_frame: an answer goes to the caller, and a terminal one ends
\* the request; anything else is for the destination.
Routed(queue, f) ==
    LET r == f.flow[1] IN
    IF f.flow[2] = "answer"
      THEN /\ call' = [call EXCEPT ![r] = IF Live(r) /\ Terminal(f.type) THEN "over" ELSE @]
           /\ toHost' = Forward(queue, Live(r) /\ Here(Caller[r]), Frame(f.type, r, "caller"))
      ELSE /\ call' = [call EXCEPT ![r] = IF f.type = "req" THEN "open" ELSE @]
           /\ toHost' = Forward(queue, (f.type = "req" \/ Live(r)) /\ Here(Handler[r]),
                                Frame(f.type, r, "handler"))

\* The host sends a frame; queue is what it has not yet taken from the relay.
Send(queue, f) == Expected(f) /\ Routed(queue, f)
Silent == toHost' = Tail(toHost) /\ UNCHANGED <<call, expect, gap>>

\* What comes back of frames of one type sent for each of rs at once, in the
\* order a map happens to yield them.
Notices(type, rs, to) ==
    LET end == IF to = "handler" THEN Handler ELSE Caller
        order == SetToSeq({r \in rs : Live(r) /\ Here(end[r])})
    IN [i \in DOMAIN order |-> Frame(type, order[i], to)]
------------------------------------------------------------------------------
(* Processes                                                               *)

\* The process of c is no more: what it knew is gone.
Forget(c) ==
    /\ atHandler' = [r \in Requests |-> IF Handler[r] = c THEN {} ELSE atHandler[r]]
    /\ atCaller' = [r \in Requests |-> IF Caller[r] = c THEN {} ELSE atCaller[r]]
    /\ UNCHANGED <<wrote, astray>>

\* A frame written to c: a process takes it for what it knows of the request.
Give(c, m) ==
    IF ~cart[c].alive
      THEN UNCHANGED process
      ELSE LET side == IF Handler[m.r] = c THEN "handler" ELSE "caller"
               what == IF Terminal(m.type) THEN "end" ELSE m.type
               known == \/ side = "handler" /\ (m.type = "req" \/ "req" \in atHandler[m.r])
                        \/ side = "caller" /\ "call" \in atCaller[m.r]
           IN /\ atHandler' = IF known /\ side = "handler"
                                THEN [atHandler EXCEPT ![m.r] = @ \cup {what}] ELSE atHandler
              /\ atCaller' = IF known /\ side = "caller"
                               THEN [atCaller EXCEPT ![m.r] = @ \cup {what}] ELSE atCaller
              /\ astray' = IF known /\ side = m.to THEN astray ELSE astray \cup {m.r}
              /\ UNCHANGED wrote

\* The writer task of a dead process may meet the broken pipe on this frame.
Writers(c) == IF cart[c].alive \/ ~BrokenPipes THEN {cart[c].writer} ELSE {cart[c].writer, FALSE}

Emit(c, type, flow) ==
    /\ cart[c].alive
    /\ events' = Append(events, [c |-> c, gen |-> cart[c].gen, type |-> type,
                                 flow |-> flow, seq |-> wrote[flow]])
    /\ wrote' = [wrote EXCEPT ![flow] = @ + 1]

\* In the service of its parent a process calls r, once, and ends the call's
\* input.
CallPeer(r) ==
    /\ up /\ Here(Caller[r]) /\ wrote[<<r, "call">>] = 0
    /\ "req" \in atHandler[Parent[r]] /\ "answered" \notin atHandler[Parent[r]]
    /\ Emit(Caller[r], "req", <<r, "call">>)
    /\ atCaller' = [atCaller EXCEPT ![r] = {"call"}]
    /\ UNCHANGED <<net, sent, granted, up, cart, tables, atHandler, astray, troubles>>

CallEnd(r) ==
    /\ up /\ "call" \in atCaller[r] /\ wrote[<<r, "call">>] = 1
    /\ Emit(Caller[r], "end", <<r, "call">>)
    /\ UNCHANGED <<net, sent, granted, up, cart, tables, atHandler, atCaller, astray, troubles>>

MayAnswer(r) == /\ "req" \in atHandler[r] /\ "answered" \notin atHandler[r]
                /\ r \in Streaming \/ atHandler[r] \cap {"end", "cancel"} # {}

Answer(r) ==
    /\ up /\ MayAnswer(r) /\ wrote[<<r, "answer">>] = 0
    /\ Emit(Handler[r], "data", <<r, "answer">>)
    /\ UNCHANGED <<net, sent, granted, up, cart, tables, atHandler, atCaller, astray, troubles>>

\* A handler answers when the calls it made have ended, or it was cancelled.
AnswerEnd(r) ==
    /\ up /\ MayAnswer(r)
    /\ \/ "cancel" \in atHandler[r]
       \/ \A p \in Requests : Parent[p] = r /\ "call" \in atCaller[p] => "end" \in atCaller[p]
    /\ Emit(Handler[r], "end", <<r, "answer">>)
    /\ atHandler' = [atHandler EXCEPT ![r] = @ \cup {"answered"}]
    /\ UNCHANGED <<net, sent, granted, up, cart, tables, atCaller, astray, troubles>>

Trouble == troubles > 0 /\ troubles' = troubles - 1

\* On its own, or at a KillCartridge of the memory watchdog: why only words
\* the ERR.
Crash(c) ==
    /\ up /\ cart[c].alive /\ Trouble
    /\ cart' = [cart EXCEPT ![c].alive = FALSE]
    /\ Forget(c)
    /\ UNCHANGED <<net, sent, granted, up, tables, events>>

\* The reader task meets the end of the process's output.
ReaderEnds(c) ==
    /\ up /\ ~cart[c].alive /\ cart[c].reader
    /\ cart' = [cart EXCEPT ![c].reader = FALSE]
    /\ events' = Append(events, [c |-> c, gen |-> cart[c].gen, type |-> "death"])
    /\ UNCHANGED <<net, sent, granted, up, tables, process, troubles>>
------------------------------------------------------------------------------
(* Whoever calls from elsewhere, and whoever answers there                 *)

Request(r) ==
    /\ up /\ ~Here(Caller[r]) /\ call[r] = "new"
    /\ call' = [call EXCEPT ![r] = "open"]
    /\ toHost' = Append(toHost, Frame("req", r, "handler"))
    /\ UNCHANGED <<sent, granted, expect, gap, up, cart, tables, events, process, troubles>>

\* The END of a request's input; none once the request is over.
Body(r) ==
    /\ up /\ ~Here(Caller[r]) /\ Live(r) /\ r \notin sent
    /\ sent' = sent \cup {r}
    /\ toHost' = Append(toHost, Frame("end", r, "handler"))
    /\ UNCHANGED <<call, granted, expect, gap, up, cart, tables, events, process, troubles>>

\* An answer from elsewhere ends.
Answered(r) ==
    /\ up /\ ~Here(Handler[r]) /\ Live(r)
    /\ call' = [call EXCEPT ![r] = "over"]
    /\ toHost' = Append(toHost, Frame("end", r, "caller"))
    /\ UNCHANGED <<sent, granted, expect, gap, up, cart, tables, events, process, troubles>>

\* A grant for the answer's stream, or for the input of a call made here.
Grant(r) ==
    /\ up /\ Live(r) /\ r \in Granted \ granted
    /\ granted' = granted \cup {r}
    /\ toHost' = Append(toHost, Frame("grant", r, IF Here(Handler[r]) THEN "handler" ELSE "caller"))
    /\ UNCHANGED <<call, sent, expect, gap, up, cart, tables, events, process, troubles>>

\* cancel_request: the request and the calls made for it.
Cancel(r, force) ==
    /\ up /\ ~Here(Caller[r]) /\ Live(r) /\ Trouble
    /\ LET all == {r} \cup {p \in Requests : Parent[p] = r /\ Live(p)}
           here == SetToSeq({p \in all : Here(Handler[p])})
       IN /\ call' = [p \in Requests |-> IF p \in all THEN "over" ELSE call[p]]
          /\ toHost' = toHost \o [i \in DOMAIN here |-> CancelFrame(here[i], force)]
    /\ UNCHANGED <<sent, granted, expect, gap, up, cart, tables, events, process>>
------------------------------------------------------------------------------
(* The loop: frames from the relay (handle_relay_frame)                    *)

\* biased: the relay waits until every event has been handled.
FromRelay(types) == up /\ events = <<>> /\ toHost # <<>> /\ Head(toHost).type \in types

\* The loop returns the error and kills every process.
Stop == /\ up' = FALSE
        /\ cart' = [c \in Cartridges |-> [cart[c] EXCEPT !.alive = FALSE]]
        /\ atHandler' = [r \in Requests |-> {}] /\ atCaller' = [r \in Requests |-> {}]
        /\ UNCHANGED <<call, sent, granted, expect, gap, tables, events, wrote, astray>>

Started(c) == [cart[c] EXCEPT !.running = TRUE, !.alive = TRUE, !.reader = TRUE,
                              !.writer = TRUE, !.gen = @ + 1]

\* find_cartridge_for_cap: an install that failed or left the roster is not
\* in the cap table.
RelayReq ==
    /\ FromRelay({"req"})
    /\ LET m == Head(toHost)  c == Handler[m.r] IN
         \/ /\ cart[c].failed
            /\ Send(Tail(toHost), Out("err", m.r, "answer", 0))
            /\ UNCHANGED <<sent, granted, up, cart, tables, events, process, troubles>>
         \/ /\ ~cart[c].failed
            /\ cart[c].running => cart[c].writer
            /\ \E w \in IF cart[c].running THEN Writers(c) ELSE {TRUE} :
                 cart' = [cart EXCEPT ![c] = IF @.running THEN [@ EXCEPT !.writer = w] ELSE Started(c)]
            /\ incoming' = [incoming EXCEPT ![m.r] = c]
            /\ Silent
            /\ IF cart[c].running THEN Give(c, m)
               ELSE /\ atHandler' = [atHandler EXCEPT ![m.r] = {"req"}]
                    /\ UNCHANGED <<atCaller, wrote, astray>>
            /\ UNCHANGED <<sent, granted, up, outgoing, bodyDone, respDone, peers, released,
                           maxSeq, unrouted, events, troubles>>

\* A process that does not start, or whose writer has failed, ends the loop.
RelayReqFails ==
    /\ FromRelay({"req"})
    /\ LET c == Handler[Head(toHost).r] IN
         /\ ~cart[c].failed
         /\ \/ ~cart[c].running /\ Trouble
            \/ cart[c].running /\ ~cart[c].writer /\ UNCHANGED troubles
    /\ toHost' = Tail(toHost)
    /\ Stop

\* Which table routes a continuation: prefer_incoming and the fallbacks.
Via(m) ==
    LET prefer == IF m.type = "grant" THEN m.to = "handler" ELSE m.r \notin bodyDone
    IN IF prefer /\ incoming[m.r] # None THEN "incoming"
       ELSE IF outgoing[m.r] # None THEN "outgoing"
       ELSE IF incoming[m.r] # None THEN "incoming" ELSE "none"
Target(m) == IF Via(m) = "incoming" THEN incoming[m.r] ELSE outgoing[m.r]

Continuations == {"data", "end", "err", "grant"}

\* No entry: a straggler, or a drop that is counted.
RelayUnrouted ==
    /\ FromRelay(Continuations) /\ Via(Head(toHost)) = "none"
    /\ LET r == Head(toHost).r IN
         unrouted' = IF r \in released THEN unrouted ELSE unrouted \cup {r}
    /\ Silent
    /\ UNCHANGED <<sent, granted, up, cart, incoming, outgoing, bodyDone, respDone, peers,
                   released, maxSeq, events, process, troubles>>

\* Mutant: what the host makes up starts a flow of its own.
NextSeqFromZero(flow) == 0

NextSeq(flow) == maxSeq[flow] + 1

\* The writer has failed before the death is known: the host answers, once
\* and for all.
RelayToDead ==
    /\ FromRelay(Continuations) /\ Via(Head(toHost)) # "none"
    /\ LET m == Head(toHost)  flow == <<m.r, "answer">> IN
         /\ ~cart[Target(m)].writer
         /\ Send(Tail(toHost), Out("err", m.r, "answer", NextSeq(flow)))
         /\ maxSeq' = [maxSeq EXCEPT ![flow] = -1]
         /\ incoming' = [incoming EXCEPT ![m.r] = None]
         /\ outgoing' = [outgoing EXCEPT ![m.r] = None]
         /\ bodyDone' = bodyDone \ {m.r} /\ respDone' = respDone \ {m.r}
         /\ released' = released \cup {m.r}
    /\ UNCHANGED <<sent, granted, up, cart, peers, unrouted, events, process, troubles>>

\* Terminal bookkeeping of a frame that went to a process.
BodyEnded(r) == IF r \in respDone
                  THEN /\ respDone' = respDone \ {r}
                       /\ incoming' = [incoming EXCEPT ![r] = None]
                       /\ released' = released \cup {r}
                       /\ UNCHANGED <<outgoing, bodyDone>>
                  ELSE /\ bodyDone' = bodyDone \cup {r}
                       /\ UNCHANGED <<incoming, outgoing, respDone, released>>
CallEnded(r) == /\ outgoing' = [outgoing EXCEPT ![r] = None]
                /\ released' = released \cup {r}
                /\ UNCHANGED <<incoming, bodyDone, respDone>>

RelayContinuation ==
    /\ FromRelay(Continuations) /\ Via(Head(toHost)) # "none"
    /\ LET m == Head(toHost)  c == Target(m) IN
         /\ cart[c].writer
         /\ \E w \in Writers(c) : cart' = [cart EXCEPT ![c].writer = w]
         /\ Give(c, m)
         /\ IF ~Terminal(m.type) THEN UNCHANGED <<incoming, outgoing, bodyDone, respDone, released>>
            ELSE IF Via(m) = "incoming" THEN BodyEnded(m.r) ELSE CallEnded(m.r)
    /\ Silent
    /\ UNCHANGED <<sent, granted, up, peers, maxSeq, unrouted, events, troubles>>

\* Cancel: to the process and, for it, to the calls it made; or a kill.
RelayCancel ==
    /\ FromRelay({"cancel"})
    /\ LET m == Head(toHost)  c == incoming[m.r] IN
         \/ /\ c = None
            /\ Silent /\ UNCHANGED <<cart, process>>
         \/ /\ c # None /\ m.force
            /\ cart' = [cart EXCEPT ![c].alive = FALSE]
            /\ Forget(c) /\ Silent
         \/ /\ c # None /\ ~m.force
            /\ IF cart[c].writer
                 THEN Give(c, m) /\ \E w \in Writers(c) : cart' = [cart EXCEPT ![c].writer = w]
                 ELSE UNCHANGED <<cart, process>>
            /\ toHost' = Tail(toHost) \o Notices("cancel", peers[m.r], "handler")
            /\ UNCHANGED <<call, expect, gap>>
    /\ UNCHANGED <<sent, granted, up, tables, events, troubles>>
------------------------------------------------------------------------------
(* The loop: events of the processes (handle_cartridge_frame)              *)

FromCartridge(types) == up /\ events # <<>> /\ Head(events).type \in types
\* Mutant: any event of the cartridge is taken.
CurrentAlways(e) == TRUE

Current(e) == e.gen = cart[e.c].gen

\* An event of a process the host has already buried.
StaleEvent ==
    /\ FromCartridge({"req", "data", "end", "death"}) /\ ~Current(Head(events))
    /\ events' = Tail(events)
    /\ UNCHANGED <<net, sent, granted, up, cart, tables, process, troubles>>

CartridgeReq ==
    /\ FromCartridge({"req"}) /\ Current(Head(events))
    /\ LET e == Head(events)  r == e.flow[1] IN
         /\ outgoing' = [outgoing EXCEPT ![r] = e.c]
         /\ peers' = IF incoming[Parent[r]] # None
                       THEN [peers EXCEPT ![Parent[r]] = @ \cup {r}] ELSE peers
         /\ maxSeq' = [maxSeq EXCEPT ![e.flow] = e.seq]
         /\ Send(toHost, Out("req", r, "call", e.seq))
    /\ events' = Tail(events)
    /\ UNCHANGED <<sent, granted, up, cart, incoming, bodyDone, respDone, released, unrouted,
                   process, troubles>>

\* The terminal frame of an answer releases the request once its input has
\* ended too.
ResponseEnded(r) ==
    IF r \in bodyDone
      THEN /\ bodyDone' = bodyDone \ {r}
           /\ incoming' = [incoming EXCEPT ![r] = None]
           /\ released' = released \cup {r}
           /\ UNCHANGED respDone
      ELSE /\ respDone' = IF incoming[r] # None THEN respDone \cup {r} ELSE respDone
           /\ UNCHANGED <<incoming, bodyDone, released>>

CartridgeFrame ==
    /\ FromCartridge({"data", "end"}) /\ Current(Head(events))
    /\ LET e == Head(events) IN
         /\ maxSeq' = [maxSeq EXCEPT ![e.flow] = IF Terminal(e.type) THEN -1 ELSE e.seq]
         /\ IF Terminal(e.type) /\ e.flow[2] = "answer" THEN ResponseEnded(e.flow[1])
            ELSE UNCHANGED <<incoming, bodyDone, respDone, released>>
         /\ Send(toHost, Out(e.type, e.flow[1], e.flow[2], e.seq))
    /\ events' = Tail(events)
    /\ UNCHANGED <<sent, granted, up, cart, outgoing, peers, unrouted, process, troubles>>
------------------------------------------------------------------------------
(* Deaths, kills and rosters                                               *)

Calls(c) == {r \in Requests : outgoing[r] = c}

\* Mutant: only a request whose input is still coming counts.
JobsWithInput(c) == {r \in Requests : incoming[r] = c /\ r \notin bodyDone}

Jobs(c) == {r \in Requests : incoming[r] = c}

\* handle_cartridge_death: the process is buried, its entries are swept, and
\* each of them is answered with ERR, numbered after what was sent.
Bury(c) ==
    LET calls == Calls(c)
        jobs == Jobs(c)
        flows == (calls \X {"call"}) \cup (jobs \X {"answer"})
    IN /\ cart' = [cart EXCEPT ![c].running = FALSE, ![c].alive = FALSE, ![c].reader = FALSE,
                               ![c].writer = FALSE, ![c].reason = "none", ![c].gen = @ + 1]
       /\ Forget(c)
       /\ outgoing' = [r \in Requests |-> IF r \in calls THEN None ELSE outgoing[r]]
       /\ incoming' = [r \in Requests |-> IF r \in jobs THEN None ELSE incoming[r]]
       /\ bodyDone' = bodyDone \ jobs /\ respDone' = respDone \ jobs
       /\ peers' = [r \in Requests |-> IF r \in jobs THEN {} ELSE peers[r]]
       /\ released' = released \cup calls \cup jobs
       /\ maxSeq' = [f \in Flows |-> IF f \in flows THEN -1 ELSE maxSeq[f]]
       /\ gap' = (gap \/ \E f \in flows : NextSeq(f) # expect[f])
       /\ expect' = [f \in Flows |-> IF f \in flows THEN 0 ELSE expect[f]]
       /\ call' = [r \in Requests |-> IF r \in jobs /\ Live(r) THEN "over" ELSE call[r]]
       /\ toHost' = toHost \o Notices("err", calls, "handler") \o Notices("err", jobs, "caller")
       /\ UNCHANGED <<sent, granted, up, unrouted>>

Death == /\ FromCartridge({"death"}) /\ Current(Head(events))
         /\ Bury(Head(events).c)
         /\ events' = Tail(events)
         /\ UNCHANGED troubles

\* No answer to a heartbeat: buried at once, its events still in the queue.
HeartbeatTimeout(c) == /\ up /\ cart[c].running /\ Trouble
                       /\ Bury(c)
                       /\ UNCHANGED events

\* Mutant: a request is done when its input has ended.
InFlightInputs(c) == Cardinality(JobsWithInput(c)) + Cardinality(Calls(c))

InFlight(c) == Cardinality(Jobs(c)) + Cardinality(Calls(c))

\* sync_registered_roster leaves c out: no new work, and the process dies at
\* once or when it has drained.
Retire(c) ==
    /\ up /\ ~cart[c].failed /\ Trouble
    /\ IF cart[c].running /\ InFlight(c) = 0
         THEN /\ cart' = [cart EXCEPT ![c].failed = TRUE, ![c].reason = "retired", ![c].alive = FALSE]
              /\ Forget(c)
         ELSE /\ cart' = [cart EXCEPT ![c].failed = TRUE, ![c].retiring = @ \/ cart[c].running]
              /\ UNCHANGED process
    /\ UNCHANGED <<net, sent, granted, up, tables, events>>

\* The next roster has it again while it drains: the process goes on.
Restore(c) ==
    /\ up /\ cart[c].retiring /\ Trouble
    /\ cart' = [cart EXCEPT ![c].failed = FALSE, ![c].retiring = FALSE]
    /\ UNCHANGED <<net, sent, granted, up, tables, events, process>>

\* reap_drained_cartridges: drained, overdue, or dead meanwhile.
Reap(c) ==
    /\ up /\ cart[c].retiring
    /\ \/ /\ ~cart[c].running
          /\ cart' = [cart EXCEPT ![c].retiring = FALSE]
          /\ UNCHANGED process
       \/ /\ cart[c].running
          /\ cart' = [cart EXCEPT ![c].retiring = FALSE, ![c].alive = FALSE,
                                  ![c].reason = IF InFlight(c) = 0 THEN "retired" ELSE "overdue"]
          /\ Forget(c)
    /\ UNCHANGED <<net, sent, granted, up, tables, events, troubles>>
------------------------------------------------------------------------------
Init ==
    /\ call = [r \in Requests |-> "new"] /\ sent = {} /\ granted = {}
    /\ toHost = <<>> /\ expect = [f \in Flows |-> 0] /\ gap = FALSE /\ up = TRUE
    /\ cart = [c \in Cartridges |->
                 [running |-> FALSE, alive |-> FALSE, reader |-> FALSE, writer |-> FALSE, gen |-> 0,
                  failed |-> FALSE, retiring |-> FALSE, reason |-> "none"]]
    /\ incoming = [r \in Requests |-> None] /\ outgoing = [r \in Requests |-> None]
    /\ bodyDone = {} /\ respDone = {} /\ peers = [r \in Requests |-> {}] /\ released = {}
    /\ maxSeq = [f \in Flows |-> -1] /\ unrouted = {} /\ events = <<>>
    /\ atHandler = [r \in Requests |-> {}] /\ atCaller = [r \in Requests |-> {}]
    /\ wrote = [f \in Flows |-> 0] /\ astray = {}
    /\ troubles = Troubles

HandleEvent == StaleEvent \/ CartridgeReq \/ CartridgeFrame \/ Death
HandleRelay == \/ RelayReq \/ RelayReqFails \/ RelayUnrouted \/ RelayToDead
               \/ RelayContinuation \/ RelayCancel
Others(r) == Request(r) \/ Body(r) \/ Grant(r) \/ Answered(r)

Next ==
    \/ HandleEvent \/ HandleRelay
    \/ \E r \in Requests : \/ Others(r) \/ \E force \in BOOLEAN : Cancel(r, force)
                           \/ CallPeer(r) \/ CallEnd(r) \/ Answer(r) \/ AnswerEnd(r)
    \/ \E c \in Cartridges : \/ Crash(c) \/ ReaderEnds(c) \/ HeartbeatTimeout(c)
                             \/ Retire(c) \/ Restore(c) \/ Reap(c)

Spec == Init /\ [][Next]_vars

\* The loop and its tasks run; the other end sends what it has begun; a
\* handler that can answer does, and so does whoever is called elsewhere.
\* Each of these steps is taken a bounded number of times, so that fairness
\* to all of them together is fairness to each.
Duty == \/ HandleEvent \/ HandleRelay \/ \E c \in Cartridges : ReaderEnds(c)
        \/ \E r \in Requests : Body(r) \/ Answered(r) \/ CallEnd(r) \/ AnswerEnd(r)
FairSpec == Spec /\ WF_vars(Duty)
------------------------------------------------------------------------------
(* Properties                                                              *)

\* The tables have their types, the two marks are on requests that are
\* routed and never both, and a reason to die belongs to a process that runs.
TypeOK ==
    /\ call \in [Requests -> {"new", "open", "over"}] /\ sent \subseteq Requests
    /\ incoming \in [Requests -> Cartridges \cup {None}]
    /\ outgoing \in [Requests -> Cartridges \cup {None}]
    /\ bodyDone \cup respDone \subseteq {r \in Requests : incoming[r] # None}
    /\ bodyDone \cap respDone = {}
    /\ \A r \in Requests : incoming[r] \in {None, Handler[r]} /\ outgoing[r] \in {None, Caller[r]}
    /\ \A c \in Cartridges : /\ up /\ (cart[c].alive \/ cart[c].reason # "none") => cart[c].running
                             /\ cart[c].running /\ up => cart[c].reader \/ ~cart[c].alive
                             /\ cart[c].retiring => cart[c].failed
    /\ unrouted \subseteq Requests /\ astray \subseteq Requests /\ up \in BOOLEAN

\* An entry never outlives the process it was made for: with the process
\* buried, and another started in its place, nothing of the old one is left.
RoutesAreOfTheLiving ==
    up => \A r \in Requests :
            /\ incoming[r] # None => cart[incoming[r]].running
            /\ outgoing[r] # None => cart[outgoing[r]].running
            /\ incoming[r] # None /\ cart[incoming[r]].alive => "req" \in atHandler[r]
            /\ outgoing[r] # None /\ cart[outgoing[r]].alive => "call" \in atCaller[r]

\* A frame reaches the process it is meant for or none.
RightEnd == astray = {}

\* The slave, which takes the whole link down for a frame out of sequence,
\* never meets one: an ERR the host makes up continues the flow of the
\* process it speaks for.
SeqFollows == ~gap

\* A frame counted as lost (no_route) is of a request the host refused.
\* Whatever else the host has known, its late frames are stragglers.
NoRouteMeansRefused == [][\A r \in unrouted' \ unrouted : Here(Handler[r]) /\ wrote[<<r, "answer">>] = 0]_vars

\* An install that leaves the roster is not killed while its process serves
\* a request, unless the drain is overdue.
Serving(c) == \E r \in Requests : Handler[r] = c /\ "req" \in atHandler[r] /\ "answered" \notin atHandler[r]
RetiredWhenIdle ==
    [][\A c \in Cartridges : cart[c].alive /\ cart'[c].reason = "retired" => ~Serving(c)]_vars

\* Every request the switch has open is over in the end, whatever dies.
EveryCallEnds == []<>(~up \/ \A r \in Requests : ~Live(r))
=============================================================================
