-------------------------- MODULE CartridgeRuntime ---------------------------
(***************************************************************************)
(* A cartridge's process (cartridge_runtime.rs): one main loop takes the   *)
(* frames of the host and the ends of handlers, runs at most `capacity`    *)
(* handlers and queues the rest, cancels, and forwards what comes to the   *)
(* handler it is for; handlers are tasks; one writer thread puts every     *)
(* frame on the wire and lets nothing of a request pass after its END or   *)
(* ERR.  The loop reads the capacity at its top and at every REQ, while a  *)
(* handler may change it at any time and wakes nobody.                     *)
(*                                                                         *)
(* A handler reads its input, calls one peer (PeerInvokerImpl), writes its *)
(* output and returns.  Requests here have no live feeds (LiveFeed models  *)
(* those); heartbeats, LOG frames of the queue and the handler's own input *)
(* credits (GroupChain) change nothing that is kept here.                  *)
(***************************************************************************)
EXTENDS Integers, FiniteSets, Sequences, SequencesExt

CONSTANTS
    Requests,
    Callers,      \* Requests whose handler makes a peer call
    Tickers,      \* Requests with a detached sender (keepalive ticks)
    Initial,      \* The capacity it starts with; 0 is no limit
    Capacities,   \* The values CapacityHandle::set is given
    Resizes,      \* Bound: how often it is called
    Chunks,       \* [Requests -> Nat]: the chunks a handler writes
    ArgChunks,    \* The chunks of a peer call's argument
    Window,       \* initial_credit
    Cancels,      \* Bound: the Cancels one request is sent
    Ring          \* TerminatedFlows: the terminals the writer remembers

ASSUME CartridgeAssumption ==
    /\ IsFiniteSet(Requests)
    /\ Callers \cup Tickers \subseteq Requests /\ Capacities \cup {Initial} \subseteq Nat
    /\ Chunks \in [Requests -> Nat] /\ {Resizes, Cancels, ArgChunks} \subseteq Nat
    /\ {Window, Ring} \subseteq Nat \ {0}

VARIABLES
    loop,      \* "top" | "select": the main loop; "joining": after the end of
               \* the input; "gone": the process is over
    capacity, resized,
    queue,     \* request_queue
    running,   \* running_handler_count
    active,    \* active_handlers
    cancelled, \* cancelled_requests
    doneQ,     \* handler_done_rx
    route,     \* [Requests -> ...]: the request's entry in active_requests
    pending,   \* Requests whose peer call is in pending_peer_requests
    handler,   \* [Requests -> ...]: where the handler's task is
    gate,      \* [Requests -> [state, avail]]: the gate of its output stream;
               \* "late": registered after the Cancel that closes the others
    argAvail,  \* [Requests -> Nat]: the gate of its peer argument stream
    toWrite,   \* [Requests -> Nat]: chunks it still has to write, argument or output
    ticked,    \* Requests whose detached sender has sent its frame
    outbox,    \* Seq of frames between the senders and the writer
    terminated,\* Seq(Requests): TerminatedFlows
    wire,      \* [Requests -> Seq]: what the host got of a request
    peerWire,  \* [Requests -> Seq]: what it got of the request's peer call
    host       \* [Requests -> [req, cancels]]: what the host has sent of it

main == <<loop, queue, running, active, cancelled, doneQ, route, pending>>
task == <<handler, toWrite, ticked>>
gates == <<gate, argAvail>>
caps == <<capacity, resized>>
writer == <<terminated, wire, peerWire>>
vars == <<main, task, gates, caps, outbox, writer, host>>

Frame(r, type) == [rid |-> r, type |-> type]
Terminals == {"end", "err", "cancelled"}
Live == loop # "gone"   \* the process runs
Tasks == {r \in Requests : handler[r] \notin {"none", "finished"}}
Room(n) == capacity = 0 \/ n < capacity
------------------------------------------------------------------------------
(* The main loop                                                           *)

\* Mutant: the last slot is kept free.
FittingOneLess == IF capacity = 0 THEN Len(queue)
                  ELSE IF running + 1 >= capacity THEN 0
                  ELSE IF Len(queue) < capacity - running THEN Len(queue) ELSE capacity - running

\* The queued requests a pass of the loop's top starts.
Fitting == IF capacity = 0 THEN Len(queue)
           ELSE IF running >= capacity THEN 0
           ELSE IF Len(queue) < capacity - running THEN Len(queue) ELSE capacity - running

Spawn(rs) == /\ handler' = [r \in Requests |-> IF r \in rs THEN "reading" ELSE handler[r]]
             /\ active' = active \cup rs
             /\ running' = running + Cardinality(rs)

Drain == /\ loop = "top"
         /\ loop' = "select"
         /\ LET n == Fitting IN
              /\ queue' = SubSeq(queue, n + 1, Len(queue))
              /\ Spawn({queue[k] : k \in 1 .. n})
         /\ UNCHANGED <<cancelled, doneQ, route, pending, toWrite, ticked, gates, caps, outbox, writer, host>>

Closed == [state |-> "closed", avail |-> 0]
CloseGate(r) == gate' = [gate EXCEPT ![r] = IF @.state = "none" THEN @ ELSE Closed]

\* The deferred answer of a cancelled request.
DeferredErr(r) == outbox' = IF r \in cancelled THEN Append(outbox, Frame(r, "cancelled")) ELSE outbox

HandlerDone == /\ loop = "select" /\ doneQ # <<>>
               /\ loop' = "top"
               /\ doneQ' = Tail(doneQ)
               /\ LET r == Head(doneQ) IN
                    /\ active' = active \ {r}
                    /\ CloseGate(r)
                    /\ DeferredErr(r)
                    /\ cancelled' = cancelled \ {r}
               /\ running' = IF running = 0 THEN 0 ELSE running - 1
               /\ UNCHANGED <<queue, route, pending, task, argAvail, caps, writer, host>>

\* A frame is looked at only when no handler has ended: the select is biased.
FrameArrives == loop = "select" /\ doneQ = <<>> /\ loop' = "top"

Admit(r) == /\ route' = [route EXCEPT ![r] = "open"]
            /\ IF Room(running)
                 THEN Spawn({r}) /\ UNCHANGED queue
                 ELSE queue' = Append(queue, r) /\ UNCHANGED <<handler, active, running>>

Req(r) == /\ FrameArrives
          /\ host[r].req = "none"
          /\ host' = [host EXCEPT ![r].req = "sent"]
          /\ Admit(r)
          /\ UNCHANGED <<cancelled, doneQ, pending, toWrite, ticked, gates, caps, outbox, writer>>

\* No cap, no handler for it, or a payload: INVALID_REQUEST, NO_HANDLER, PROTOCOL_ERROR.
Refuse(r) == /\ FrameArrives
             /\ host[r].req = "none"
             /\ host' = [host EXCEPT ![r].req = "refused"]
             /\ outbox' = Append(outbox, Frame(r, "err"))
             /\ UNCHANGED <<queue, running, active, cancelled, doneQ, route, pending, task, gates, caps, writer>>

\* END or ERR of the request's body: delivered, and the channel closed.
Body(r) == /\ FrameArrives
           /\ host[r].cancels = 0 /\ route[r] = "open"
           /\ route' = [route EXCEPT ![r] = "ended"]
           /\ UNCHANGED <<queue, running, active, cancelled, doneQ, pending, task, gates, caps, outbox,
                          writer, host>>

CancelQueued(r) == /\ \E i \in 1 .. Len(queue) : queue[i] = r /\ queue' = RemoveAt(queue, i)
                   /\ route' = [route EXCEPT ![r] = "cut"]
                   /\ outbox' = Append(outbox, Frame(r, "cancelled"))
                   /\ UNCHANGED <<cancelled, pending, gate>>

\* Mutant: the writers are not released.
CancelActiveHolds(r) == /\ cancelled' = cancelled \cup {r}
                        /\ route' = [route EXCEPT ![r] = IF @ = "open" THEN "cut" ELSE @]
                        /\ pending' = pending \ {r}
                        /\ outbox' = IF r \in pending THEN Append(outbox, Frame(r, "peerCancel")) ELSE outbox
                        /\ UNCHANGED <<queue, gate>>

\* Cooperative: the input ends, the writers blocked on credit are released,
\* the peer calls made for it are cancelled.  The answer waits for the handler.
CancelActive(r) == /\ cancelled' = cancelled \cup {r}
                   /\ route' = [route EXCEPT ![r] = IF @ = "open" THEN "cut" ELSE @]
                   /\ CloseGate(r)
                   /\ pending' = pending \ {r}
                   /\ outbox' = IF r \in pending THEN Append(outbox, Frame(r, "peerCancel")) ELSE outbox
                   /\ UNCHANGED queue

\* A Cancel of a request already cancelled, or not known, is ignored.
Cancel(r) == /\ FrameArrives
             /\ host[r].req # "none" /\ host[r].cancels < Cancels
             /\ host' = [host EXCEPT ![r].cancels = @ + 1]
             /\ \/ r \notin cancelled /\ r \in Range(queue) /\ CancelQueued(r)
                \/ r \notin cancelled /\ r \notin Range(queue) /\ r \in active /\ CancelActive(r)
                \/ /\ r \in cancelled \/ r \notin Range(queue) \cup active
                   /\ UNCHANGED <<queue, cancelled, route, pending, gate, outbox>>
             /\ UNCHANGED <<running, active, doneQ, task, argAvail, caps, writer>>

\* The host grants the output it has read, but not of a request it cancelled:
\* nobody reads that any more.
CreditOutput(r) == /\ FrameArrives
                   /\ host[r].cancels = 0
                   /\ gate[r] = [state |-> "open", avail |-> 0]
                   /\ ~Contains(outbox, Frame(r, "chunk"))
                   /\ gate' = [gate EXCEPT ![r].avail = Window]
                   /\ UNCHANGED <<queue, running, active, cancelled, doneQ, route, pending, task, argAvail,
                                  caps, outbox, writer, host>>

\* The host knows the peer call of r and has not ended it.
Serving(r) == peerWire[r] # <<>> /\ Last(peerWire[r]) = "peerReq"

CreditArgument(r) == /\ FrameArrives
                     /\ Serving(r) /\ argAvail[r] = 0 /\ handler[r] = "arguing"
                     /\ argAvail' = [argAvail EXCEPT ![r] = Window]
                     /\ UNCHANGED <<queue, running, active, cancelled, doneQ, route, pending, task, gate,
                                    caps, outbox, writer, host>>

\* END or ERR of a peer call: the callee may end before it read the argument.
PeerAnswer(r) == /\ FrameArrives
                 /\ Serving(r)
                 /\ peerWire' = [peerWire EXCEPT ![r] = Append(@, "answer")]
                 /\ pending' = pending \ {r}
                 /\ UNCHANGED <<queue, running, active, cancelled, doneQ, route, task, gates, caps,
                                outbox, terminated, wire, host>>

\* The host closes the pipe: the loop breaks and joins the writer, for ever:
\* the loop holds a sender of the writer's channel itself.  Handlers go on,
\* what is queued is not started any more.
Eof == /\ loop = "select" /\ doneQ = <<>>
       /\ loop' = "joining"
       /\ UNCHANGED <<queue, running, active, cancelled, doneQ, route, pending, task, gates, caps,
                      outbox, writer, host>>

\* A frame that cannot be read, or one of the relay's: the process returns
\* its error at once, whatever the writer still has to write.
Abort == /\ loop = "select" /\ doneQ = <<>>
         /\ loop' = "gone"
         /\ UNCHANGED <<queue, running, active, cancelled, doneQ, route, pending, task, gates, caps,
                        outbox, writer, host>>

MainStep == Drain \/ HandlerDone \/ Eof \/ Abort
            \/ \E r \in Requests : Req(r) \/ Refuse(r) \/ Body(r) \/ Cancel(r) \/ CreditOutput(r)
                                   \/ CreditArgument(r) \/ PeerAnswer(r)
------------------------------------------------------------------------------
(* A handler: spawn_handler, PeerInvokerImpl, OutputStream                 *)

At(r, stage) == Live /\ handler[r] = stage
Goes(r, stage) == handler' = [handler EXCEPT ![r] = stage]
Says(r, type) == outbox' = Append(outbox, Frame(r, type))

\* OutputStream::start registers the gate, cancelled or not.
StartOutput(r) ==
    /\ Goes(r, "writing")
    /\ toWrite' = [toWrite EXCEPT ![r] = Chunks[r]]
    /\ gate' = [gate EXCEPT ![r] = [state |-> IF r \in cancelled THEN "late" ELSE "open", avail |-> Window]]

\* The input is read, or not read to its end; the end may be the Cancel's.
\* PeerInvokerImpl::call registers the call before it sends the REQ.
ReadInput(r) ==
    /\ At(r, "reading")
    /\ IF r \in Callers
         THEN Goes(r, "calling") /\ pending' = pending \cup {r} /\ UNCHANGED <<toWrite, gate>>
         ELSE StartOutput(r) /\ UNCHANGED pending
    /\ UNCHANGED <<loop, queue, running, active, cancelled, doneQ, route, ticked, argAvail, caps,
                   outbox, writer, host>>

SendPeerReq(r) ==
    /\ At(r, "calling")
    /\ Goes(r, "arguing")
    /\ Says(r, "peerReq")
    /\ toWrite' = [toWrite EXCEPT ![r] = ArgChunks]
    /\ argAvail' = [argAvail EXCEPT ![r] = Window]
    /\ UNCHANGED <<main, ticked, gate, caps, writer, host>>

\* A chunk for each credit, and the END after them.
WriteArgument(r) ==
    /\ At(r, "arguing") /\ (toWrite[r] = 0 \/ argAvail[r] > 0)
    /\ IF toWrite[r] = 0
         THEN Goes(r, "awaiting") /\ argAvail' = [argAvail EXCEPT ![r] = 0] /\ UNCHANGED toWrite
         ELSE /\ toWrite' = [toWrite EXCEPT ![r] = @ - 1]
              /\ argAvail' = [argAvail EXCEPT ![r] = @ - 1]
              /\ UNCHANGED handler
    /\ UNCHANGED <<main, ticked, gate, caps, outbox, writer, host>>

\* The response ended, or the Cancel dropped its sender.
ReadResponse(r) == /\ At(r, "awaiting") /\ r \notin pending
                   /\ StartOutput(r)
                   /\ UNCHANGED <<main, ticked, argAvail, caps, outbox, writer, host>>

WriteChunk(r) ==
    /\ At(r, "writing") /\ toWrite[r] > 0
    /\ gate[r].state # "closed" /\ gate[r].avail > 0
    /\ toWrite' = [toWrite EXCEPT ![r] = @ - 1]
    /\ gate' = [gate EXCEPT ![r].avail = @ - 1]
    /\ Says(r, "chunk")
    /\ UNCHANGED <<main, handler, ticked, argAvail, caps, writer, host>>

\* The terminal frame goes before the notice to the main loop.
Return(r, type) == Goes(r, "returned") /\ Says(r, type)
                   /\ UNCHANGED <<main, toWrite, ticked, gates, caps, writer, host>>

Succeed(r) == At(r, "writing") /\ toWrite[r] = 0 /\ Return(r, "end")

\* CreditClosed fails the write.
Released(r) == At(r, "writing") /\ toWrite[r] > 0 /\ gate[r].state = "closed" /\ Return(r, "err")

\* Mutant: a handler that fails says so to the main loop only.
FailSilently(r) == /\ At(r, "reading") /\ Goes(r, "returned")
                   /\ UNCHANGED <<main, toWrite, ticked, gates, caps, outbox, writer, host>>

Fail(r) == At(r, "reading") /\ Return(r, "err")

NotifyDone(r) == /\ At(r, "returned")
                 /\ Goes(r, "finished")
                 /\ doneQ' = Append(doneQ, r)
                 /\ UNCHANGED <<loop, queue, running, active, cancelled, route, pending, toWrite, ticked,
                                gates, caps, outbox, writer, host>>

\* A progress frame of a thread the handler left behind.
Tick(r) == /\ Live /\ r \in Tickers \ ticked /\ handler[r] = "finished"
           /\ ticked' = ticked \cup {r}
           /\ Says(r, "log")
           /\ UNCHANGED <<main, handler, toWrite, gates, caps, writer, host>>

\* CapacityHandle::set, by a handler at any moment; the loop is not woken.
Resize == /\ Live /\ Tasks # {} /\ resized < Resizes
          /\ resized' = resized + 1
          /\ \E n \in Capacities \ {capacity} : capacity' = n
          /\ UNCHANGED <<main, task, gates, outbox, writer, host>>

HandlerStep(r) == ReadInput(r) \/ SendPeerReq(r) \/ WriteArgument(r) \/ ReadResponse(r) \/ WriteChunk(r)
                  \/ Succeed(r) \/ Released(r) \/ Fail(r) \/ NotifyDone(r) \/ Tick(r)
------------------------------------------------------------------------------
(* The writer thread: write_gated                                          *)

\* TerminatedFlows::insert evicts the oldest.
Remember(r) == terminated' = IF Len(terminated) = Ring THEN Append(Tail(terminated), r)
                                                       ELSE Append(terminated, r)

\* Mutant: only terminals are gated.
GatedTerminals(f) == IF Contains(terminated, f.rid) /\ f.type \in Terminals
                       THEN UNCHANGED <<terminated, wire>>
                       ELSE /\ wire' = [wire EXCEPT ![f.rid] = Append(@, f.type)]
                            /\ IF f.type \in Terminals THEN Remember(f.rid) ELSE UNCHANGED terminated

Gated(f) == IF Contains(terminated, f.rid)
              THEN UNCHANGED <<terminated, wire>>      \* a benign straggler
              ELSE /\ wire' = [wire EXCEPT ![f.rid] = Append(@, f.type)]
                   /\ IF f.type \in Terminals THEN Remember(f.rid) ELSE UNCHANGED terminated

Write == /\ Live /\ outbox # <<>>
         /\ outbox' = Tail(outbox)
         /\ LET f == Head(outbox) IN
              IF f.type \in {"peerReq", "peerCancel"}
                THEN /\ peerWire' = [peerWire EXCEPT ![f.rid] = Append(@, f.type)]
                     /\ UNCHANGED <<terminated, wire>>
                ELSE Gated(f) /\ UNCHANGED peerWire
         /\ UNCHANGED <<main, task, gates, caps, host>>
------------------------------------------------------------------------------
Init == /\ loop = "top" /\ capacity = Initial /\ resized = 0
        /\ queue = <<>> /\ running = 0 /\ active = {} /\ cancelled = {} /\ doneQ = <<>>
        /\ route = [r \in Requests |-> "none"] /\ pending = {}
        /\ handler = [r \in Requests |-> "none"] /\ toWrite = [r \in Requests |-> 0] /\ ticked = {}
        /\ gate = [r \in Requests |-> [state |-> "none", avail |-> 0]]
        /\ argAvail = [r \in Requests |-> 0]
        /\ outbox = <<>> /\ terminated = <<>>
        /\ wire = [r \in Requests |-> <<>>] /\ peerWire = [r \in Requests |-> <<>>]
        /\ host = [r \in Requests |-> [req |-> "none", cancels |-> 0]]

Next == MainStep \/ Resize \/ Write \/ \E r \in Requests : HandlerStep(r)

\* The loop, the writer and the tasks are scheduled; the host ends the bodies
\* it began, grants what it reads and ends the calls it serves.  A handler
\* reads an input that has ended; that it stops before is its own choice.
HostStep(r) == Body(r) \/ CreditOutput(r) \/ CreditArgument(r) \/ PeerAnswer(r)
Progress(r) == \/ route[r] # "open" /\ ReadInput(r)
               \/ SendPeerReq(r) \/ WriteArgument(r) \/ ReadResponse(r) \/ WriteChunk(r)
               \/ Succeed(r) \/ Released(r) \/ NotifyDone(r)

Fairness == /\ WF_vars(Drain \/ HandlerDone) /\ WF_vars(Write)
            /\ \A r \in Requests : WF_vars(HostStep(r)) /\ WF_vars(Progress(r))

Spec == Init /\ [][Next]_vars /\ Fairness
------------------------------------------------------------------------------
(* Properties                                                              *)

\* The type invariant.
TypeOK ==
    /\ loop \in {"top", "select", "joining", "gone"}
    /\ capacity \in Capacities \cup {Initial} /\ resized \in 0 .. Resizes /\ running \in 0 .. Cardinality(Requests)
    /\ queue \in Seq(Requests) /\ doneQ \in Seq(Requests) /\ terminated \in Seq(Requests)
    /\ active \subseteq Requests /\ cancelled \subseteq active /\ pending \subseteq Callers
    /\ route \in [Requests -> {"none", "open", "ended", "cut"}]
    /\ handler \in [Requests -> {"none", "reading", "calling", "arguing", "awaiting", "writing",
                                 "returned", "finished"}]
    /\ gate \in [Requests -> [state : {"none", "open", "late", "closed"}, avail : 0 .. Window]]
    /\ argAvail \in [Requests -> 0 .. Window]
    /\ \A r \in Requests : toWrite[r] \in 0 .. (IF Chunks[r] > ArgChunks THEN Chunks[r] ELSE ArgChunks)
    /\ ticked \subseteq Tickers

\* A request has one terminal frame on the wire, and nothing of it follows:
\* handlers, their detached senders, the deferred CANCELLED and the answers
\* of the main loop all go through the writer, in any order.
TerminalIsLast == \A r \in Requests : \A k \in 1 .. Len(wire[r]) - 1 : wire[r][k] \notin Terminals

\* While a request waits in the queue and the loop sleeps, some handler is
\* there to wake it, whatever was done to the capacity meanwhile.
QueueIsWatched == loop = "select" /\ queue # <<>> => active # {}

Answered(r) == \E t \in Terminals : Contains(wire[r], t)
Stopped == loop \in {"joining", "gone"}

\* After the end of the input, once the writer has caught up, every request
\* the host sent has its terminal frame on the wire, refused and cancelled
\* ones with the others, or its handler still runs, or it is one of those the
\* end of the input has left in the queue: no other answer is lost.
ShutdownAnswersAll == loop = "joining" /\ outbox = <<>> =>
    \A r \in Requests : host[r].req = "none" \/ Answered(r) \/ r \in Tasks \cup Range(queue)

\* The two waits nothing ends: the output of a request cancelled before the
\* stream was started, and the argument of a peer call that is over.
HangsOnOutput(r) == handler[r] = "writing" /\ toWrite[r] > 0 /\ gate[r] = [state |-> "late", avail |-> 0]
HangsOnArgument(r) == /\ handler[r] = "arguing" /\ toWrite[r] > 0 /\ argAvail[r] = 0
                      /\ Contains(peerWire[r], "peerReq") /\ ~Serving(r)

\* Every request the host sends is answered in the end, cancelled or not,
\* queued or not, unless the pipe is closed or a handler hangs in one of those
\* two ways.
EveryRequestEnds ==
    <>[](\/ \A r \in Requests : host[r].req # "none" => Answered(r)
         \/ Stopped
         \/ \E r \in Requests : HangsOnOutput(r) \/ HangsOnArgument(r))

\* "Release any credit-blocked writers immediately (L13, L17) - a cancelled
\* producer must not hang on credit."
CancelledProducerNeverHangs == \A r \in cancelled : ~HangsOnOutput(r)
==============================================================================
