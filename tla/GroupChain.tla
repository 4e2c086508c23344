----------------------------- MODULE GroupChain ------------------------------
(***************************************************************************)
(* One pipelined chain of caps, from the moment its invocations are open   *)
(* (ChainAdmission says how they get there) to its result: steps 3 to 6 of *)
(* run_group_chain.  One task feeds the first cap, one forwarder per hop   *)
(* turns a cap's output into the next one's input, and the run itself      *)
(* collects the output of the last.  Every stream has a window of credits  *)
(* (bifaci/credit.rs), in both directions of every hop, and a forwarder    *)
(* that waits for the window of the next cap reads nothing else meanwhile: *)
(* neither the chunks nor the grants that queue behind the one it holds.   *)
(*                                                                         *)
(* A cap is its handler and the demux before it (cartridge_runtime.rs).    *)
(* Between a cap and the engine frames keep their order; the links and the *)
(* switch only delay them.  STREAM_START and STREAM_END only open and      *)
(* close what is here from the beginning; extra argument streams, which go *)
(* after the main one, are left out.                                       *)
(***************************************************************************)
EXTENDS Integers, Sequences, SequencesExt

CONSTANTS
    N,            \* The caps of the chain are 1 .. N
    Items,        \* The feed holds the items 1 .. Items; every cap maps them one to one
    Window,       \* initial_credit of the switch: the window of the engine's gates
    CapWindow,    \* [Caps -> Nat]: the window of each cap's own link
    Frames,       \* [Caps -> Nat]: the CHUNK frames one output item of a cap takes
    Collecting,   \* Caps that read all their input before they write (collect_items)
    MayFail,      \* Caps that may answer ERR
    MayStop       \* Caps that may return before they have read their input

Caps == 1 .. N
Forwarders == 1 .. N - 1

ASSUME ChainAssumption ==
    /\ N \in Nat \ {0} /\ Items \in Nat /\ Window \in Nat \ {0}
    /\ CapWindow \in [Caps -> Nat] /\ Frames \in [Caps -> Nat \ {0}]
    /\ \A i \in Caps : Window <= CapWindow[i]      \* rebuild_limits, aggregate_limits
    /\ Collecting \subseteq Caps /\ MayFail \subseteq Caps /\ MayStop \subseteq Caps

VARIABLES
    feed,      \* "running" | "done" | "failed": send_task
    fed,       \* Items the feed has sent
    gate,      \* [Caps -> [open, avail]]: the gate of each cap's input stream
    toCap,     \* [Caps -> Seq]: frames on their way to the cap's demux
    acct,      \* [Caps -> Int]: the demux's account of the window (stream_windows)
    part,      \* [Caps -> Nat]: fragments of the item being reassembled
    queue,     \* [Caps -> Seq]: items the handler has not read
    eof,       \* [Caps -> BOOLEAN]: the cap has its END
    owedIn,    \* [Caps -> Nat]: consumed_since_grant of the handler's stream
    violated,  \* Caps whose demux reported CREDIT_VIOLATION
    cap,       \* [Caps -> {"running", "ended", "failed"}]: the handler
    out,       \* [Caps -> Seq]: chunks the handler still has to write
    outAvail,  \* [Caps -> Nat]: the gate of the cap's output stream
    fromCap,   \* [Caps -> Seq]: frames on their way to whoever reads the cap's channel
    live,      \* [Caps -> BOOLEAN]: the switch knows the request
    fwd,       \* [Forwarders -> {"running", "blocked", "done", "failed"}]
    owedOut,   \* [Caps -> Nat]: chunks read from the cap and not granted back
    grants,    \* [Caps -> Nat]: grants on their way to the cap's output gate
    collector, \* "running" | "ok" | "err": collect_terminal_output
    collected, \* Chunks it has
    result     \* "none" | "ok" | "failed": what run_group_chain returns

feeding == <<feed, fed>>
inside == <<acct, part, queue, eof, owedIn, violated, cap, out, outAvail>>
engine == <<fwd, owedOut, collector, collected, result>>
vars == <<feeding, gate, toCap, inside, fromCap, live, grants, engine>>

Chunk(m, f) == [type |-> "chunk", item |-> m, frag |-> f]
Credit(n) == [type |-> "credit", n |-> n]
End == [type |-> "end"]
Err == [type |-> "err"]

\* The feed sends an item as one chunk, a cap sends it in fragments.
FramesIn(i) == IF i = 1 THEN 1 ELSE Frames[i - 1]

\* Grants go out in batches of half the window of the side that grants.
Batch(window) == IF window \div 2 = 0 THEN 1 ELSE window \div 2

Running(i) == cap[i] = "running"
Heads(ch, type) == ch # <<>> /\ Head(ch).type = type
------------------------------------------------------------------------------
(* The feed: send_group_input                                              *)

\* send_to_master refuses a request that is over (UnknownRequest).
FeedItem == /\ feed = "running" /\ fed < Items
            /\ gate[1].open /\ gate[1].avail > 0
            /\ gate' = [gate EXCEPT ![1].avail = @ - 1]
            /\ IF live[1]
                 THEN /\ fed' = fed + 1 /\ UNCHANGED feed
                      /\ toCap' = [toCap EXCEPT ![1] = Append(@, Chunk(fed + 1, 1))]
                 ELSE feed' = "failed" /\ UNCHANGED <<fed, toCap>>
            /\ UNCHANGED <<inside, fromCap, live, grants, engine>>

FeedEnds == /\ feed = "running" /\ fed = Items
            /\ IF live[1]
                 THEN feed' = "done" /\ toCap' = [toCap EXCEPT ![1] = Append(@, End)]
                 ELSE feed' = "failed" /\ UNCHANGED toCap
            /\ UNCHANGED <<fed, gate, inside, fromCap, live, grants, engine>>

FeedReleased == /\ feed = "running" /\ fed < Items /\ ~gate[1].open
                /\ feed' = "failed"
                /\ UNCHANGED <<fed, gate, toCap, inside, fromCap, live, grants, engine>>
------------------------------------------------------------------------------
(* A cap: demux_multi_stream, InputStream, OutputStream                    *)

\* A chunk comes off the account; a fragment that continues an item is
\* credited at once, the last one makes an item for the handler.
TakeChunk(i, m, f) ==
    IF acct[i] <= 0
      THEN /\ violated' = violated \cup {i}
           /\ acct' = [acct EXCEPT ![i] = @ - 1]
           /\ UNCHANGED <<part, queue, fromCap>>
      ELSE /\ UNCHANGED violated
           /\ part' = [part EXCEPT ![i] = IF f = FramesIn(i) THEN 0 ELSE f]
           /\ queue' = IF f = FramesIn(i) THEN [queue EXCEPT ![i] = Append(@, m)] ELSE queue
           /\ IF f > 1
                THEN fromCap' = [fromCap EXCEPT ![i] = Append(@, Credit(1))] /\ UNCHANGED acct
                ELSE acct' = [acct EXCEPT ![i] = @ - 1] /\ UNCHANGED fromCap

Arrive(i) ==
    /\ toCap[i] # <<>>
    /\ toCap' = [toCap EXCEPT ![i] = Tail(@)]
    /\ LET frame == Head(toCap[i]) IN
         IF ~Running(i) THEN UNCHANGED <<acct, part, queue, eof, violated, fromCap>>
         ELSE IF frame = End
           THEN eof' = [eof EXCEPT ![i] = TRUE] /\ UNCHANGED <<acct, part, queue, violated, fromCap>>
           ELSE TakeChunk(i, frame.item, frame.frag) /\ UNCHANGED eof
    /\ UNCHANGED <<feeding, gate, owedIn, cap, out, outAvail, live, grants, engine>>

Grant(i, n) == /\ fromCap' = [fromCap EXCEPT ![i] = Append(@, Credit(n))]
               /\ acct' = [acct EXCEPT ![i] = @ + n]
               /\ owedIn' = [owedIn EXCEPT ![i] = 0]

MayRead(i) == Running(i) /\ (i \in Collecting \/ out[i] = <<>>)

\* InputStream::recv of an item, and InputGrantEmitter::consumed.
Read(i) ==
    /\ MayRead(i) /\ queue[i] # <<>>
    /\ queue' = [queue EXCEPT ![i] = Tail(@)]
    /\ out' = [out EXCEPT ![i] = @ \o [f \in 1 .. Frames[i] |-> Chunk(Head(queue[i]), f)]]
    /\ IF owedIn[i] + 1 >= Batch(CapWindow[i])
         THEN Grant(i, owedIn[i] + 1)
         ELSE owedIn' = [owedIn EXCEPT ![i] = @ + 1] /\ UNCHANGED <<fromCap, acct>>
    /\ UNCHANGED <<feeding, gate, toCap, part, eof, violated, cap, outAvail, live, grants, engine>>

\* Mutant: only full batches are granted.
FlushFullBatch(i) ==
    /\ MayRead(i) /\ queue[i] = <<>> /\ ~eof[i] /\ owedIn[i] >= Batch(CapWindow[i])
    /\ Grant(i, owedIn[i])
    /\ UNCHANGED <<feeding, gate, toCap, part, queue, eof, violated, cap, out, outAvail,
                   live, grants, engine>>

\* InputStream::recv that finds nothing grants what it owes before it waits.
FlushBeforeWait(i) ==
    /\ MayRead(i) /\ queue[i] = <<>> /\ ~eof[i] /\ owedIn[i] > 0
    /\ Grant(i, owedIn[i])
    /\ UNCHANGED <<feeding, gate, toCap, part, queue, eof, violated, cap, out, outAvail,
                   live, grants, engine>>

HasRead(i) == eof[i] /\ queue[i] = <<>>

Emit(i) == /\ Running(i) /\ out[i] # <<>> /\ outAvail[i] > 0
           /\ i \in Collecting => HasRead(i)
           /\ outAvail' = [outAvail EXCEPT ![i] = @ - 1]
           /\ out' = [out EXCEPT ![i] = Tail(@)]
           /\ fromCap' = [fromCap EXCEPT ![i] = Append(@, Head(out[i]))]
           /\ UNCHANGED <<feeding, gate, toCap, acct, part, queue, eof, owedIn, violated, cap,
                          live, grants, engine>>

Ends(i, how, frame) ==
    /\ Running(i)
    /\ cap' = [cap EXCEPT ![i] = how]
    /\ fromCap' = [fromCap EXCEPT ![i] = Append(@, frame)]
    /\ UNCHANGED <<feeding, gate, toCap, acct, part, queue, eof, owedIn, violated, out, outAvail,
                   live, grants, engine>>

Finish(i) == HasRead(i) /\ out[i] = <<>> /\ Ends(i, "ended", End)

\* A handler that returns without having read everything has succeeded too.
StopEarly(i) == i \in MayStop /\ ~HasRead(i) /\ out[i] = <<>> /\ Ends(i, "ended", End)

Fail(i) == i \in MayFail /\ Ends(i, "failed", Err)

\* The switch passes the terminal frame on and forgets the request.
Release(i) == /\ live[i] /\ ~Running(i)
              /\ live' = [live EXCEPT ![i] = FALSE]
              /\ UNCHANGED <<feeding, gate, toCap, inside, fromCap, grants, engine>>

GrantArrives(i) ==
    /\ grants[i] > 0
    /\ \E n \in 1 .. grants[i] :
         /\ grants' = [grants EXCEPT ![i] = @ - n]
         /\ outAvail' = IF Running(i) THEN [outAvail EXCEPT ![i] = @ + n] ELSE outAvail
    /\ UNCHANGED <<feeding, gate, toCap, acct, part, queue, eof, owedIn, violated, cap, out,
                   fromCap, live, engine>>
------------------------------------------------------------------------------
(* The forwarder from cap i to cap i + 1: forward_frames                   *)

\* send_upstream_credit: a request that is over needs no credit.
GrantBack(i, n) == grants' = IF live[i] THEN [grants EXCEPT ![i] = @ + n] ELSE grants

CountRead(i) == IF owedOut[i] + 1 >= Batch(Window)
                  THEN /\ GrantBack(i, owedOut[i] + 1)
                       /\ owedOut' = [owedOut EXCEPT ![i] = 0]
                  ELSE /\ owedOut' = [owedOut EXCEPT ![i] = @ + 1]
                       /\ UNCHANGED grants

FlushBack(i) == /\ GrantBack(i, owedOut[i])
                /\ owedOut' = [owedOut EXCEPT ![i] = 0]

Take(i) == fromCap' = [fromCap EXCEPT ![i] = Tail(@)]

\* The gate has let the chunk at the head through: send_to_master, then the
\* grant to the cap it came from.
SendOn(i) ==
    /\ gate[i + 1].open /\ gate[i + 1].avail > 0
    /\ gate' = [gate EXCEPT ![i + 1].avail = @ - 1]
    /\ Take(i)
    /\ IF live[i + 1]
         THEN /\ toCap' = [toCap EXCEPT ![i + 1] = Append(@, Head(fromCap[i]))]
              /\ fwd' = [fwd EXCEPT ![i] = "running"]
              /\ CountRead(i)
         ELSE /\ fwd' = [fwd EXCEPT ![i] = "failed"]
              /\ UNCHANGED <<toCap, owedOut, grants>>

\* try_acquire: sent, or kept until acquire returns, having granted all that
\* is owed; the kept chunk stays at the head of the channel here.
ForwardChunk(i) ==
    /\ fwd[i] = "running" /\ Heads(fromCap[i], "chunk")
    /\ \/ SendOn(i)
       \/ /\ gate[i + 1].open /\ gate[i + 1].avail = 0
          /\ FlushBack(i)
          /\ fwd' = [fwd EXCEPT ![i] = "blocked"]
          /\ UNCHANGED <<gate, toCap, fromCap>>
    /\ UNCHANGED <<feeding, inside, live, collector, collected, result>>

ForwardBlocked(i) == /\ fwd[i] = "blocked" /\ SendOn(i)
                     /\ UNCHANGED <<feeding, inside, live, collector, collected, result>>

\* A gate closed under the forwarder ends it, and is not an error.
ForwardReleased(i) ==
    /\ ~gate[i + 1].open
    /\ fwd[i] \in {"running", "blocked"} /\ Heads(fromCap[i], "chunk")
    /\ fwd' = [fwd EXCEPT ![i] = "done"]
    /\ Take(i)
    /\ UNCHANGED <<feeding, gate, toCap, inside, live, grants, owedOut, collector, collected, result>>

\* Mutant: a closed gate still counts grants.
RouteAnyCredit(i) == gate' = [gate EXCEPT ![i].avail = @ + Head(fromCap[i]).n]

\* CreditRouter::grant: to the gate of the stream that feeds cap i.
RouteCredit(i) ==
    gate' = IF gate[i].open THEN [gate EXCEPT ![i].avail = @ + Head(fromCap[i]).n] ELSE gate

ForwardCredit(i) ==
    /\ fwd[i] = "running" /\ Heads(fromCap[i], "credit")
    /\ RouteCredit(i) /\ Take(i)
    /\ UNCHANGED <<feeding, toCap, inside, live, grants, engine>>

ForwardEnd(i) ==
    /\ fwd[i] = "running" /\ Heads(fromCap[i], "end") /\ ~live[i]
    /\ Take(i)
    /\ IF live[i + 1]
         THEN /\ toCap' = [toCap EXCEPT ![i + 1] = Append(@, End)]
              /\ fwd' = [fwd EXCEPT ![i] = "done"]
         ELSE fwd' = [fwd EXCEPT ![i] = "failed"] /\ UNCHANGED toCap
    /\ UNCHANGED <<feeding, gate, inside, live, grants, owedOut, collector, collected, result>>

\* Mutant: an upstream error ends the next cap's input as END does.
ForwardErrAsEnd(i) ==
    /\ fwd[i] = "running" /\ Heads(fromCap[i], "err") /\ ~live[i]
    /\ Take(i)
    /\ toCap' = [toCap EXCEPT ![i + 1] = Append(@, End)]
    /\ fwd' = [fwd EXCEPT ![i] = "done"]
    /\ UNCHANGED <<feeding, gate, inside, live, grants, owedOut, collector, collected, result>>

\* The forwarder returns the error to whoever joins it; the next cap gets
\* neither END nor Cancel.
ForwardErr(i) ==
    /\ fwd[i] = "running" /\ Heads(fromCap[i], "err") /\ ~live[i]
    /\ Take(i)
    /\ fwd' = [fwd EXCEPT ![i] = "failed"]
    /\ UNCHANGED <<feeding, gate, toCap, inside, live, grants, owedOut, collector, collected, result>>

\* Half a second without a frame.
ForwardIdle(i) ==
    /\ fwd[i] = "running" /\ fromCap[i] = <<>> /\ owedOut[i] > 0
    /\ FlushBack(i)
    /\ UNCHANGED <<feeding, gate, toCap, inside, fromCap, live, fwd, collector, collected, result>>
------------------------------------------------------------------------------
(* The run: collect_terminal_output and step 6                             *)

Collect ==
    /\ collector = "running" /\ Heads(fromCap[N], "chunk")
    /\ collected' = Append(collected, <<Head(fromCap[N]).item, Head(fromCap[N]).frag>>)
    /\ Take(N) /\ CountRead(N)
    /\ UNCHANGED <<feeding, gate, toCap, inside, live, fwd, collector, result>>

CollectCredit ==
    /\ collector = "running" /\ Heads(fromCap[N], "credit")
    /\ RouteCredit(N) /\ Take(N)
    /\ UNCHANGED <<feeding, toCap, inside, live, grants, engine>>

CollectIdle ==
    /\ collector = "running" /\ fromCap[N] = <<>> /\ owedOut[N] > 0
    /\ FlushBack(N)
    /\ UNCHANGED <<feeding, gate, toCap, inside, fromCap, live, fwd, collector, collected, result>>

CollectTerminal ==
    /\ collector = "running" /\ ~live[N]
    /\ \/ Heads(fromCap[N], "end") /\ collector' = "ok"
       \/ Heads(fromCap[N], "err") /\ collector' = "err"
    /\ Take(N)
    /\ UNCHANGED <<feeding, gate, toCap, inside, live, grants, fwd, owedOut, collected, result>>

\* close_request for every invocation.
CloseGates ==
    /\ collector # "running" /\ \E i \in Caps : gate[i].open
    /\ gate' = [i \in Caps |-> [gate[i] EXCEPT !.open = FALSE]]
    /\ UNCHANGED <<feeding, toCap, inside, fromCap, live, grants, engine>>

\* The tasks are joined in turn; an error of any of them spoils the result.
\* (A failed chain is cancelled now: what that does is RelaySwitch's.)
Join ==
    /\ collector # "running" /\ \A i \in Caps : ~gate[i].open
    /\ feed # "running" /\ \A i \in Forwarders : fwd[i] \in {"done", "failed"}
    /\ result' = IF /\ collector = "ok" /\ feed = "done"
                    /\ \A i \in Forwarders : fwd[i] = "done"
                   THEN "ok" ELSE "failed"
    /\ UNCHANGED <<feeding, gate, toCap, inside, fromCap, live, grants, fwd, owedOut, collector,
                   collected>>
------------------------------------------------------------------------------
Init ==
    /\ feed = "running" /\ fed = 0
    /\ gate = [i \in Caps |-> [open |-> TRUE, avail |-> Window]]
    /\ toCap = [i \in Caps |-> <<>>] /\ fromCap = [i \in Caps |-> <<>>]
    /\ acct = CapWindow /\ outAvail = CapWindow
    /\ part = [i \in Caps |-> 0] /\ queue = [i \in Caps |-> <<>>]
    /\ eof = [i \in Caps |-> FALSE] /\ owedIn = [i \in Caps |-> 0] /\ violated = {}
    /\ cap = [i \in Caps |-> "running"] /\ out = [i \in Caps |-> <<>>]
    /\ live = [i \in Caps |-> TRUE]
    /\ fwd = [i \in Forwarders |-> "running"] /\ owedOut = [i \in Caps |-> 0]
    /\ grants = [i \in Caps |-> 0]
    /\ collector = "running" /\ collected = <<>> /\ result = "none"

FeedStep == FeedItem \/ FeedEnds \/ FeedReleased
HandlerStep(i) == Read(i) \/ FlushBeforeWait(i) \/ Emit(i) \/ Finish(i)
ForwardStep(i) == \/ ForwardChunk(i) \/ ForwardBlocked(i) \/ ForwardReleased(i)
                  \/ ForwardCredit(i) \/ ForwardEnd(i) \/ ForwardErr(i) \/ ForwardIdle(i)
RunStep == \/ Collect \/ CollectCredit \/ CollectIdle \/ CollectTerminal
           \/ CloseGates \/ Join

\* The model ends with the run.
Next == /\ result = "none"
        /\ \/ FeedStep
           \/ \E i \in Caps : \/ Arrive(i) \/ HandlerStep(i) \/ StopEarly(i) \/ Fail(i)
                              \/ Release(i) \/ GrantArrives(i)
           \/ \E i \in Forwarders : ForwardStep(i)
           \/ RunStep

Spec == Init /\ [][Next]_vars

\* The tasks and the links are scheduled, the timeouts fire, and a handler
\* that can go on does; that a cap fails or stops is not assumed.
Fairness ==
    /\ WF_vars(result = "none" /\ FeedStep)
    /\ WF_vars(result = "none" /\ RunStep)
    /\ \A i \in Caps : /\ WF_vars(result = "none" /\ Arrive(i))
                       /\ WF_vars(result = "none" /\ HandlerStep(i))
                       /\ WF_vars(result = "none" /\ Release(i))
                       /\ WF_vars(result = "none" /\ GrantArrives(i))
    /\ \A i \in Forwarders : WF_vars(result = "none" /\ ForwardStep(i))

FairSpec == Spec /\ Fairness
------------------------------------------------------------------------------
(* Properties                                                              *)

Total(s) == LET upTo[k \in 0 .. Len(s)] == IF k = 0 THEN 0 ELSE upTo[k - 1] + s[k]
            IN upTo[Len(s)]
Count(ch) == Total([k \in DOMAIN ch |-> IF ch[k].type = "chunk" THEN 1 ELSE 0])
Granted(ch) == Total([k \in DOMAIN ch |-> IF ch[k].type = "credit" THEN ch[k].n ELSE 0])

\* Every part of the state has its type, and no gate ever holds more than
\* the window it started with.
TypeOK ==
    /\ feed \in {"running", "done", "failed"} /\ fed \in 0 .. Items
    /\ \A i \in Caps :
         /\ gate[i].open \in BOOLEAN /\ gate[i].avail \in 0 .. Window
         /\ outAvail[i] \in 0 .. CapWindow[i]
         /\ part[i] \in 0 .. FramesIn(i) - 1
         /\ cap[i] \in {"running", "ended", "failed"}
         /\ eof[i] \in BOOLEAN /\ live[i] \in BOOLEAN
         /\ acct[i] <= CapWindow[i] /\ owedIn[i] < Batch(CapWindow[i])
         /\ owedOut[i] < Batch(Window) /\ grants[i] \in 0 .. CapWindow[i]
    /\ violated \subseteq Caps
    /\ \A i \in Forwarders : fwd[i] \in {"running", "blocked", "done", "failed"}
    /\ collector \in {"running", "ok", "err"} /\ result \in {"none", "ok", "failed"}

\* What the run has collected is a prefix of what the caps make of the feed:
\* no chunk is lost, repeated or overtaken on any hop, whatever windows,
\* fragments and failures there are.
AllOutput == [k \in 1 .. Items * Frames[N] |->
                <<((k - 1) \div Frames[N]) + 1, ((k - 1) % Frames[N]) + 1>>]
InOrder == IsPrefix(collected, AllOutput)

\* A run that reports success has all the output, unless a cap itself chose
\* to stop before it had read its input: a failure upstream never passes for
\* a shorter stream.
StoppedEarly(i) == cap[i] = "ended" /\ ~HasRead(i)
SuccessIsComplete ==
    result = "ok" /\ (\A i \in Caps : ~StoppedEarly(i)) => collected = AllOutput

\* The credits of a cap's output stream go round: none is minted, so the
\* engine never buffers more of its output than its window although the
\* channels are unbounded, and none is lost while both ends run.
Reader(i) == IF i = N THEN collector = "running" ELSE fwd[i] \in {"running", "blocked"}
OutputTotal(i) == outAvail[i] + Count(fromCap[i]) + owedOut[i] + grants[i]
OutputCredits == \A i \in Caps :
    /\ OutputTotal(i) <= CapWindow[i]
    /\ Running(i) /\ Reader(i) => OutputTotal(i) = CapWindow[i]

\* Every input stream of the chain, the feed's into the first cap and a
\* forwarder's into each other one, fragments, failures and all, is a credit
\* hop: demux_multi_stream, InputGrantEmitter, CreditRouter and CreditGate
\* together neither mint nor lose a credit, the demux never reports a
\* CREDIT_VIOLATION, and a stalled sender is owed its window.
Held(i) == Len(queue[i]) + (IF part[i] > 0 THEN 1 ELSE 0)
Hop(i) == INSTANCE CreditHop
    WITH W <- Window, RW <- CapWindow[i], open <- gate[i].open, ended <- ~Running(i),
         avail <- gate[i].avail, wire <- Count(toCap[i]), held <- Held(i), owed <- owedIn[i],
         credit <- Granted(fromCap[i]), window <- acct[i], violated <- i \in violated
HopsAreCreditHops == /\ \A i \in Caps : Hop(i)!Init
                     /\ [][\A i \in Caps : [Hop(i)!Next]_(Hop(i)!vars)]_vars

Faulty(i) == cap[i] = "failed" \/ StoppedEarly(i)

\* With a window of one the first fragment of an item takes the only credit,
\* which comes back when the whole item was consumed.
ItemsFit == Window > 1 \/ \A i \in Caps : Frames[i] = 1

\* A run none of whose caps fails or stops early ends: partial batches are
\* flushed and fragments credited on arrival, so no reader waits for frames
\* its sender has no credit for.  Where ItemsFit is false it does not end.
CleanRunEnds == ItemsFit => <>(result # "none" \/ \E i \in Caps : Faulty(i))

\* Every run ends, an ERR of any of its caps included (15.2: "ERR -> fail").
RunEnds == <>(result # "none")
=============================================================================
