------------------------------- MODULE LiveFeed -------------------------------
(***************************************************************************)
(* A live feed inside a cartridge (live_feed.rs): a capture thread pushes   *)
(* items into a bounded ring, a feeder thread moves them to a bounded       *)
(* channel, a handler reads that channel.  The ring is where items may be   *)
(* lost: capture cannot wait.  The demultiplexer of the request opens the   *)
(* feed, and the main loop of the runtime (cartridge_runtime.rs) closes it  *)
(* when a Cancel comes.                                                     *)
(*                                                                         *)
(* An item is its capture number.  The ring, the end of production and the  *)
(* failure are behind one mutex, whose critical sections are actions; the   *)
(* counters and the closed flag are atomics that are read and written       *)
(* outside of it, in actions of their own.                                  *)
(***************************************************************************)
EXTENDS Integers, Sequences

CONSTANTS
  Selectors,    \* what feeds may be opened with
  ChannelCap,   \* DELIVERY_CHANNEL_CAP
  MaxCaptured,  \* bound: items a device captures
  MaxCancels    \* bound: Cancel frames for the request

\* The selector: ring capacity, overrun policy, max_items (0 = none) and whether
\* there is a duration.
SelectorShape ==
  [ring : Nat \ {0}, policy : {"drop-oldest", "fail"}, maxItems : Nat, timed : BOOLEAN]

ASSUME ConstantsAssumption ==
  /\ Selectors \subseteq SelectorShape
  /\ ChannelCap \in Nat \ {0}
  /\ MaxCaptured \in Nat
  /\ MaxCancels \in Nat

VARIABLES
  selector,
  demux,      \* the request's demultiplexer: how far it is with the reference
  ring,       \* FeedState.ring: capture numbers, oldest first
  finished,   \* FeedState.producer_done
  failed,     \* FeedState.failed is set
  closed,     \* FeedShared.closed
  captured,   \* FeedShared.captured
  dropped,    \* FeedShared.dropped_since_delivery
  backend,    \* the capture thread: where it stands
  feeder,     \* the feeder thread: where it stands
  hand,       \* the item the feeder holds
  gap,        \* the count in the gap marker of that item, 0 = no marker
  last,       \* the item the feeder delivered before, or None
  channel,    \* delivery channel: items, or the error
  expired,    \* the deadline has passed
  handler,    \* reading | left | done
  fate,       \* how the stream ended, as its reader sees it
  known,      \* the main loop still has the feed handles of the request
  cancelled,  \* the request is in cancelled_requests
  cancels,    \* Cancel frames so far
  delivered,  \* history: items sent, into the channel or to a reader who left
  reported,   \* history: total of the gap markers
  refused     \* history: items an overrun failure turned away

state == <<ring, finished, failed>>
capture == <<captured, dropped, backend>>
feed == <<feeder, hand, gap, last, channel, fate>>
runtime == <<handler, known, cancelled, cancels>>
history == <<delivered, reported, refused>>
vars == <<selector, demux, state, closed, capture, feed, expired, runtime, history>>

None == -1
Error == -2

TypeOK ==
  /\ selector \in Selectors
  /\ demux \in {"waiting", "queued", "opened", "feeding", "resolved", "gone"}
  /\ ring \in Seq(Nat) /\ Len(ring) <= selector.ring
  /\ finished \in BOOLEAN /\ failed \in BOOLEAN /\ closed \in BOOLEAN
  /\ captured \in Nat /\ dropped \in Nat
  /\ backend \in {"off", "ready", "number", "push", "finish", "close", "gone"}
  /\ feeder \in {"off", "top", "take", "stamp", "send", "sendErr", "gone"}
  /\ hand \in Nat /\ gap \in Nat
  /\ last \in Nat \cup {None}
  /\ channel \in Seq(Nat \cup {Error}) /\ Len(channel) <= ChannelCap
  /\ expired \in BOOLEAN
  /\ handler \in {"reading", "left", "done"}
  /\ fate \in {"open", "clean", "error", "abandoned"}
  /\ known \in BOOLEAN /\ cancelled \in BOOLEAN
  /\ cancels \in Nat
  /\ delivered \in Nat /\ reported \in Nat /\ refused \in Nat

(***************************************************************************)
(* Opening: the reference argument ends, and its device is opened.         *)
(***************************************************************************)

\* The main loop forwards the end of the reference's stream, unless the
\* request was cancelled before.
ReferenceEnds ==
  /\ demux = "waiting"
  /\ ~cancelled
  /\ demux' = "queued"
  /\ UNCHANGED <<selector, state, closed, capture, feed, expired, runtime, history>>

HandlerLeaves == handler' = IF handler = "reading" THEN "left" ELSE handler

\* A cancelled request's frames stop: without a reference, nothing is opened
\* and the handler finds its input ended.
ReferenceLost ==
  /\ demux = "waiting"
  /\ cancelled
  /\ demux' = "gone"
  /\ HandlerLeaves
  /\ UNCHANGED <<selector, state, closed, capture, feed, expired, known, cancelled, cancels,
                 history>>

\* The selector is refused or the device cannot be opened: an error is all the
\* handler gets.
OpenFails ==
  /\ demux = "queued"
  /\ demux' = "gone"
  /\ HandlerLeaves
  /\ UNCHANGED <<selector, state, closed, capture, feed, expired, known, cancelled, cancels,
                 history>>

\* bridge_feed opens the device, which captures from now on, ...
OpenDevice ==
  /\ demux = "queued"
  /\ demux' = "opened"
  /\ backend' = "ready"
  /\ UNCHANGED <<selector, state, closed, captured, dropped, feed, expired, runtime, history>>

\* ... then starts the feeder; ...
StartFeeder ==
  /\ demux = "opened"
  /\ demux' = "feeding"
  /\ feeder' = "top"
  /\ UNCHANGED <<selector, state, closed, capture, hand, gap, last, channel, fate, expired,
                 runtime, history>>

\* ... resolve adds the handle to the request's list and hands over the stream,
\* to nobody when the handler has left.
RegisterHandle ==
  /\ demux = "feeding"
  /\ demux' = "resolved"
  /\ channel' = IF handler = "reading" THEN channel ELSE <<>>
  /\ UNCHANGED <<selector, state, closed, capture, feeder, hand, gap, last, fate, expired,
                 runtime, history>>

ReaderGone == demux = "resolved" /\ handler # "reading"

(***************************************************************************)
(* The capture thread: LiveFeedSink::push, finish and fail.                *)
(***************************************************************************)

\* Mutant: push does not look whether the feed is closed.
PushUnchecked ==
  /\ backend = "ready"
  /\ captured < MaxCaptured
  /\ backend' = "number"
  /\ UNCHANGED <<selector, demux, state, closed, captured, dropped, feed, expired, runtime,
                 history>>

\* push begins; on a closed feed it returns false and the device is released.
\* (The look at `closed` at the end of push is the one of the next push.)
PushCheck ==
  /\ backend = "ready"
  /\ closed \/ captured < MaxCaptured
  /\ backend' = IF closed THEN "gone" ELSE "number"
  /\ UNCHANGED <<selector, demux, state, closed, captured, dropped, feed, expired, runtime,
                 history>>

PushNumber ==
  /\ backend = "number"
  /\ backend' = "push"
  /\ captured' = captured + 1
  /\ UNCHANGED <<selector, demux, state, closed, dropped, feed, expired, runtime, history>>

\* The number of the item that is being pushed.
Numbered == captured - 1
Full == Len(ring) >= selector.ring
AfterPush ==
  IF selector.maxItems # 0 /\ captured >= selector.maxItems THEN "finish" ELSE "ready"

\* Mutant: what is evicted is not counted.
EvictSilently ==
  /\ backend = "push"
  /\ Full /\ selector.policy = "drop-oldest"
  /\ ring' = Append(Tail(ring), Numbered)
  /\ backend' = AfterPush
  /\ UNCHANGED <<selector, demux, finished, failed, closed, captured, dropped, feed, expired,
                 runtime, history>>

Store ==
  /\ backend = "push"
  /\ ~Full
  /\ ring' = Append(ring, Numbered)
  /\ backend' = AfterPush
  /\ UNCHANGED <<selector, demux, finished, failed, closed, captured, dropped, feed, expired,
                 runtime, history>>

EvictOldest ==
  /\ backend = "push"
  /\ Full /\ selector.policy = "drop-oldest"
  /\ ring' = Append(Tail(ring), Numbered)
  /\ dropped' = dropped + 1
  /\ backend' = AfterPush
  /\ UNCHANGED <<selector, demux, finished, failed, closed, captured, feed, expired, runtime,
                 history>>

\* FEED_OVERRUN: the failure is set under the lock, the feed closed after it.
OverrunFails ==
  /\ backend = "push"
  /\ Full /\ selector.policy = "fail"
  /\ failed' = TRUE
  /\ refused' = refused + 1
  /\ backend' = "close"
  /\ UNCHANGED <<selector, demux, ring, finished, closed, captured, dropped, feed, expired,
                 runtime, delivered, reported>>

\* The device reports an error between two items: LiveFeedSink::fail.
DeviceFails ==
  /\ backend = "ready"
  /\ failed' = TRUE
  /\ backend' = "close"
  /\ UNCHANGED <<selector, demux, ring, finished, closed, captured, dropped, feed, expired,
                 runtime, history>>

FailCloses ==
  /\ backend = "close"
  /\ closed' = TRUE
  /\ backend' = "gone"
  /\ UNCHANGED <<selector, demux, state, captured, dropped, feed, expired, runtime, history>>

\* max_items is reached, or the device has no more: LiveFeedSink::finish.
Finish ==
  /\ backend \in {"finish", "ready"}
  /\ finished' = TRUE
  /\ backend' = "gone"
  /\ UNCHANGED <<selector, demux, ring, failed, closed, captured, dropped, feed, expired,
                 runtime, history>>

BackendStep ==
  PushCheck \/ PushNumber \/ Store \/ EvictOldest \/ OverrunFails \/ FailCloses

(***************************************************************************)
(* The feeder thread of bridge_feed.                                       *)
(***************************************************************************)

DeadlinePasses ==
  /\ selector.timed
  /\ demux \notin {"waiting", "queued", "gone"}
  /\ ~expired
  /\ expired' = TRUE
  /\ UNCHANGED <<selector, demux, state, closed, capture, feed, runtime, history>>

FeederTop ==
  /\ feeder = "top"
  /\ feeder' = "take"
  /\ closed' = (closed \/ expired)
  /\ UNCHANGED <<selector, demux, state, capture, hand, gap, last, channel, fate, expired,
                 runtime, history>>

\* A failure preempts what is left in the ring.
TakeFailure ==
  /\ feeder = "take"
  /\ failed
  /\ failed' = FALSE
  /\ feeder' = "sendErr"
  /\ UNCHANGED <<selector, demux, ring, finished, closed, capture, hand, gap, last, channel,
                 fate, expired, runtime, history>>

TakeItem ==
  /\ feeder = "take"
  /\ ~failed
  /\ ring # <<>>
  /\ hand' = Head(ring)
  /\ ring' = Tail(ring)
  /\ feeder' = "stamp"
  /\ UNCHANGED <<selector, demux, finished, failed, closed, capture, gap, last, channel, fate,
                 expired, runtime, history>>

EndStream(how) == fate' = IF ReaderGone THEN "abandoned" ELSE how

\* Mutant: the ring is not drained when the feed is closed.
LeaveUndrained ==
  /\ feeder = "take"
  /\ finished \/ closed
  /\ feeder' = "gone"
  /\ EndStream("clean")
  /\ UNCHANGED <<selector, demux, state, closed, capture, hand, gap, last, channel, expired,
                 runtime, history>>

\* Mutant: a feed that is closed is waited on like one that is open.
LeaveFinishedOnly ==
  /\ feeder = "take"
  /\ ~failed
  /\ ring = <<>>
  /\ finished
  /\ feeder' = "gone"
  /\ EndStream("clean")
  /\ UNCHANGED <<selector, demux, state, closed, capture, hand, gap, last, channel, expired,
                 runtime, history>>

\* Drained and over: the sender of the channel is dropped, the stream ends.
Leave ==
  /\ feeder = "take"
  /\ ~failed
  /\ ring = <<>>
  /\ finished \/ closed
  /\ feeder' = "gone"
  /\ EndStream("clean")
  /\ UNCHANGED <<selector, demux, state, closed, capture, hand, gap, last, channel, expired,
                 runtime, history>>

\* The wait for a push ends every 50 ms to look at the deadline.
WaitForItem ==
  /\ feeder = "take"
  /\ ~failed
  /\ ring = <<>>
  /\ ~finished /\ ~closed
  /\ expired
  /\ closed' = TRUE
  /\ UNCHANGED <<selector, demux, state, capture, feed, expired, runtime, history>>

\* Mutant: the count of dropped items is left for a later item.
StampNothing ==
  /\ feeder = "stamp"
  /\ feeder' = "send"
  /\ gap' = 0
  /\ UNCHANGED <<selector, demux, state, closed, capture, hand, last, channel, fate, expired,
                 runtime, history>>

\* The lock is free again when the count of dropped items is swapped for 0.
Stamp ==
  /\ feeder = "stamp"
  /\ feeder' = "send"
  /\ gap' = dropped
  /\ dropped' = 0
  /\ reported' = reported + dropped
  /\ UNCHANGED <<selector, demux, state, closed, captured, backend, hand, last, channel, fate,
                 expired, runtime, delivered, refused>>

\* blocking_send: wait for room, or find that the reader is gone.
Send ==
  /\ feeder = "send"
  /\ IF ReaderGone
       THEN /\ closed' = TRUE
            /\ feeder' = "gone"
            /\ fate' = "abandoned"
            /\ UNCHANGED channel
       ELSE /\ Len(channel) < ChannelCap
            /\ channel' = Append(channel, hand)
            /\ feeder' = "top"
            /\ UNCHANGED <<closed, fate>>
  /\ last' = hand
  /\ delivered' = delivered + 1
  /\ UNCHANGED <<selector, demux, state, capture, hand, gap, expired, runtime, reported,
                 refused>>

SendError ==
  /\ feeder = "sendErr"
  /\ IF ReaderGone
       THEN UNCHANGED channel
       ELSE /\ Len(channel) < ChannelCap
            /\ channel' = Append(channel, Error)
  /\ feeder' = "gone"
  /\ EndStream("error")
  /\ UNCHANGED <<selector, demux, state, closed, capture, hand, gap, last, expired, runtime,
                 history>>

FeederStep ==
  \/ FeederTop \/ TakeFailure \/ TakeItem \/ Leave \/ WaitForItem \/ Stamp \/ Send
  \/ SendError

(***************************************************************************)
(* The handler and the runtime's main loop.                                *)
(***************************************************************************)

Read ==
  /\ demux = "resolved"
  /\ handler = "reading"
  /\ channel # <<>>
  /\ channel' = Tail(channel)
  /\ UNCHANGED <<selector, demux, state, closed, capture, feeder, hand, gap, last, fate,
                 expired, runtime, history>>

\* The handler has read its stream to the end, ...
HandlerEnds ==
  /\ handler = "reading"
  /\ demux = "resolved"
  /\ feeder = "gone" /\ channel = <<>>
  /\ handler' = "left"
  /\ UNCHANGED <<selector, demux, state, closed, capture, feed, expired, known, cancelled,
                 cancels, history>>

\* ... or it stops reading, at any time.
HandlerQuits ==
  /\ handler = "reading"
  /\ handler' = "left"
  /\ channel' = IF demux = "resolved" THEN <<>> ELSE channel
  /\ UNCHANGED <<selector, demux, state, closed, capture, feeder, hand, gap, last, fate,
                 expired, known, cancelled, cancels, history>>

\* handler_done: the main loop closes the feeds it knows of and forgets them.
Reap ==
  /\ handler = "left"
  /\ handler' = "done"
  /\ closed' = (closed \/ (known /\ demux = "resolved"))
  /\ known' = FALSE
  /\ UNCHANGED <<selector, demux, state, capture, feed, expired, cancelled, cancels, history>>

\* Cancel: a request with open feeds has them closed, and keeps running; any
\* other is cancelled.  Either way its feed handles are forgotten.
Cancel ==
  /\ handler # "done"
  /\ cancels < MaxCancels
  /\ cancels' = cancels + 1
  /\ ~cancelled
  /\ known' = FALSE
  /\ IF known /\ demux = "resolved"
       THEN closed' = TRUE /\ UNCHANGED cancelled
       ELSE cancelled' = TRUE /\ UNCHANGED closed
  /\ UNCHANGED <<selector, demux, state, capture, feed, expired, handler, history>>

Init ==
  /\ selector \in Selectors
  /\ demux = "waiting"
  /\ ring = <<>> /\ finished = FALSE /\ failed = FALSE /\ closed = FALSE
  /\ captured = 0 /\ dropped = 0
  /\ backend = "off" /\ feeder = "off"
  /\ hand = 0 /\ gap = 0 /\ last = None
  /\ channel = <<>>
  /\ expired = FALSE
  /\ handler = "reading" /\ fate = "open"
  /\ known = TRUE /\ cancelled = FALSE /\ cancels = 0
  /\ delivered = 0 /\ reported = 0 /\ refused = 0

DemuxStep == ReferenceLost \/ OpenFails \/ OpenDevice \/ StartFeeder \/ RegisterHandle

Next ==
  \/ ReferenceEnds \/ DemuxStep
  \/ BackendStep \/ DeviceFails \/ Finish
  \/ DeadlinePasses \/ FeederStep
  \/ Read \/ HandlerEnds \/ HandlerQuits \/ Reap \/ Cancel

\* The threads run and the handler reads.  A device need not capture, fail or
\* finish, and nobody need cancel; a push that has begun goes on.
Fairness ==
  /\ WF_vars(DemuxStep)
  /\ WF_vars(BackendStep /\ backend # "ready")
  /\ WF_vars(FeederStep)
  /\ WF_vars(Read) /\ WF_vars(HandlerEnds) /\ WF_vars(Reap)

Spec == Init /\ [][Next]_vars
FairSpec == Spec /\ Fairness

(***************************************************************************)
(* Properties.                                                             *)
(***************************************************************************)

Pushing == IF backend = "push" THEN 1 ELSE 0
InHand == IF feeder \in {"stamp", "send"} THEN 1 ELSE 0

\* Nothing is lost silently: every item the device captured is on its way, was
\* delivered, is counted in a gap marker or will be in the next one, or is the
\* one whose overrun failed the feed.
NothingSilent ==
  captured = delivered + reported + dropped + refused + Len(ring) + InHand + Pushing

\* A loss is reported no later than with the first item captured after it:
\* before an item goes out, as many items were delivered and reported as were
\* captured before it.
LossReportedInTime ==
  feeder = "send" => hand <= delivered + reported

\* Stopping a feed drains it: when the stream ended cleanly, at most the one
\* item whose push was under way is left behind.
StopLosesAtMostOne ==
  fate = "clean" => Len(ring) + Pushing <= 1

\* A device that fails, or an overrun declared to be a failure, never looks like
\* the clean end of the feed to the handler.
FailureNeverLooksClean ==
  [][failed /\ fate = "open" => fate' # "clean"]_vars

\* A feed that was stopped, has failed, has finished or is past its duration
\* ends, whatever the capture thread and the handler are doing.
FeedOver == closed \/ failed \/ finished \/ expired
ClosedFeedEnds == FeedOver /\ feeder # "off" ~> fate # "open"

\* A jump in the capture numbers is marked on the item behind it.
JumpsAreMarked ==
  feeder = "send" /\ hand # last + 1 => gap > 0

\* A request that was told to stop ends.
StopEndsTheRequest == cancels > 0 ~> handler = "done"
==============================================================================
