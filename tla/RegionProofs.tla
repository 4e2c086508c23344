----------------------------- MODULE RegionProofs -----------------------------
(***************************************************************************)
(* Theorems about LiveFeed, for any selectors, channel capacity and bounds: *)
(* no item is lost silently, a loss is reported in time, a stop loses at    *)
(* most one item, and a failure never looks like a clean end.               *)
(*                                                                         *)
(* Theorems about ForEachRegion, whose source may be such a feed, for any   *)
(* number of bodies and permits, any pipelines, policies and runs beside    *)
(* them: a region that succeeds has the outcome of every item, and never    *)
(* runs more bodies at once than it may.                                    *)
(***************************************************************************)
EXTENDS LiveFeed, ForEachRegion, FiniteSetTheorems, SequenceTheorems, TLAPS

(***************************************************************************)
(* The feed: types.                                                        *)
(***************************************************************************)

LEMMA AppendTo ==
  ASSUME NEW S, NEW s \in Seq(S), NEW e \in S
  PROVE  /\ Append(s, e) \in Seq(S)
         /\ Len(Append(s, e)) = Len(s) + 1
         /\ \A i \in 1 .. Len(s) : Append(s, e)[i] = s[i]
         /\ Append(s, e)[Len(s) + 1] = e
  OBVIOUS

LEMMA TailOf ==
  ASSUME NEW S, NEW s \in Seq(S), s # <<>>
  PROVE  /\ Len(s) \in Nat \ {0}
         /\ Head(s) \in S /\ Head(s) = s[1]
         /\ Tail(s) \in Seq(S)
         /\ Len(Tail(s)) = Len(s) - 1
         /\ \A i \in 1 .. (Len(s) - 1) : Tail(s)[i] = s[i + 1]
  OBVIOUS

LEMMA EmptySequence ==
  ASSUME NEW S
  PROVE  <<>> \in Seq(S) /\ Len(<<>>) = 0
  OBVIOUS

\* The order of opening a feed, and the number a push begins with.
Stages ==
  /\ demux \in {"waiting", "queued"} => backend = "off"
  /\ demux \in {"waiting", "queued", "opened"} => feeder = "off"
  /\ backend = "push" => captured > 0

Constants == selector.ring \in Nat \ {0} /\ ChannelCap \in Nat \ {0}

LEMMA Bounds == TypeOK => Constants
  BY ConstantsAssumption DEF TypeOK, SelectorShape, Constants

LEMMA TypeInit == Init => TypeOK /\ Stages
<1> SUFFICES ASSUME Init
             PROVE  TypeOK /\ Stages
  OBVIOUS
<1>1. /\ selector \in Selectors
      /\ selector.ring \in Nat /\ ChannelCap \in Nat
  BY ConstantsAssumption DEF Init, SelectorShape
<1>2. ring \in Seq(Nat) /\ channel \in Seq(Nat \cup {Error})
  BY EmptySequence DEF Init
<1>3. Len(ring) <= selector.ring /\ Len(channel) <= ChannelCap
  BY <1>1, EmptySequence DEF Init
<1> QED
  BY <1>1, <1>2, <1>3 DEF Init, TypeOK, Stages

LEMMA TypeStep == TypeOK /\ Stages /\ [Next]_vars => TypeOK' /\ Stages'
<1> SUFFICES ASSUME TypeOK, Stages, [Next]_vars
             PROVE  TypeOK' /\ Stages'
  OBVIOUS
<1> USE DEF Stages
<1> USE DEF TypeOK, state, capture, feed, runtime, history
<1>0. selector.ring \in Nat \ {0} /\ ChannelCap \in Nat \ {0}
  BY Bounds DEF Constants
<1>1. CASE ReferenceEnds BY <1>1 DEF ReferenceEnds
<1>2. CASE ReferenceLost BY <1>2 DEF ReferenceLost, HandlerLeaves
<1>3. CASE OpenFails BY <1>3 DEF OpenFails, HandlerLeaves
<1>4. CASE OpenDevice BY <1>4 DEF OpenDevice
<1>5. CASE StartFeeder BY <1>5 DEF StartFeeder
<1>6. CASE RegisterHandle BY <1>6, <1>0 DEF RegisterHandle
<1>7. CASE PushCheck BY <1>7 DEF PushCheck
<1>8. CASE PushNumber BY <1>8 DEF PushNumber
<1>9. CASE Store
  <2>1. Numbered \in Nat BY <1>9 DEF Store, Numbered
  <2>2. ring' \in Seq(Nat) /\ Len(ring') = Len(ring) + 1
    BY <1>9, <2>1, AppendTo DEF Store
  <2> QED BY <1>9, <2>2, <1>0 DEF Store, Full, AfterPush
<1>10. CASE EvictOldest
  <2>1. Numbered \in Nat BY <1>10 DEF EvictOldest, Numbered
  <2>2. ring # <<>> BY <1>10, <1>0, EmptySequence DEF EvictOldest, Full
  <2>3. Tail(ring) \in Seq(Nat) /\ Len(Tail(ring)) = Len(ring) - 1
    BY <2>2, TailOf
  <2>4. ring' \in Seq(Nat) /\ Len(ring') = Len(ring)
    BY <1>10, <2>1, <2>3, AppendTo DEF EvictOldest
  <2> QED BY <1>10, <2>4, <1>0 DEF EvictOldest, AfterPush
<1>11. CASE OverrunFails BY <1>11 DEF OverrunFails
<1>12. CASE FailCloses BY <1>12 DEF FailCloses
<1>13. CASE DeviceFails BY <1>13 DEF DeviceFails
<1>14. CASE Finish BY <1>14 DEF Finish
<1>15. CASE DeadlinePasses BY <1>15 DEF DeadlinePasses
<1>16. CASE FeederTop BY <1>16 DEF FeederTop
<1>17. CASE TakeFailure
  <2>1. failed' \in BOOLEAN /\ feeder' = "sendErr" BY <1>17 DEF TakeFailure
  <2> QED BY <1>17, <2>1 DEF TakeFailure
<1>18. CASE TakeItem BY <1>18, <1>0 DEF TakeItem
<1>19. CASE Leave BY <1>19 DEF Leave, EndStream
<1>20. CASE WaitForItem BY <1>20 DEF WaitForItem
<1>21. CASE Stamp BY <1>21 DEF Stamp
<1>22. CASE Send
  <2>1. closed' \in BOOLEAN /\ channel' \in Seq(Nat \cup {Error}) /\ Len(channel') <= ChannelCap
    <3>1. CASE ReaderGone BY <1>22, <3>1 DEF Send
    <3>2. CASE ~ReaderGone
      <4>1. /\ Append(channel, hand) \in Seq(Nat \cup {Error})
            /\ Len(Append(channel, hand)) = Len(channel) + 1
        BY AppendTo
      <4>2. channel' = Append(channel, hand) /\ Len(channel) < ChannelCap
        BY <1>22, <3>2 DEF Send
      <4>3. UNCHANGED closed
        BY <1>22, <3>2 DEF Send
      <4> QED BY <4>1, <4>2, <4>3, <1>0
    <3> QED BY <3>1, <3>2
  <2>2. fate' \in {"open", "clean", "error", "abandoned"} /\ feeder' \in {"top", "gone"}
    BY <1>22 DEF Send
  <2>3. last' = hand /\ delivered' = delivered + 1 /\ feeder = "send"
    BY <1>22 DEF Send
  <2> QED BY <1>22, <2>1, <2>2, <2>3 DEF Send
<1>23. CASE SendError BY <1>23, <1>0 DEF SendError, EndStream, Error
<1>24. CASE Read
  <2>1. channel' \in Seq(Nat \cup {Error}) /\ Len(channel') <= ChannelCap
    BY <1>24, <1>0, TailOf DEF Read
  <2> QED BY <1>24, <2>1 DEF Read
<1>25. CASE HandlerEnds BY <1>25 DEF HandlerEnds
<1>26. CASE HandlerQuits BY <1>26, <1>0 DEF HandlerQuits
<1>27. CASE Reap
  <2>1. closed' \in BOOLEAN /\ known' \in BOOLEAN /\ handler' = "done"
    BY <1>27 DEF Reap
  <2> QED BY <1>27, <2>1 DEF Reap
<1>28. CASE Cancel
  <2>1. closed' \in BOOLEAN /\ known' \in BOOLEAN /\ cancelled' \in BOOLEAN
    BY <1>28 DEF Cancel
  <2>2. cancels' = cancels + 1
    BY <1>28 DEF Cancel
  <2> QED BY <1>28, <2>1, <2>2 DEF Cancel
<1>29. CASE UNCHANGED vars BY <1>29 DEF vars
<1> QED
  BY <1>1, <1>2, <1>3, <1>4, <1>5, <1>6, <1>7, <1>8, <1>9, <1>10, <1>11, <1>12, <1>13,
     <1>14, <1>15, <1>16, <1>17, <1>18, <1>19, <1>20, <1>21, <1>22, <1>23, <1>24, <1>25,
     <1>26, <1>27, <1>28, <1>29
  DEF Next, DemuxStep, BackendStep, FeederStep

LEMMA TypesAndStages == Spec => [](TypeOK /\ Stages)
  BY TypeInit, TypeStep, PTL DEF Spec

\* Every variable has its type; the ring and the channel keep to their bounds.
THEOREM TypeCorrect == Spec => []TypeOK
  BY TypesAndStages, PTL

(***************************************************************************)
(* Accounting.  Most steps touch neither an item nor a count.              *)
(***************************************************************************)

\* The steps that move no item: those of the runtime and the handler, and those
\* of the two threads that only change where the thread stands.
Unmoved ==
  /\ UNCHANGED <<ring, captured, dropped, hand, history>>
  /\ Pushing' = Pushing /\ InHand' = InHand
  /\ backend' = "push" => backend = "push"
  /\ backend \in {"close", "gone"} => backend' \in {"close", "gone"}
  /\ feeder' \in {"stamp", "send"} => feeder' = feeder

LEMMA UnmovedSteps ==
  ASSUME TypeOK, Stages, [Next]_vars
  PROVE  Unmoved \/ PushNumber \/ Store \/ EvictOldest \/ OverrunFails \/ TakeItem
                 \/ Stamp \/ Send
<1> USE DEF Unmoved, Pushing, InHand, history, capture, feed, state
<1>1. CASE ReferenceEnds BY <1>1 DEF ReferenceEnds
<1>2. CASE ReferenceLost BY <1>2 DEF ReferenceLost
<1>3. CASE OpenFails BY <1>3 DEF OpenFails
<1>4. CASE OpenDevice BY <1>4 DEF OpenDevice, Stages
<1>5. CASE StartFeeder BY <1>5 DEF StartFeeder, Stages
<1>6. CASE RegisterHandle BY <1>6 DEF RegisterHandle
<1>7. CASE PushCheck BY <1>7 DEF PushCheck
<1>8. CASE FailCloses BY <1>8 DEF FailCloses
<1>9. CASE DeviceFails BY <1>9 DEF DeviceFails
<1>10. CASE Finish BY <1>10 DEF Finish
<1>11. CASE DeadlinePasses BY <1>11 DEF DeadlinePasses
<1>12. CASE FeederTop BY <1>12 DEF FeederTop
<1>13. CASE TakeFailure BY <1>13 DEF TakeFailure
<1>14. CASE Leave BY <1>14 DEF Leave
<1>15. CASE WaitForItem BY <1>15 DEF WaitForItem
<1>16. CASE SendError BY <1>16 DEF SendError
<1>17. CASE Read BY <1>17 DEF Read
<1>18. CASE HandlerEnds BY <1>18 DEF HandlerEnds
<1>19. CASE HandlerQuits BY <1>19 DEF HandlerQuits
<1>20. CASE Reap BY <1>20 DEF Reap
<1>21. CASE Cancel BY <1>21 DEF Cancel
<1>22. CASE UNCHANGED vars BY <1>22 DEF vars
<1> QED
  BY <1>1, <1>2, <1>3, <1>4, <1>5, <1>6, <1>7, <1>8, <1>9, <1>10, <1>11, <1>12, <1>13,
     <1>14, <1>15, <1>16, <1>17, <1>18, <1>19, <1>20, <1>21, <1>22
  DEF Next, DemuxStep, BackendStep, FeederStep

LEMMA AccountingInit == Init => NothingSilent
  BY EmptySequence DEF Init, NothingSilent, Pushing, InHand

LEMMA AccountingStep == TypeOK /\ Stages /\ NothingSilent /\ [Next]_vars => NothingSilent'
<1> SUFFICES ASSUME TypeOK, Stages, NothingSilent, [Next]_vars
             PROVE  NothingSilent'
  OBVIOUS
<1> USE DEF NothingSilent, Pushing, InHand, history
<1>0. /\ captured \in Nat /\ dropped \in Nat /\ delivered \in Nat /\ reported \in Nat
      /\ refused \in Nat /\ Len(ring) \in Nat /\ selector.ring \in Nat \ {0}
  BY Bounds DEF TypeOK, Constants
<1>1. CASE Unmoved BY <1>1 DEF Unmoved
<1>2. CASE PushNumber BY <1>2, <1>0 DEF PushNumber, state, feed
<1>3. CASE Store
  <2>1. Len(ring') = Len(ring) + 1
    BY <1>3, AppendTo DEF Store, Numbered, TypeOK, Stages
  <2> QED BY <1>3, <2>1, <1>0 DEF Store, AfterPush, feed
<1>4. CASE EvictOldest
  <2>1. ring # <<>>
    BY <1>4, <1>0, EmptySequence DEF EvictOldest, Full
  <2>2. Tail(ring) \in Seq(Nat) /\ Len(Tail(ring)) = Len(ring) - 1
    BY <2>1, TailOf DEF TypeOK
  <2>3. Numbered \in Nat
    BY <1>4 DEF EvictOldest, Numbered, TypeOK, Stages
  <2>4. Len(ring') = Len(ring)
    BY <1>4, <1>0, <2>2, <2>3, AppendTo DEF EvictOldest
  <2>5. backend = "push" /\ backend' # "push" /\ dropped' = dropped + 1
    BY <1>4 DEF EvictOldest, AfterPush
  <2>6. UNCHANGED <<captured, feeder, delivered, reported, refused>>
    BY <1>4 DEF EvictOldest, feed
  <2> QED BY <2>4, <2>5, <2>6, <1>0
<1>5. CASE OverrunFails BY <1>5, <1>0 DEF OverrunFails, feed
<1>6. CASE TakeItem
  <2>1. Len(ring') = Len(ring) - 1
    BY <1>6, TailOf DEF TakeItem, TypeOK
  <2> QED BY <1>6, <2>1, <1>0 DEF TakeItem, capture
<1>7. CASE Stamp BY <1>7, <1>0 DEF Stamp, state
<1>8. CASE Send BY <1>8, <1>0 DEF Send, state, capture
<1> QED
  BY <1>1, <1>2, <1>3, <1>4, <1>5, <1>6, <1>7, <1>8, UnmovedSteps

\* Every item the device captured is accounted for: under way, delivered, counted
\* in a gap marker or in the next one, or the one whose overrun failed the feed.
THEOREM EveryItemAccounted == Spec => []NothingSilent
  BY TypesAndStages, AccountingInit, AccountingStep, PTL DEF Spec

(***************************************************************************)
(* A loss is reported in time.  Items are stored in the order of their      *)
(* numbers without a hole, so the oldest in the ring is the one after all   *)
(* that were taken or dropped before it.                                   *)
(***************************************************************************)

\* Items stored so far; an overrun that fails the feed is the last push.
Stored == captured - Pushing - refused

InOrder ==
  /\ \A i \in 1 .. Len(ring) : ring[i] = Stored - Len(ring) + i - 1
  /\ refused > 0 => backend \in {"close", "gone"}
  /\ feeder = "stamp" => hand <= delivered + reported + dropped
  /\ feeder = "send" => hand <= delivered + reported

LEMMA OrderInit == Init => InOrder
  BY EmptySequence DEF Init, InOrder

LEMMA OrderStep ==
  TypeOK /\ Stages /\ NothingSilent /\ InOrder /\ [Next]_vars => InOrder'
<1> SUFFICES ASSUME TypeOK, Stages, NothingSilent, InOrder, [Next]_vars
             PROVE  InOrder'
  OBVIOUS
<1>0. /\ captured \in Nat /\ dropped \in Nat /\ delivered \in Nat /\ reported \in Nat
      /\ refused \in Nat /\ hand \in Nat
      /\ Len(ring) \in Nat /\ selector.ring \in Nat \ {0}
  BY Bounds DEF TypeOK, Constants
<1> USE DEF InOrder
<1>1. CASE Unmoved
  <2>1. Stored' = Stored
    BY <1>1 DEF Unmoved, Stored, history
  <2> QED BY <1>1, <2>1 DEF Unmoved, history
<1>2. CASE PushNumber
  <2>1. Stored' = Stored
    BY <1>2, <1>0 DEF PushNumber, Stored, Pushing, history
  <2> QED BY <1>2, <2>1 DEF PushNumber, state, feed, history
<1>3. CASE Store
  <2>1. backend = "push" /\ refused = 0 /\ Numbered \in Nat
    BY <1>3, <1>0 DEF Store, Numbered, TypeOK, Stages
  <2>2. /\ Len(ring') = Len(ring) + 1
        /\ \A i \in 1 .. Len(ring) : ring'[i] = ring[i]
        /\ ring'[Len(ring) + 1] = Numbered
    BY <1>3, <2>1, AppendTo DEF Store, TypeOK
  <2>3. Stored = captured - 1 /\ Stored' = captured
    BY <1>3, <2>1, <1>0 DEF Store, Stored, Pushing, AfterPush, history
  <2>4. ASSUME NEW i \in 1 .. Len(ring')
        PROVE  ring'[i] = Stored' - Len(ring') + i - 1
    BY <2>2, <2>3, <2>4, <1>0 DEF Numbered
  <2>5. UNCHANGED <<feeder, hand, delivered, reported, refused, dropped>>
    BY <1>3 DEF Store, feed, history
  <2> QED BY <2>1, <2>4, <2>5
<1>4. CASE EvictOldest
  <2>1. backend = "push" /\ refused = 0 /\ Numbered \in Nat
    BY <1>4, <1>0 DEF EvictOldest, Numbered, TypeOK, Stages
  <2>2. ring # <<>>
    BY <1>4, <1>0, EmptySequence DEF EvictOldest, Full
  <2>3. /\ Len(ring) > 0
        /\ Tail(ring) \in Seq(Nat) /\ Len(Tail(ring)) = Len(ring) - 1
        /\ \A i \in 1 .. (Len(ring) - 1) : Tail(ring)[i] = ring[i + 1]
    BY <2>2, <1>0, TailOf DEF TypeOK
  <2>4. ring' = Append(Tail(ring), Numbered)
    BY <1>4 DEF EvictOldest
  <2>5. /\ Len(ring') = Len(ring)
        /\ \A i \in 1 .. (Len(ring) - 1) : ring'[i] = ring[i + 1]
        /\ ring'[Len(ring)] = Numbered
    BY <2>1, <2>3, <2>4, <1>0, AppendTo
  <2>6. Stored = captured - 1 /\ Stored' = captured
    BY <1>4, <2>1, <1>0 DEF EvictOldest, Stored, Pushing, AfterPush, history
  <2>7. ASSUME NEW i \in 1 .. Len(ring')
        PROVE  ring'[i] = Stored' - Len(ring') + i - 1
    <3>1. CASE i = Len(ring)
      BY <3>1, <2>5, <2>6, <1>0 DEF Numbered
    <3>2. CASE i # Len(ring)
      <4>1. i \in Int /\ i + 1 \in 1 .. Len(ring) /\ ring'[i] = ring[i + 1]
        BY <3>2, <2>5, <1>0
      <4>2. ring[i + 1] = Stored - Len(ring) + (i + 1) - 1
        BY <4>1
      <4> QED BY <4>1, <4>2, <2>5, <2>6, <1>0
    <3> QED BY <3>1, <3>2
  <2>8. UNCHANGED <<feeder, hand, delivered, reported, refused>> /\ dropped' = dropped + 1
    BY <1>4 DEF EvictOldest, feed, history
  <2> QED BY <2>1, <2>7, <2>8, <1>0
<1>5. CASE OverrunFails
  <2>1. Stored' = Stored
    BY <1>5, <1>0 DEF OverrunFails, Stored, Pushing
  <2> QED BY <1>5, <2>1 DEF OverrunFails, feed
<1>6. CASE TakeItem
  <2>1. /\ Len(ring) > 0
        /\ hand' = ring[1]
        /\ Len(ring') = Len(ring) - 1
        /\ \A i \in 1 .. (Len(ring) - 1) : ring'[i] = ring[i + 1]
    BY <1>6, <1>0, TailOf DEF TakeItem, TypeOK
  <2>2. Stored' = Stored /\ UNCHANGED <<backend, refused, delivered, reported, dropped>>
    BY <1>6 DEF TakeItem, Stored, Pushing, capture, history
  <2>3. Stored - Len(ring) = delivered + reported + dropped
    BY <1>6, <1>0 DEF TakeItem, NothingSilent, Stored, Pushing, InHand
  <2>4. hand' = Stored - Len(ring)
    BY <2>1, <1>0 DEF Stored, Pushing
  <2>5. ASSUME NEW i \in 1 .. Len(ring')
        PROVE  ring'[i] = Stored' - Len(ring') + i - 1
    <3>1. i \in Int /\ i + 1 \in 1 .. Len(ring) /\ ring'[i] = ring[i + 1]
      BY <2>1, <1>0
    <3>2. ring[i + 1] = Stored - Len(ring) + (i + 1) - 1
      BY <3>1
    <3>3. Stored \in Int
      BY <1>0 DEF Stored, Pushing
    <3> QED BY <3>1, <3>2, <3>3, <2>1, <2>2, <1>0
  <2>6. feeder' = "stamp"
    BY <1>6 DEF TakeItem
  <2> QED BY <2>2, <2>3, <2>4, <2>5, <2>6, <1>0
<1>7. CASE Stamp
  <2>1. Stored' = Stored
    BY <1>7 DEF Stamp, Stored, Pushing
  <2> QED BY <1>7, <2>1, <1>0 DEF Stamp, state
<1>8. CASE Send
  <2>1. Stored' = Stored
    BY <1>8 DEF Send, Stored, Pushing, capture
  <2> QED BY <1>8, <2>1 DEF Send, state, capture
<1> QED
  BY <1>1, <1>2, <1>3, <1>4, <1>5, <1>6, <1>7, <1>8, UnmovedSteps

\* A loss is reported no later than with the first item captured after it: when
\* an item goes out, all items captured before it were delivered or reported.
THEOREM LossesReportedInTime == Spec => []LossReportedInTime
<1>1. InOrder => LossReportedInTime
  BY DEF InOrder, LossReportedInTime
<1> QED
  BY <1>1, TypesAndStages, EveryItemAccounted, OrderInit, OrderStep, PTL DEF Spec

(***************************************************************************)
(* The end of a feed.                                                      *)
(***************************************************************************)

\* A feed that ended cleanly was drained, and finds its producer finished, or
\* stopped and with at most one push under way.
EndedDrained ==
  /\ finished => backend = "gone"
  /\ fate = "clean" =>
       /\ closed \/ finished
       /\ Len(ring) <= 1
       /\ backend \in {"number", "push"} => Len(ring) = 0

\* The steps that leave the ring, the capture thread and a clean end alone.
Steady ==
  /\ UNCHANGED <<ring, finished, backend>>
  /\ closed => closed'
  /\ fate' = "clean" => fate = "clean"

LEMMA SteadySteps ==
  ASSUME TypeOK, [Next]_vars
  PROVE  Steady \/ OpenDevice \/ PushCheck \/ PushNumber \/ Store \/ EvictOldest
                \/ OverrunFails \/ DeviceFails \/ FailCloses \/ Finish \/ TakeItem \/ Leave
<1> USE DEF Steady, capture, feed, state
<1>1. CASE ReferenceEnds BY <1>1 DEF ReferenceEnds
<1>2. CASE ReferenceLost BY <1>2 DEF ReferenceLost
<1>3. CASE OpenFails BY <1>3 DEF OpenFails
<1>4. CASE StartFeeder BY <1>4 DEF StartFeeder
<1>5. CASE RegisterHandle BY <1>5 DEF RegisterHandle
<1>6. CASE DeadlinePasses BY <1>6 DEF DeadlinePasses
<1>7. CASE FeederTop BY <1>7 DEF FeederTop
<1>8. CASE TakeFailure BY <1>8 DEF TakeFailure
<1>9. CASE WaitForItem BY <1>9 DEF WaitForItem
<1>10. CASE Stamp BY <1>10 DEF Stamp
<1>11. CASE Send BY <1>11 DEF Send
<1>12. CASE SendError BY <1>12 DEF SendError, EndStream
<1>13. CASE Read BY <1>13 DEF Read
<1>14. CASE HandlerEnds BY <1>14 DEF HandlerEnds
<1>15. CASE HandlerQuits BY <1>15 DEF HandlerQuits
<1>16. CASE Reap BY <1>16 DEF Reap
<1>17. CASE Cancel BY <1>17 DEF Cancel
<1>18. CASE UNCHANGED vars BY <1>18 DEF vars
<1> QED
  BY <1>1, <1>2, <1>3, <1>4, <1>5, <1>6, <1>7, <1>8, <1>9, <1>10, <1>11, <1>12, <1>13,
     <1>14, <1>15, <1>16, <1>17, <1>18
  DEF Next, DemuxStep, BackendStep, FeederStep

LEMMA DrainedInit == Init => EndedDrained
  BY DEF Init, EndedDrained

LEMMA DrainedStep == TypeOK /\ Stages /\ EndedDrained /\ [Next]_vars => EndedDrained'
<1> SUFFICES ASSUME TypeOK, Stages, EndedDrained, [Next]_vars
             PROVE  EndedDrained'
  OBVIOUS
<1>0. Len(ring) \in Nat /\ selector.ring \in Nat \ {0}
  BY Bounds DEF TypeOK, Constants
<1> USE DEF EndedDrained, capture, feed, state
<1>1. CASE Steady BY <1>1 DEF Steady
<1>2. CASE OpenDevice BY <1>2 DEF OpenDevice, Stages
<1>3. CASE PushCheck BY <1>3 DEF PushCheck
<1>4. CASE PushNumber BY <1>4 DEF PushNumber
<1>5. CASE Store
  <2>1. Numbered \in Nat
    BY <1>5 DEF Store, Numbered, TypeOK, Stages
  <2>2. Len(ring') = Len(ring) + 1
    BY <1>5, <2>1, AppendTo DEF Store, TypeOK
  <2>3. backend = "push" /\ backend' \in {"finish", "ready"}
    BY <1>5 DEF Store, AfterPush
  <2>4. UNCHANGED <<closed, finished, fate>>
    BY <1>5 DEF Store
  <2> QED BY <1>0, <2>2, <2>3, <2>4
<1>6. CASE EvictOldest
  <2>1. Len(ring) # 0
    BY <1>6, <1>0 DEF EvictOldest, Full
  <2>2. backend = "push"
    BY <1>6 DEF EvictOldest
  <2>3. fate # "clean" /\ ~finished
    BY <2>1, <2>2
  <2>4. UNCHANGED <<finished, fate>>
    BY <1>6 DEF EvictOldest
  <2> QED BY <2>3, <2>4
<1>7. CASE OverrunFails BY <1>7 DEF OverrunFails
<1>8. CASE DeviceFails BY <1>8 DEF DeviceFails
<1>9. CASE FailCloses BY <1>9 DEF FailCloses
<1>10. CASE Finish BY <1>10 DEF Finish
<1>11. CASE TakeItem
  <2>1. Len(ring') = Len(ring) - 1
    BY <1>11, TailOf DEF TakeItem, TypeOK
  <2>2. ring # <<>> /\ Len(ring) > 0
    BY <1>11, <1>0, TailOf DEF TakeItem, TypeOK
  <2> QED BY <1>11, <1>0, <2>1, <2>2 DEF TakeItem
<1>12. CASE Leave
  <2>1. Len(ring') = 0 /\ (closed' \/ finished')
    BY <1>12, EmptySequence DEF Leave
  <2>2. UNCHANGED <<finished, backend>>
    BY <1>12 DEF Leave
  <2> QED BY <2>1, <2>2
<1> QED
  BY <1>1, <1>2, <1>3, <1>4, <1>5, <1>6, <1>7, <1>8, <1>9, <1>10, <1>11, <1>12, SteadySteps

\* Stopping a feed drains it: behind a clean end is at most the one item whose push
\* was under way.
THEOREM StopDrains == Spec => []StopLosesAtMostOne
<1>1. TypeOK /\ EndedDrained => StopLosesAtMostOne
  <2> SUFFICES ASSUME TypeOK, EndedDrained, fate = "clean"
               PROVE  Len(ring) + Pushing <= 1
    BY DEF StopLosesAtMostOne
  <2>1. Len(ring) \in Nat
    BY DEF TypeOK
  <2> QED BY <2>1 DEF EndedDrained, Pushing
<1> QED
  BY <1>1, TypesAndStages, DrainedInit, DrainedStep, PTL DEF Spec

\* A device that fails, or an overrun declared to be a failure, never looks like
\* the clean end of the feed.
THEOREM FailureIsNeverClean == Spec => FailureNeverLooksClean
<1>1. TypeOK /\ [Next]_vars => [failed /\ fate = "open" => fate' # "clean"]_vars
  <2> SUFFICES ASSUME TypeOK, [Next]_vars, failed, fate = "open"
               PROVE  fate' # "clean"
    OBVIOUS
  <2>1. CASE Steady BY <2>1 DEF Steady
  <2>2. CASE Leave BY <2>2 DEF Leave
  <2>3. CASE \/ OpenDevice \/ PushCheck \/ PushNumber \/ Store \/ EvictOldest
             \/ OverrunFails \/ DeviceFails \/ FailCloses \/ Finish \/ TakeItem
    BY <2>3 DEF OpenDevice, PushCheck, PushNumber, Store, EvictOldest, OverrunFails,
                DeviceFails, FailCloses, Finish, TakeItem, feed
  <2> QED
    BY <2>1, <2>2, <2>3, SteadySteps
<1> QED
  BY <1>1, TypeCorrect, PTL DEF Spec, FailureNeverLooksClean
(***************************************************************************)
(* The region: types.                                                      *)
(***************************************************************************)

RunStates == {"opening", "queued", "streaming", "done", "failed", "aborted"}
TaskStates == {"none", "running", "reported", "over", "panicked"}
Reports == Body \X BOOLEAN

RegionTypes ==
  /\ pc \in [Runs -> RunStates]
  /\ source \in {"running", "ended", "failed"} /\ driver \in {"running", "ok", "failed"}
  /\ sourceDone \in BOOLEAN
  /\ produced \in 0 .. Bodies /\ dispatched \in 0 .. produced
  /\ task \in [Body -> TaskStates]
  /\ done \in Seq(Reports) /\ outcomes \in Seq(Reports)

LEMMA RegionConstants ==
  Bodies \in Nat /\ InFlight \in Nat \ {0} /\ Body \subseteq Runs
BY RegionAssumption

\* The steps of a run leave every other run alone, and the region.
LEMMA RunSteps1 ==
  ASSUME RegionTypes, NEW r \in Runs, RunSteps(r)
  PROVE  /\ pc' \in [Runs -> RunStates] /\ \A s \in Runs : s # r => pc'[s] = pc[s]
         /\ UNCHANGED region /\ (r \in Body => task[r] = "running")
<1>1. UNCHANGED region /\ (r \in Body => task[r] = "running") /\ RunNext(r)
  BY DEF RunSteps, Started
<1>2. UNCHANGED pc \/ \E x \in RunStates : pc' = [pc EXCEPT ![r] = x]
  <2>1. CASE Request(r)
    BY <2>1 DEF Request, RunStates
  <2>2. CASE Admit(r)
    BY <2>2 DEF Admit, RunStates
  <2>3. CASE CancelChain(r)
    BY <2>3 DEF CancelChain, RunStates
  <2>4. CASE NextSegment(r)
    BY <2>4 DEF NextSegment, RunStates
  <2>5. CASE OpenRefused(r)
    BY <2>5 DEF OpenRefused, RunStates
  <2>6. ASSUME NEW i \in Groups(r), End(r, i) \/ Break(r, i) \/ OrphanSpeaks(r, i)
        PROVE  UNCHANGED pc
    BY <2>6 DEF End, Break, OrphanSpeaks
  <2> QED
    BY <1>1, <2>1, <2>2, <2>3, <2>4, <2>5, <2>6 DEF RunNext, RunStep
<1>3. pc \in [Runs -> RunStates]
  BY DEF RegionTypes
<1> QED
  BY <1>1, <1>2, <1>3

LEMMA RegionTypesInit == RegionInit => RegionTypes
<1> SUFFICES ASSUME RegionInit PROVE RegionTypes
  OBVIOUS
<1>1. pc \in [Runs -> RunStates] /\ task \in [Body -> TaskStates]
  BY DEF RegionInit, ChainInit, RunStates, TaskStates
<1>2. <<>> \in Seq(Reports)
  OBVIOUS
<1>3. done \in Seq(Reports) /\ outcomes \in Seq(Reports)
  BY <1>2 DEF RegionInit
<1>4. /\ source = "running" /\ driver = "running" /\ sourceDone = FALSE
      /\ produced = 0 /\ dispatched = 0
  BY DEF RegionInit
<1>5. produced \in 0 .. Bodies /\ dispatched \in 0 .. produced
  BY <1>4, RegionConstants
<1> QED
  BY <1>1, <1>3, <1>4, <1>5 DEF RegionTypes

LEMMA RegionTypesNext ==
  ASSUME RegionTypes, [RegionNext]_regionVars
  PROVE  RegionTypes'
<1> USE RegionConstants DEF RegionTypes, region, Body
<1>1. CASE Produce
  BY <1>1 DEF Produce, MayProduce, chain
<1>2. CASE SourceEnds
  BY <1>2 DEF SourceEnds, chain
<1>3. CASE SourceFails
  BY <1>3 DEF SourceFails, chain
<1>4. CASE TakeOutcome
  <2>1. Head(done) \in Reports /\ Tail(done) \in Seq(Reports)
    BY <1>4, HeadTailProperties DEF TakeOutcome
  <2>2. outcomes' \in Seq(Reports) /\ done' \in Seq(Reports)
    BY <1>4, <2>1, AppendProperties DEF TakeOutcome
  <2>3. /\ driver' \in {"running", "ok", "failed"}
        /\ UNCHANGED <<pc, source, produced, sourceDone, dispatched, task>>
    BY <1>4 DEF TakeOutcome, chain
  <2> QED
    BY <2>2, <2>3
<1>5. CASE Dispatch
  <2>1. /\ dispatched + 1 \in Body /\ dispatched' = dispatched + 1 /\ produced > dispatched
        /\ UNCHANGED <<pc, source, produced, sourceDone, done, outcomes>>
        /\ driver' \in {"running", "ok", "failed"}
        /\ UNCHANGED task \/ task' = [task EXCEPT ![dispatched + 1] = "running"]
    BY <1>5 DEF Dispatch, ItemArm, chain
  <2>2. task' \in [Body -> TaskStates]
    BY <2>1 DEF TaskStates
  <2>3. dispatched' \in 0 .. produced'
    BY <2>1
  <2> QED
    BY <2>1, <2>2, <2>3
<1>6. CASE SourceIsOver
  BY <1>6 DEF SourceIsOver, chain
<1>7. CASE SourceError
  BY <1>7 DEF SourceError, chain
<1>8. CASE FinishRegion
  BY <1>8 DEF FinishRegion, chain
<1>9. ASSUME NEW r \in Runs, RunSteps(r) PROVE RegionTypes'
  <2>1. pc' \in [Runs -> RunStates] /\ UNCHANGED region
    BY <1>9, RunSteps1
  <2> QED
    BY <2>1
<1>10. ASSUME NEW i \in Body, Report(i) PROVE RegionTypes'
  <2>1. /\ UNCHANGED <<pc, source, produced, driver, sourceDone, dispatched, outcomes>>
        /\ task' = [task EXCEPT ![i] = "reported"]
        /\ UNCHANGED done \/ done' = Append(done, <<i, pc[i] = "done">>)
    BY <1>10 DEF Report, chain
  <2>2. <<i, pc[i] = "done">> \in Reports
    BY DEF Reports
  <2>3. done' \in Seq(Reports)
    <3>1. Append(done, <<i, pc[i] = "done">>) \in Seq(Reports)
      BY <2>2, AppendProperties
    <3> QED
      BY <2>1, <3>1
  <2>4. task' \in [Body -> TaskStates]
    BY <2>1 DEF TaskStates
  <2> QED
    BY <2>1, <2>3, <2>4
<1>11. ASSUME NEW i \in Body, ReturnPermit(i) PROVE RegionTypes'
  BY <1>11 DEF ReturnPermit, chain, TaskStates
<1>12. ASSUME NEW i \in Body, Panic(i) PROVE RegionTypes'
  BY <1>12 DEF Panic, TaskStates, RunStates
<1>13. ASSUME NEW i \in Body, PanickedSpeaks(i) PROVE RegionTypes'
  BY <1>13 DEF PanickedSpeaks, OrphanSpeaks
<1>14. CASE UNCHANGED regionVars
  BY <1>14 DEF regionVars, chain
<1> QED
  BY <1>1, <1>2, <1>3, <1>4, <1>5, <1>6, <1>7, <1>8, <1>9, <1>10, <1>11, <1>12, <1>13, <1>14
     DEF RegionNext, Driver

(***************************************************************************)
(* Every report is of a body that is over, and is its only one.            *)
(***************************************************************************)

\* What the driver has been told, and what is on its way to it.
Log == outcomes \o done

LEMMA LogType == RegionTypes => /\ Log \in Seq(Reports) /\ Len(Log) = Len(outcomes) + Len(done)
                               /\ \A k \in 1 .. Len(outcomes) : k \in 1 .. Len(Log) /\ Log[k] = outcomes[k]
<1> SUFFICES ASSUME RegionTypes PROVE /\ Log \in Seq(Reports) /\ Len(Log) = Len(outcomes) + Len(done)
                               /\ \A k \in 1 .. Len(outcomes) : k \in 1 .. Len(Log) /\ Log[k] = outcomes[k]
  OBVIOUS
<1>1. outcomes \in Seq(Reports) /\ done \in Seq(Reports)
  BY DEF RegionTypes
<1>2. Len(outcomes) \in Nat /\ Len(done) \in Nat
  BY <1>1
<1> QED
  BY <1>1, <1>2, ConcatProperties DEF Log

LEMMA TakenFromDone ==
  ASSUME NEW S, NEW s \in Seq(S), NEW t \in Seq(S), t # <<>>
  PROVE  Append(s, Head(t)) \o Tail(t) = s \o t
<1>1. /\ Head(t) \in S /\ Tail(t) \in Seq(S) /\ Len(Tail(t)) = Len(t) - 1 /\ Len(t) \in Nat \ {0}
      /\ \A k \in 1 .. Len(Tail(t)) : Tail(t)[k] = t[k + 1]
      /\ Head(t) = t[1]
  BY HeadTailProperties, EmptySeq
<1>2. /\ Append(s, Head(t)) \in Seq(S) /\ Len(Append(s, Head(t))) = Len(s) + 1 /\ Len(s) \in Nat
      /\ \A k \in 1 .. Len(s) : Append(s, Head(t))[k] = s[k]
      /\ Append(s, Head(t))[Len(s) + 1] = Head(t)
  BY <1>1, AppendProperties
<1> DEFINE a == Append(s, Head(t))
           b == Tail(t)
<1>3. /\ a \o b \in Seq(S) /\ Len(a \o b) = Len(a) + Len(b)
      /\ \A k \in 1 .. Len(a) + Len(b) : (a \o b)[k] = IF k <= Len(a) THEN a[k] ELSE b[k - Len(a)]
  BY <1>1, <1>2, ConcatProperties
<1>4. /\ s \o t \in Seq(S) /\ Len(s \o t) = Len(s) + Len(t)
      /\ \A k \in 1 .. Len(s) + Len(t) : (s \o t)[k] = IF k <= Len(s) THEN s[k] ELSE t[k - Len(s)]
  BY ConcatProperties
<1> HIDE DEF a, b
<1>5. Len(a) = Len(s) + 1 /\ Len(b) = Len(t) - 1 /\ a[Len(s) + 1] = t[1]
      /\ (\A k \in 1 .. Len(s) : a[k] = s[k]) /\ (\A k \in 1 .. Len(t) - 1 : b[k] = t[k + 1])
  BY <1>1, <1>2 DEF a, b
<1>6. Len(a \o b) = Len(s \o t)
  BY <1>1, <1>2, <1>3, <1>4, <1>5
<1>7. ASSUME NEW k \in 1 .. Len(s) + Len(t) PROVE (a \o b)[k] = (s \o t)[k]
  <2>1. k \in 1 .. Len(a) + Len(b)
    BY <1>1, <1>2, <1>5
  <2>2. CASE k <= Len(s)
    BY <1>2, <1>3, <1>4, <1>5, <2>1, <2>2
  <2>3. CASE k = Len(s) + 1
    BY <1>1, <1>2, <1>3, <1>4, <1>5, <2>1, <2>3
  <2>4. CASE k > Len(s) + 1
    <3>0. k - Len(a) \in 1 .. Len(t) - 1 /\ (k - Len(a)) + 1 = k - Len(s)
      BY <1>1, <1>2, <1>5, <2>4
    <3>1. PICK m \in 1 .. Len(t) - 1 : m = k - Len(a) /\ m + 1 = k - Len(s)
      BY <3>0
    <3>2. (a \o b)[k] = b[m]
      BY <1>2, <1>3, <1>5, <2>1, <2>4, <3>1
    <3>3. b[m] = t[m + 1]
      BY <1>5
    <3>4. (s \o t)[k] = t[m + 1]
      BY <1>2, <1>4, <2>4, <3>1
    <3> QED
      BY <3>2, <3>3, <3>4
  <2>5. k <= Len(s) \/ k = Len(s) + 1 \/ k > Len(s) + 1
    BY <1>2
  <2> QED
    BY <2>2, <2>3, <2>4, <2>5
<1> QED
  BY <1>3, <1>4, <1>6, <1>7, SeqEqual DEF a, b

Told(e) == /\ e[1] <= dispatched /\ task[e[1]] \in {"reported", "over"}
           /\ pc[e[1]] \in {"done", "failed", "aborted"} /\ e[2] = (pc[e[1]] = "done")

LogInv == /\ \A k \in 1 .. Len(Log) : Told(Log[k])
          /\ \A j, k \in 1 .. Len(Log) : Log[j][1] = Log[k][1] => j = k
          /\ \A i \in Body : task[i] # "none" => i <= dispatched

\* A step that reports nothing and takes no word back.
LEMMA LogKept ==
  ASSUME RegionTypes, LogInv, UNCHANGED Log, dispatched' \in Nat, dispatched <= dispatched',
         \A i \in Body : task'[i] # "none" => i <= dispatched',
         \A i \in Body : task[i] \in {"reported", "over"} =>
            task'[i] \in {"reported", "over"} /\ pc'[i] = pc[i]
  PROVE  LogInv'
<1>1. ASSUME NEW k \in 1 .. Len(Log) PROVE Told(Log[k])'
  <2>1. Log[k] \in Reports
    BY LogType
  <2>2. Log[k][1] \in Body /\ Log[k][1] \in Nat /\ dispatched \in Nat
    BY <2>1, RegionConstants DEF Reports, Body, RegionTypes
  <2>3. Told(Log[k])
    BY DEF LogInv
  <2>4. Log'[k] = Log[k]
    OBVIOUS
  <2> QED
    BY <2>2, <2>3, <2>4 DEF Told
<1> QED
  BY <1>1 DEF LogInv

LEMMA LogReports ==
  ASSUME RegionTypes, LogInv, NEW i \in Body, Report(i)
  PROVE  LogInv'
<1>0. PICK e \in Reports : e = <<i, pc[i] = "done">>
  <2>1. (pc[i] = "done") \in BOOLEAN
    OBVIOUS
  <2>2. <<i, pc[i] = "done">> \in Reports
    BY <2>1 DEF Reports
  <2> QED
    BY <2>2
<1>1. /\ task[i] = "running" /\ pc[i] \in {"done", "failed", "aborted"}
      /\ task' = [task EXCEPT ![i] = "reported"] /\ UNCHANGED <<pc, dispatched, outcomes>>
      /\ done' = IF driver = "running" THEN Append(done, e) ELSE done
  BY <1>0 DEF Report, chain
<1>2. /\ task'[i] = "reported" /\ \A j \in Body : j # i => task'[j] = task[j]
  BY <1>1 DEF RegionTypes
<1>3. dispatched \in Nat /\ outcomes \in Seq(Reports) /\ done \in Seq(Reports)
  BY RegionConstants DEF RegionTypes
<1>4. i <= dispatched /\ i \in Nat
  BY <1>1, RegionConstants DEF LogInv, Body
<1>5. \A j \in Body : task'[j] # "none" => j <= dispatched'
  BY <1>1, <1>2, <1>4 DEF LogInv
<1>6. \A j \in Body : task[j] \in {"reported", "over"} =>
         task'[j] \in {"reported", "over"} /\ pc'[j] = pc[j]
  BY <1>1, <1>2
<1>7. CASE driver # "running"
  <2>1. UNCHANGED Log
    BY <1>1, <1>7 DEF Log
  <2>2. dispatched' \in Nat /\ dispatched <= dispatched'
    BY <1>1, <1>3
  <2> QED
    BY <1>5, <1>6, <2>1, <2>2, LogKept
<1>8. CASE driver = "running"
  <2>1. e \in Reports /\ e[1] = i /\ e[2] = (pc[i] = "done")
    BY <1>0 DEF Reports
  <2>2. Log' = Append(Log, e)
    <3>1. done' = Append(done, e) /\ outcomes' = outcomes
      BY <1>1, <1>8
    <3>2. Append(done, e) = done \o <<e>> /\ <<e>> \in Seq(Reports)
      BY <1>3, <2>1, AppendIsConcat
    <3>3. Append(outcomes \o done, e) = (outcomes \o done) \o <<e>>
      BY <1>3, <2>1, AppendIsConcat, ConcatProperties
    <3>4. (outcomes \o done) \o <<e>> = outcomes \o (done \o <<e>>)
      BY <1>3, <3>2, ConcatAssociative
    <3> QED
      BY <3>1, <3>2, <3>3, <3>4 DEF Log
  <2>3. /\ Log \in Seq(Reports) /\ Len(Log) \in Nat /\ Len(Log') = Len(Log) + 1
        /\ \A k \in 1 .. Len(Log) : Log'[k] = Log[k]
        /\ Log'[Len(Log) + 1] = e
    BY <2>1, <2>2, LogType, AppendProperties
  <2>4. ASSUME NEW k \in 1 .. Len(Log)
        PROVE  Told(Log[k])' /\ Log[k][1] \in Body /\ Log[k][1] # i
    <3>1. Log[k] \in Reports /\ Told(Log[k])
      BY <2>3 DEF LogInv
    <3>2. Log[k][1] \in Body /\ Log'[k] = Log[k]
      BY <2>3, <3>1 DEF Reports
    <3>3. Log[k][1] # i
      BY <1>1, <3>1 DEF Told
    <3> QED
      BY <1>1, <1>2, <3>1, <3>2, <3>3 DEF Told
  <2>5. Told(e)'
    BY <1>1, <1>2, <1>4, <2>1 DEF Told
  <2>6. \A k \in 1 .. Len(Log') : k \in 1 .. Len(Log) \/ k = Len(Log) + 1
    BY <2>3
  <2>7. \A k \in 1 .. Len(Log') : Told(Log[k])'
    BY <2>3, <2>4, <2>5, <2>6
  <2>8. \A j, k \in 1 .. Len(Log') : Log'[j][1] = Log'[k][1] => j = k
    <3> SUFFICES ASSUME NEW j \in 1 .. Len(Log'), NEW k \in 1 .. Len(Log'), Log'[j][1] = Log'[k][1]
                 PROVE  j = k
      OBVIOUS
    <3>1. CASE j \in 1 .. Len(Log) /\ k \in 1 .. Len(Log)
      BY <2>3, <3>1 DEF LogInv
    <3>2. CASE j = Len(Log) + 1 /\ k \in 1 .. Len(Log)
      BY <2>1, <2>3, <2>4, <3>2
    <3>3. CASE k = Len(Log) + 1 /\ j \in 1 .. Len(Log)
      BY <2>1, <2>3, <2>4, <3>3
    <3> QED
      BY <2>6, <3>1, <3>2, <3>3
  <2> QED
    BY <1>5, <2>7, <2>8 DEF LogInv
<1> QED
  BY <1>7, <1>8

LEMMA LogInit == RegionInit => LogInv
<1> SUFFICES ASSUME RegionInit PROVE LogInv
  OBVIOUS
<1>1. Len(Log) = 0
  BY RegionTypesInit, LogType DEF RegionInit
<1>2. \A i \in Body : task[i] = "none"
  BY DEF RegionInit
<1> QED
  BY <1>1, <1>2 DEF LogInv

LEMMA LogNext ==
  ASSUME RegionTypes, LogInv, [RegionNext]_regionVars
  PROVE  LogInv'
<1> USE DEF region
<1>0. /\ dispatched \in Nat /\ dispatched <= dispatched
      /\ \A i \in Body : task[i] # "none" => i <= dispatched
  BY RegionConstants DEF RegionTypes, LogInv
<1>1. ASSUME UNCHANGED <<dispatched, task, outcomes, done, pc>> PROVE LogInv'
  <2>1. UNCHANGED Log
    BY <1>1 DEF Log
  <2> QED
    BY <1>0, <1>1, <2>1, LogKept
<1>2. CASE Produce \/ SourceEnds \/ SourceFails \/ SourceIsOver \/ SourceError \/ FinishRegion
  <2>1. UNCHANGED <<dispatched, task, outcomes, done, pc>>
    BY <1>2 DEF Produce, SourceEnds, SourceFails, SourceIsOver, SourceError, FinishRegion, chain
  <2> QED
    BY <1>1, <2>1
<1>3. CASE TakeOutcome
  <2>1. /\ done # <<>> /\ outcomes' = Append(outcomes, Head(done)) /\ done' = Tail(done)
        /\ UNCHANGED <<dispatched, task, pc>>
    BY <1>3 DEF TakeOutcome, chain
  <2>2. outcomes \in Seq(Reports) /\ done \in Seq(Reports)
    BY DEF RegionTypes
  <2>3. UNCHANGED Log
    BY <2>1, <2>2, TakenFromDone DEF Log
  <2> QED
    BY <1>0, <2>1, <2>3, LogKept
<1>4. CASE Dispatch
  <2>1. /\ dispatched + 1 \in Body /\ dispatched' = dispatched + 1
        /\ UNCHANGED <<pc, done, outcomes>>
        /\ UNCHANGED task \/ task' = [task EXCEPT ![dispatched + 1] = "running"]
    BY <1>4, RegionConstants DEF Dispatch, ItemArm, chain, RegionTypes, Body
  <2>2. UNCHANGED Log
    BY <2>1 DEF Log
  <2>3. task[dispatched + 1] = "none"
    <3>1. ~ (dispatched + 1 <= dispatched)
      BY <1>0
    <3> QED
      BY <1>0, <2>1, <3>1
  <2>4. ASSUME NEW i \in Body
        PROVE  /\ task'[i] # "none" => i <= dispatched'
               /\ task[i] \in {"reported", "over"} =>
                     task'[i] \in {"reported", "over"} /\ pc'[i] = pc[i]
    <3>1. i \in Nat
      BY DEF Body
    <3>2. i # dispatched + 1 => task'[i] = task[i]
      BY <2>1 DEF RegionTypes
    <3> QED
      BY <1>0, <2>1, <2>3, <3>1, <3>2
  <2>5. dispatched' \in Nat /\ dispatched <= dispatched'
    BY <1>0, <2>1
  <2> QED
    BY <2>2, <2>4, <2>5, LogKept
<1>5. ASSUME NEW r \in Runs, RunSteps(r) PROVE LogInv'
  <2>1. UNCHANGED <<dispatched, task, outcomes, done>>
    BY <1>5, RunSteps1
  <2>2. \A i \in Body : task[i] \in {"reported", "over"} => pc'[i] = pc[i]
    BY <1>5, RunSteps1, RegionConstants
  <2>3. UNCHANGED Log
    BY <2>1 DEF Log
  <2> QED
    BY <1>0, <2>1, <2>2, <2>3, LogKept
<1>6. ASSUME NEW i \in Body, Report(i) PROVE LogInv'
  BY <1>6, LogReports
<1>7. ASSUME NEW i \in Body, ReturnPermit(i) PROVE LogInv'
  <2>1. /\ task[i] = "reported" /\ task' = [task EXCEPT ![i] = "over"]
        /\ UNCHANGED <<dispatched, outcomes, done, pc>>
    BY <1>7 DEF ReturnPermit, chain
  <2>2. task'[i] = "over" /\ \A j \in Body : j # i => task'[j] = task[j]
    BY <2>1 DEF RegionTypes
  <2>3. UNCHANGED Log
    BY <2>1 DEF Log
  <2>4. \A j \in Body : task'[j] # "none" => j <= dispatched'
    BY <1>0, <2>1, <2>2
  <2> QED
    BY <1>0, <2>1, <2>2, <2>3, <2>4, LogKept
<1>8. ASSUME NEW i \in Body, Panic(i) PROVE LogInv'
  <2>1. /\ task[i] = "running" /\ task' = [task EXCEPT ![i] = "panicked"]
        /\ pc' = [pc EXCEPT ![i] = "aborted"]
        /\ UNCHANGED <<dispatched, outcomes, done>>
    BY <1>8 DEF Panic
  <2>2. task'[i] = "panicked" /\ \A j \in Body : j # i => task'[j] = task[j] /\ pc'[j] = pc[j]
    BY <2>1, RegionConstants DEF RegionTypes
  <2>3. UNCHANGED Log
    BY <2>1 DEF Log
  <2>4. \A j \in Body : task'[j] # "none" => j <= dispatched'
    BY <1>0, <2>1, <2>2
  <2>5. \A j \in Body : task[j] \in {"reported", "over"} =>
           task'[j] \in {"reported", "over"} /\ pc'[j] = pc[j]
    BY <2>1, <2>2
  <2> QED
    BY <1>0, <2>1, <2>3, <2>4, <2>5, LogKept
<1>9. ASSUME NEW i \in Body, PanickedSpeaks(i) PROVE LogInv'
  <2>1. UNCHANGED <<dispatched, task, outcomes, done, pc>>
    BY <1>9 DEF PanickedSpeaks, OrphanSpeaks
  <2> QED
    BY <1>1, <2>1
<1>10. CASE UNCHANGED regionVars
  BY <1>1, <1>10 DEF regionVars, chain
<1> QED
  BY <1>2, <1>3, <1>4, <1>5, <1>6, <1>7, <1>8, <1>9, <1>10 DEF RegionNext, Driver

(***************************************************************************)
(* The end of a region.                                                    *)
(***************************************************************************)

\* The driver stops asking for items only at the end of a source.
Asked == sourceDone => source = "ended" /\ produced = dispatched

\* Reports of distinct bodies, as many as there are bodies, are of all of them.
LEMMA AllTold ==
  ASSUME RegionTypes, LogInv, Len(outcomes) >= dispatched
  PROVE  /\ Len(outcomes) = dispatched
         /\ \A i \in 1 .. dispatched : \E k \in 1 .. Len(outcomes) : outcomes[k][1] = i
<1> DEFINE n == Len(outcomes)
           f == [k \in 1 .. n |-> outcomes[k][1]]
<1>1. n \in Nat /\ dispatched \in Nat
  BY RegionConstants DEF RegionTypes
<1>2. ASSUME NEW k \in 1 .. n PROVE f[k] \in 1 .. dispatched
  <2>1. k \in 1 .. Len(Log) /\ Log[k] = outcomes[k] /\ Log \in Seq(Reports)
    BY LogType
  <2>2. Log[k] \in Reports /\ Told(Log[k])
    BY <2>1 DEF LogInv
  <2>3. outcomes[k][1] \in Body /\ outcomes[k][1] <= dispatched
    BY <2>1, <2>2 DEF Reports, Told
  <2> QED
    BY <1>1, <2>3, RegionConstants DEF Body
<1>3. ASSUME NEW j \in 1 .. n, NEW k \in 1 .. n, f[j] = f[k] PROVE j = k
  <2>1. /\ j \in 1 .. Len(Log) /\ Log[j] = outcomes[j]
        /\ k \in 1 .. Len(Log) /\ Log[k] = outcomes[k]
    BY LogType
  <2>2. outcomes[j][1] = outcomes[k][1]
    BY <1>3
  <2> QED
    BY <2>1, <2>2 DEF LogInv
<1>4. f \in Injection(1 .. n, 1 .. dispatched)
  BY <1>2, <1>3 DEF Injection, IsInjective
<1>5. \A k \in 1 .. n : f[k] = outcomes[k][1]
  OBVIOUS
<1> HIDE DEF n, f
<1>6. IsFiniteSet(1 .. n) /\ Cardinality(1 .. n) = n
  BY <1>1, FS_Interval
<1>7. IsFiniteSet(1 .. dispatched) /\ Cardinality(1 .. dispatched) = dispatched
  BY <1>1, FS_Interval
<1>8. /\ Cardinality(1 .. n) <= Cardinality(1 .. dispatched)
      /\ Cardinality(1 .. n) = Cardinality(1 .. dispatched) <=> f \in Surjection(1 .. n, 1 .. dispatched)
  BY <1>4, <1>7, FS_Injection
<1>9. n = dispatched
  BY <1>1, <1>6, <1>7, <1>8 DEF n
<1>10. f \in Surjection(1 .. n, 1 .. dispatched)
  BY <1>6, <1>7, <1>8, <1>9
<1>11. \A i \in 1 .. dispatched : \E k \in 1 .. n : f[k] = i
  BY <1>10 DEF Surjection
<1> QED
  BY <1>5, <1>9, <1>11 DEF n

\* What a region that has succeeded keeps of its bodies.
Whole == /\ sourceDone /\ Completed = produced
         /\ \A i \in 1 .. produced :
              /\ task[i] \in {"reported", "over"}
              /\ IF pc[i] = "done" THEN i \in Succeeded \ Failed
                 ELSE i \in Failed \ Succeeded /\ policy # "fail" /\ Succeeded # {}
Ending == Asked /\ (driver = "ok" => Whole)

\* The step that ends a region with success has a report of every body.
LEMMA WholeAtTheEnd ==
  ASSUME RegionTypes, LogInv, Asked, FinishRegion, driver' = "ok"
  PROVE  Whole'
<1>1. /\ sourceDone /\ Len(outcomes) >= dispatched /\ PolicyAccepts
      /\ UNCHANGED <<pc, produced, sourceDone, dispatched, task, outcomes>>
  BY DEF FinishRegion, Completed, chain
<1>2. produced = dispatched /\ dispatched \in Nat
  BY <1>1, RegionConstants DEF Asked, RegionTypes
<1>3. /\ Len(outcomes) = dispatched
      /\ \A i \in 1 .. dispatched : \E k \in 1 .. Len(outcomes) : outcomes[k][1] = i
  BY <1>1, AllTold
<1>4. UNCHANGED <<Succeeded, Failed, Completed>>
  BY <1>1 DEF Succeeded, Failed, Completed
<1>5. Failed = {} \/ (policy' # "fail" /\ Succeeded # {})
  BY <1>1 DEF PolicyAccepts
<1>6. outcomes \in Seq(Reports)
  BY DEF RegionTypes
<1>7. ASSUME NEW k \in 1 .. Len(outcomes)
      PROVE  /\ outcomes[k] \in Reports /\ Told(outcomes[k]) /\ outcomes[k] \in ToSet(outcomes)
             /\ outcomes[k] = <<outcomes[k][1], outcomes[k][2]>>
  <2>1. k \in 1 .. Len(Log) /\ Log[k] = outcomes[k]
    BY LogType
  <2>2. Told(outcomes[k])
    BY <2>1 DEF LogInv
  <2>3. outcomes[k] \in Reports
    BY <1>6
  <2>4. outcomes[k] \in ToSet(outcomes)
    BY <1>6 DEF ToSet
  <2> QED
    BY <2>2, <2>3, <2>4 DEF Reports
<1>8. \A x \in ToSet(outcomes) : \E k \in 1 .. Len(outcomes) : x = outcomes[k]
  BY <1>6 DEF ToSet
<1>9. ASSUME NEW i \in Body, NEW b \in BOOLEAN, <<i, b>> \in ToSet(outcomes)
      PROVE  b = (pc[i] = "done")
  <2>1. PICK k \in 1 .. Len(outcomes) : <<i, b>> = outcomes[k]
    BY <1>8, <1>9
  <2>2. Told(<<i, b>>)
    BY <1>7, <2>1
  <2>3. <<i, b>>[1] = i /\ <<i, b>>[2] = b
    OBVIOUS
  <2> QED
    BY <2>2, <2>3 DEF Told
<1>10. ASSUME NEW i \in 1 .. dispatched
       PROVE  /\ i \in Body /\ task[i] \in {"reported", "over"}
              /\ IF pc[i] = "done" THEN i \in Succeeded \ Failed
                 ELSE i \in Failed \ Succeeded /\ policy' # "fail" /\ Succeeded # {}
  <2>1. PICK k \in 1 .. Len(outcomes) : outcomes[k][1] = i
    BY <1>3
  <2>2. i \in Body
    BY <1>7, <2>1 DEF Reports
  <2>3. task[i] \in {"reported", "over"} /\ outcomes[k][2] = (pc[i] = "done")
    BY <1>7, <2>1 DEF Told
  <2>4. outcomes[k] = <<i, outcomes[k][2]>> /\ <<i, outcomes[k][2]>> \in ToSet(outcomes)
    BY <1>7, <2>1
  <2>5. CASE pc[i] = "done"
    <3>1. outcomes[k][2] = TRUE
      BY <2>3, <2>5
    <3>2. i \in Succeeded
      BY <2>2, <2>4, <3>1 DEF Succeeded
    <3>3. ~ (<<i, FALSE>> \in ToSet(outcomes))
      BY <1>9, <2>2, <2>5
    <3> QED
      BY <2>2, <2>3, <2>5, <3>2, <3>3 DEF Failed
  <2>6. CASE pc[i] # "done"
    <3>1. outcomes[k][2] = FALSE
      BY <2>3, <2>6
    <3>2. i \in Failed
      BY <2>2, <2>4, <3>1 DEF Failed
    <3>3. ~ (<<i, TRUE>> \in ToSet(outcomes))
      BY <1>9, <2>2, <2>6
    <3>4. i \notin Succeeded
      BY <3>3 DEF Succeeded
    <3> QED
      BY <1>5, <2>2, <2>3, <2>6, <3>2, <3>4
  <2> QED
    BY <2>5, <2>6
<1> QED
  BY <1>1, <1>2, <1>3, <1>4, <1>10 DEF Whole, Completed

LEMMA WholeKept ==
  ASSUME RegionTypes, Whole, UNCHANGED <<policy, produced, sourceDone, outcomes>>,
         \A i \in Body : task[i] \in {"reported", "over"} =>
            task'[i] \in {"reported", "over"} /\ pc'[i] = pc[i]
  PROVE  Whole'
<1>1. UNCHANGED <<Succeeded, Failed, Completed>>
  BY DEF Succeeded, Failed, Completed
<1>2. \A i \in 1 .. produced : i \in Body
  BY RegionConstants DEF RegionTypes, Body
<1> QED
  BY <1>1, <1>2 DEF Whole

LEMMA EndingNext ==
  ASSUME RegionTypes, LogInv, Ending, [RegionNext]_regionVars
  PROVE  Ending'
<1> USE DEF region
<1>1. ASSUME UNCHANGED <<source, produced, dispatched, sourceDone, driver, outcomes, policy>>,
             \A i \in Body : task[i] \in {"reported", "over"} =>
                task'[i] \in {"reported", "over"} /\ pc'[i] = pc[i]
      PROVE  Ending'
  BY <1>1, WholeKept DEF Ending, Asked
<1>2. CASE Produce \/ SourceEnds \/ SourceFails
  <2>1. source = "running" /\ UNCHANGED <<sourceDone, driver>>
    BY <1>2 DEF Produce, SourceEnds, SourceFails, MayProduce
  <2>2. ~ sourceDone /\ driver # "ok"
    BY <2>1 DEF Ending, Asked, Whole
  <2> QED
    BY <2>1, <2>2 DEF Ending, Asked
<1>3. CASE TakeOutcome
  <2>1. driver = "running" /\ driver' # "ok" /\ UNCHANGED <<source, produced, dispatched, sourceDone>>
    BY <1>3 DEF TakeOutcome
  <2> QED
    BY <2>1 DEF Ending, Asked
<1>4. CASE Dispatch \/ SourceError
  <2>1. driver' # "ok" /\ ~ sourceDone /\ UNCHANGED sourceDone
    BY <1>4 DEF Dispatch, SourceError, ItemArm
  <2> QED
    BY <2>1 DEF Ending, Asked
<1>5. CASE SourceIsOver
  <2>1. driver' # "ok" /\ source' = "ended" /\ produced' = dispatched'
    BY <1>5 DEF SourceIsOver, ItemArm
  <2> QED
    BY <2>1 DEF Ending, Asked
<1>6. CASE FinishRegion
  <2>1. UNCHANGED <<source, produced, dispatched, sourceDone>>
    BY <1>6 DEF FinishRegion
  <2>2. Asked'
    BY <2>1 DEF Ending, Asked
  <2> QED
    BY <1>6, <2>2, WholeAtTheEnd DEF Ending
<1>7. ASSUME NEW r \in Runs, RunSteps(r) PROVE Ending'
  <2>1. UNCHANGED region
    BY <1>7, RunSteps1
  <2>2. \A i \in Body : task[i] \in {"reported", "over"} => pc'[i] = pc[i]
    BY <1>7, RunSteps1, RegionConstants
  <2> QED
    BY <1>1, <2>1, <2>2
<1>8. ASSUME NEW i \in Body, Report(i) PROVE Ending'
  <2>1. /\ task[i] = "running" /\ task' = [task EXCEPT ![i] = "reported"]
        /\ UNCHANGED <<pc, source, produced, dispatched, sourceDone, driver, outcomes, policy>>
    BY <1>8 DEF Report, chain
  <2>2. \A j \in Body : j # i => task'[j] = task[j]
    BY <2>1 DEF RegionTypes
  <2> QED
    BY <1>1, <2>1, <2>2
<1>9. ASSUME NEW i \in Body, ReturnPermit(i) PROVE Ending'
  <2>1. /\ task' = [task EXCEPT ![i] = "over"]
        /\ UNCHANGED <<pc, source, produced, dispatched, sourceDone, driver, outcomes, policy>>
    BY <1>9 DEF ReturnPermit, chain
  <2>2. task'[i] = "over" /\ \A j \in Body : j # i => task'[j] = task[j]
    BY <2>1 DEF RegionTypes
  <2> QED
    BY <1>1, <2>1, <2>2
<1>10. ASSUME NEW i \in Body, Panic(i) PROVE Ending'
  <2>1. /\ task[i] = "running" /\ task' = [task EXCEPT ![i] = "panicked"]
        /\ pc' = [pc EXCEPT ![i] = "aborted"]
        /\ UNCHANGED <<source, produced, dispatched, sourceDone, driver, outcomes, policy>>
    BY <1>10 DEF Panic
  <2>2. \A j \in Body : j # i => task'[j] = task[j] /\ pc'[j] = pc[j]
    BY <2>1, RegionConstants DEF RegionTypes
  <2> QED
    BY <1>1, <2>1, <2>2
<1>11. ASSUME NEW i \in Body, PanickedSpeaks(i) PROVE Ending'
  <2>1. UNCHANGED <<region, pc>>
    BY <1>11 DEF PanickedSpeaks, OrphanSpeaks
  <2> QED
    BY <1>1, <2>1
<1>12. CASE UNCHANGED regionVars
  BY <1>1, <1>12 DEF regionVars, chain
<1> QED
  BY <1>2, <1>3, <1>4, <1>5, <1>6, <1>7, <1>8, <1>9, <1>10, <1>11, <1>12 DEF RegionNext, Driver

\* A region that succeeds never ends silently short: run_region_bodies accounts
\* for every item of a source that came to its end, and for every body that
\* failed, under any policy, bound on the bodies in flight and number of items.
THEOREM RegionIsWhole == RegionSpec => []NeverShort
<1>1. RegionInit => RegionTypes /\ LogInv /\ Ending
  <2>1. RegionInit => Ending
    BY DEF RegionInit, Ending, Asked
  <2> QED
    BY <2>1, RegionTypesInit, LogInit
<1>2. RegionTypes /\ LogInv /\ Ending /\ [RegionNext]_regionVars => RegionTypes' /\ LogInv' /\ Ending'
  BY RegionTypesNext, LogNext, EndingNext
<1>3. RegionTypes /\ LogInv /\ Ending => NeverShort
  <2> SUFFICES ASSUME Ending, driver = "ok"
               PROVE  /\ source = "ended" /\ Completed = produced
                      /\ \A i \in 1 .. produced :
                           IF pc[i] = "done" THEN i \in Succeeded \ Failed
                           ELSE i \in Failed \ Succeeded /\ policy # "fail" /\ Succeeded # {}
    BY DEF NeverShort
  <2> QED
    BY DEF Ending, Asked, Whole
<1> QED
  BY <1>1, <1>2, <1>3, PTL DEF RegionSpec

\* Bodies that have a permit of the region's semaphore.
Working == {i \in Body : task[i] \in {"running", "reported"}}

\* Never more bodies than the semaphore of run_region_bodies has permits run at
\* once, whatever becomes of the bodies and of the driver.
THEOREM InFlightBounded == RegionSpec => [](Cardinality(Working) <= InFlight)
<1> DEFINE Bound == Cardinality(Working) <= InFlight
<1>0. IsFiniteSet(Body)
  BY RegionConstants, FS_Interval DEF Body
<1>1. ASSUME RegionInit PROVE Bound
  <2>1. Working = {}
    BY <1>1 DEF RegionInit, Working
  <2> QED
    BY <2>1, FS_EmptySet, RegionConstants
<1>2. ASSUME RegionTypes, Bound, [RegionNext]_regionVars PROVE Bound'
  <2>1. IsFiniteSet(Working) /\ Cardinality(Working) \in Nat
    <3>1. Working \in SUBSET Body
      BY DEF Working
    <3>2. IsFiniteSet(Working)
      BY <1>0, <3>1, FS_Subset
    <3> QED
      BY <3>2, FS_CardinalityType
  <2>2. ASSUME Working' \subseteq Working PROVE Bound'
    <3>1. Working' \in SUBSET Working
      BY <2>2
    <3>2. IsFiniteSet(Working') /\ Cardinality(Working') <= Cardinality(Working)
      BY <2>1, <3>1, FS_Subset
    <3>3. Cardinality(Working') \in Nat
      BY <3>2, FS_CardinalityType
    <3> QED
      BY <1>2, <2>1, <3>2, <3>3, RegionConstants
  <2>3. CASE Dispatch
    <3>1. InFlight - Cardinality(Working) > 0
      BY <2>3 DEF Dispatch, ItemArm, Free, Working
    <3>2. UNCHANGED task \/ task' = [task EXCEPT ![dispatched + 1] = "running"]
      BY <2>3 DEF Dispatch
    <3>3. Working' \subseteq Working \cup {dispatched + 1}
      BY <1>2, <3>2 DEF Working, RegionTypes
    <3>4. /\ IsFiniteSet(Working \cup {dispatched + 1})
          /\ Cardinality(Working \cup {dispatched + 1}) <= Cardinality(Working) + 1
      BY <2>1, FS_AddElement
    <3>5. Cardinality(Working \cup {dispatched + 1}) \in Nat
      BY <3>4, FS_CardinalityType
    <3>6. Working' \in SUBSET (Working \cup {dispatched + 1})
      BY <3>3
    <3>7. /\ IsFiniteSet(Working')
          /\ Cardinality(Working') <= Cardinality(Working \cup {dispatched + 1})
      BY <3>4, <3>6, FS_Subset
    <3>8. Cardinality(Working') \in Nat
      BY <3>7, FS_CardinalityType
    <3> QED
      BY <2>1, <3>1, <3>4, <3>5, <3>7, <3>8, RegionConstants
  <2>4. CASE UNCHANGED task
    BY <2>2, <2>4 DEF Working
  <2>5. ASSUME NEW i \in Body, Report(i) \/ ReturnPermit(i) \/ Panic(i) PROVE Bound'
    <3>1. /\ task[i] \in {"running", "reported"}
          /\ \E x \in TaskStates : task' = [task EXCEPT ![i] = x]
      BY <2>5 DEF Report, ReturnPermit, Panic, TaskStates
    <3>2. \A j \in Body : j # i => task'[j] = task[j]
      BY <1>2, <3>1 DEF RegionTypes
    <3>3. Working' \subseteq Working
      BY <3>1, <3>2 DEF Working
    <3> QED
      BY <2>2, <3>3
  <2>6. CASE \/ Produce \/ SourceEnds \/ SourceFails \/ TakeOutcome \/ SourceIsOver \/ SourceError
             \/ FinishRegion \/ \E r \in Runs : RunSteps(r)
    <3>1. UNCHANGED task
      BY <2>6 DEF Produce, SourceEnds, SourceFails, TakeOutcome, SourceIsOver, SourceError,
         FinishRegion, RunSteps, region
    <3> QED
      BY <2>4, <3>1
  <2>7. CASE (\E i \in Body : PanickedSpeaks(i)) \/ UNCHANGED regionVars
    <3>1. UNCHANGED task
      BY <2>7 DEF PanickedSpeaks, region, regionVars
    <3> QED
      BY <2>4, <3>1
  <2> QED
    BY <1>2, <2>3, <2>5, <2>6, <2>7 DEF RegionNext, Driver
<1> HIDE DEF Bound
<1>3. RegionTypes /\ Bound /\ [RegionNext]_regionVars => RegionTypes' /\ Bound'
  BY <1>2, RegionTypesNext
<1>4. RegionInit => RegionTypes /\ Bound
  BY <1>1, RegionTypesInit
<1>5. RegionSpec => []Bound
  BY <1>3, <1>4, PTL DEF RegionSpec
<1> QED
  BY <1>5 DEF Bound
===============================================================================
