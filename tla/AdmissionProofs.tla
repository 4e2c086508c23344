--------------------------- MODULE AdmissionProofs ---------------------------
(* Theorems about Admission, for any callers, cartridges, masters and bounds. *)
EXTENDS Admission, FiniteSetTheorems, SequenceTheorems, TLAPS

(***************************************************************************)
(* Type correctness.                                                       *)
(***************************************************************************)

\* Taking one position out of a sequence leaves a sequence over the same set,
\* one shorter: what VecDeque::remove does to a ticket queue.
LEMMA RemoveAtPositionType ==
  ASSUME NEW S, NEW s \in Seq(S), NEW i \in 1 .. Len(s)
  PROVE  /\ RemoveAtPosition(s, i) \in Seq(S)
         /\ Len(RemoveAtPosition(s, i)) = Len(s) - 1
         /\ \A j \in 1 .. (Len(s) - 1) :
              RemoveAtPosition(s, i)[j] = IF j < i THEN s[j] ELSE s[j + 1]
<1>1. Len(s) \in Nat /\ Len(s) - 1 \in Nat
  OBVIOUS
<1>2. \A j \in 1 .. Len(s) : s[j] \in S
  OBVIOUS
<1>3. RemoveAtPosition(s, i) \in [1 .. (Len(s) - 1) -> S]
  BY <1>1, <1>2 DEF RemoveAtPosition
<1> QED
  BY <1>1, <1>3, IsASeq DEF RemoveAtPosition

LEMMA TypeInit == Init => TypeOK
<1> SUFFICES ASSUME Init PROVE TypeOK
  OBVIOUS
<1> USE ConstantsAssumption
<1>1. (CHOOSE m \in Masters : TRUE) \in Masters
  OBVIOUS
<1>2. (CHOOSE k \in Keys : TRUE) \in Keys
  OBVIOUS
<1>3. NoInventory \in [Keys -> Offers]
  BY DEF NoInventory, Offers, Absent
<1>4. upd \in [Updaters -> Updates]
  BY <1>1, <1>3 DEF Init, Updates
<1>6. capacity \in [Keys -> 0 .. MaxCapacity]
  BY DEF Init, Offers, Absent
<1>7. want \in [Callers -> Keys]
  BY <1>2 DEF Init
<1>8. outage \in [Keys -> Available .. Grace] /\ budget \in [Callers -> NoBudget .. Grace]
  BY DEF Init, Available, NoBudget
<1>9. queue \in [Keys -> Seq(Callers)]
  BY DEF Init
<1> QED
  BY <1>4, <1>6, <1>7, <1>8, <1>9
  DEF Init, TypeOK, Present, CallerPCs, Available, NoBudget

\* Marking keys unavailable starts outages at age 0 and keeps the others.
LEMMA MarkUnavailableType ==
  ASSUME TypeOK, NEW K, MarkUnavailable(K)
  PROVE  outage' \in [Keys -> Available .. Grace]
  BY ConstantsAssumption DEF TypeOK, MarkUnavailable, Available

\* An update that is finished, or about to be published, is still an update.
LEMMA FinishUpdateType ==
  ASSUME TypeOK, NEW u \in Updaters, FinishUpdate(u)
  PROVE  upd' \in [Updaters -> Updates]
<1>1. NoInventory \in [Keys -> Offers]
  BY ConstantsAssumption DEF NoInventory, Offers, Absent
<1>2. upd[u] \in Updates
  BY DEF TypeOK
<1>3. [upd[u] EXCEPT !.at = "idle", !.new = NoInventory, !.todo = {}] \in Updates
  BY <1>1, <1>2 DEF Updates
<1>4. upd' = [upd EXCEPT ![u] = [@ EXCEPT !.at = "idle", !.new = NoInventory, !.todo = {}]]
  BY DEF FinishUpdate
<1> QED
  BY <1>3, <1>4 DEF TypeOK

LEMMA PublishStepType ==
  ASSUME TypeOK, NEW u \in Updaters, upd' = [upd EXCEPT ![u].at = "publish"]
  PROVE  upd' \in [Updaters -> Updates]
<1>1. upd[u] \in Updates
  BY DEF TypeOK
<1>2. [upd[u] EXCEPT !.at = "publish"] \in Updates
  BY <1>1 DEF Updates
<1> QED
  BY <1>2 DEF TypeOK

LEMMA TypeStep == TypeOK /\ [Next]_vars => TypeOK'
<1> SUFFICES ASSUME TypeOK, [Next]_vars PROVE TypeOK'
  OBVIOUS
<1> USE ConstantsAssumption
<1>1. ASSUME NEW c \in Callers, NEW k \in Keys, Route(c, k) PROVE TypeOK'
  BY <1>1 DEF Route, Goto, TypeOK, CallerPCs, slotVars, masterVars
<1>2. ASSUME NEW c \in Callers, ReadTarget(c) PROVE TypeOK'
  <2>1. snap' \in [Callers -> 0 .. MaxCapacity]
    BY <1>2 DEF ReadTarget, TypeOK, Offers, Absent
  <2> QED
    BY <1>2, <2>1 DEF ReadTarget, Goto, TypeOK, CallerPCs, slotVars, masterVars
<1>3. ASSUME NEW c \in Callers, TargetGone(c) PROVE TypeOK'
  BY <1>3 DEF TargetGone, Goto, TypeOK, CallerPCs, slotVars, masterVars
<1>4. ASSUME NEW c \in Callers, ConfigureTarget(c) PROVE TypeOK'
  <2>1. outage' \in [Keys -> Available .. Grace] /\ capacity' \in [Keys -> 0 .. MaxCapacity]
    BY <1>4 DEF ConfigureTarget, Configure, TypeOK, Available
  <2>2. pc' \in [Callers -> CallerPCs]
    BY <1>4 DEF ConfigureTarget, Goto, TypeOK, CallerPCs
  <2>3. snap' \in [Callers -> 0 .. MaxCapacity]
    BY <1>4 DEF ConfigureTarget, TypeOK
  <2> QED
    BY <1>4, <2>1, <2>2, <2>3 DEF ConfigureTarget, Configure, TypeOK, masterVars
<1>5. ASSUME NEW c \in Callers, Enqueue(c) PROVE TypeOK'
  <2>1. queue' \in [Keys -> Seq(Callers)]
    BY <1>5, AppendProperties DEF Enqueue, TypeOK
  <2> QED
    BY <1>5, <2>1 DEF Enqueue, Goto, TypeOK, CallerPCs, masterVars
<1>6. ASSUME NEW c \in Callers, Arm(c) PROVE TypeOK'
  BY <1>6 DEF Arm, Goto, TypeOK, CallerPCs, slotVars, masterVars
<1>7. ASSUME NEW c \in Callers, Grant(c) PROVE TypeOK'
  <2>1. queue' \in [Keys -> Seq(Callers)]
    BY <1>7, HeadTailProperties DEF Grant, CanGrant, TypeOK
  <2>2. pc' \in [Callers -> CallerPCs]
    BY <1>7 DEF Grant, Goto, TypeOK, CallerPCs
  <2>3. active' \in [Keys -> Nat]
    <3>1. active \in [Keys -> Nat] /\ want[c] \in Keys
      BY DEF TypeOK
    <3> QED
      BY <1>7, <3>1 DEF Grant
  <2> QED
    BY <1>7, <2>1, <2>2, <2>3 DEF Grant, TypeOK, masterVars
<1>8. ASSUME NEW c \in Callers, Park(c) PROVE TypeOK'
  <2>1. budget' \in [Callers -> NoBudget .. Grace]
    <3>1. outage[want[c]] \in Available .. Grace
      BY DEF TypeOK
    <3>2. outage[want[c]] # Available => Grace - outage[want[c]] \in NoBudget .. Grace
      BY <3>1 DEF Available, NoBudget
    <3>3. NoBudget \in NoBudget .. Grace
      BY DEF NoBudget
    <3>4. budget \in [Callers -> NoBudget .. Grace]
      BY DEF TypeOK
    <3> QED
      BY <1>8, <3>2, <3>3, <3>4 DEF Park
  <2> QED
    BY <1>8, <2>1 DEF Park, Goto, TypeOK, CallerPCs, slotVars, masterVars
<1>9. ASSUME NEW c \in Callers, Expire(c) PROVE TypeOK'
  BY <1>9 DEF Expire, Goto, TypeOK, CallerPCs, slotVars, masterVars
<1>10. ASSUME NEW c \in Callers, Wake(c) \/ DropFuture(c) PROVE TypeOK'
  <2>1. budget' \in [Callers -> NoBudget .. Grace]
    <3>1. NoBudget \in NoBudget .. Grace
      BY DEF NoBudget
    <3> QED
      BY <1>10, <3>1 DEF Wake, DropFuture, TypeOK
  <2> QED
    BY <1>10, <2>1 DEF Wake, DropFuture, Goto, TypeOK, CallerPCs, slotVars, masterVars
<1>11. ASSUME NEW c \in Callers, CancelWaiter(c) PROVE TypeOK'
  <2>1. queue' \in [Keys -> Seq(Callers)]
    BY <1>11, RemoveAtPositionType DEF CancelWaiter, TypeOK
  <2> QED
    BY <1>11, <2>1 DEF CancelWaiter, Goto, TypeOK, CallerPCs, masterVars
<1>12. ASSUME NEW c \in Callers, Release(c) PROVE TypeOK'
  <2>1. pc' \in [Callers -> CallerPCs]
    BY <1>12 DEF Release, Goto, TypeOK, CallerPCs
  <2>2. active' \in [Keys -> Nat]
    BY <1>12 DEF Release, TypeOK
  <2> QED
    BY <1>12, <2>1, <2>2 DEF Release, TypeOK, masterVars
<1>13. ASSUME NEW u \in Updaters, ConfigureAdvertised(u) PROVE TypeOK'
  <2> PICK k \in upd[u].todo : /\ Configure(k, upd[u].new[k])
                               /\ upd' = [upd EXCEPT ![u].todo = @ \ {k}]
    BY <1>13 DEF ConfigureAdvertised
  <2>1. upd[u] \in Updates
    BY DEF TypeOK
  <2>2. k \in Keys /\ upd[u].new[k] \in 0 .. MaxCapacity
    BY <2>1 DEF Updates, Offers, Absent
  <2>3. outage' \in [Keys -> Available .. Grace] /\ capacity' \in [Keys -> 0 .. MaxCapacity]
    BY <2>2 DEF Configure, TypeOK, Available
  <2>4. [upd[u] EXCEPT !.todo = @ \ {k}] \in Updates
    BY <2>1 DEF Updates
  <2>5. upd' \in [Updaters -> Updates]
    BY <2>4 DEF TypeOK
  <2> QED
    BY <1>13, <2>2, <2>3, <2>5 DEF ConfigureAdvertised, Configure, TypeOK, callerVars
<1>14. ASSUME NEW u \in Updaters, ReconcileMaster(u) PROVE TypeOK'
  <2>1. upd' \in [Updaters -> Updates]
    BY <1>14, FinishUpdateType, PublishStepType DEF ReconcileMaster
  <2>2. outage' \in [Keys -> Available .. Grace]
    BY <1>14, MarkUnavailableType DEF ReconcileMaster
  <2> QED
    BY <1>14, <2>1, <2>2 DEF ReconcileMaster, MarkUnavailable, TypeOK, callerVars
<1>15. ASSUME NEW m \in Masters, MasterDown(m) PROVE TypeOK'
  BY <1>15 DEF MasterDown, TypeOK, slotVars, callerVars
<1>16. ASSUME NEW m \in Masters, DisableMaster(m) PROVE TypeOK'
  <2>1. outage' \in [Keys -> Available .. Grace]
    BY <1>16, MarkUnavailableType DEF DisableMaster
  <2> QED
    BY <1>16, <2>1 DEF DisableMaster, MarkUnavailable, TypeOK, callerVars
<1>17. ASSUME NEW u \in Updaters, NEW m \in Masters, NEW new \in Inventories(m),
             StartUpdate(u, m, new)
       PROVE  upd' \in [Updaters -> Updates]
  <2>1. [at |-> "configure", master |-> m, new |-> new, todo |-> Present(new)] \in Updates
    BY DEF Inventories, Present, Updates
  <2> QED
    BY <1>17, <2>1 DEF StartUpdate, TypeOK
<1>18. ASSUME NEW m \in Masters, NEW new \in Inventories(m), ReceiveRelayNotify(m, new)
       PROVE  TypeOK'
  BY <1>17, <1>18 DEF ReceiveRelayNotify, TypeOK, Updaters, slotVars, callerVars
<1>19. ASSUME NEW m \in Masters, NEW new \in Inventories(m), NEW ok \in BOOLEAN,
             Reattach(m, new, ok)
       PROVE  TypeOK'
  <2>1. inventory' \in [Keys -> Offers]
    BY <1>19 DEF Reattach, Publish, Inventories, TypeOK
  <2>2. churn' \in 0 .. MaxChurn
    BY <1>19 DEF Reattach, TypeOK
  <2> QED
    BY <1>17, <1>19, <2>1, <2>2 DEF Reattach, TypeOK, Updaters, slotVars, callerVars
<1>20. CASE PublishInventory
  <2>1. inventory' \in [Keys -> Offers]
    <3>1. upd["pump"] \in Updates
      BY DEF TypeOK, Updaters
    <3>2. upd["pump"].new \in [Keys -> Offers] /\ inventory \in [Keys -> Offers]
      BY <3>1 DEF Updates, TypeOK
    <3> QED
      BY <1>20, <3>2 DEF PublishInventory, Publish
  <2>2. upd' \in [Updaters -> Updates]
    BY <1>20, FinishUpdateType DEF PublishInventory, Updaters
  <2> QED
    BY <1>20, <2>1, <2>2 DEF PublishInventory, TypeOK, slotVars, callerVars
<1>21. ASSUME NEW a, Notify(a) PROVE TypeOK'
  BY <1>21 DEF Notify, TypeOK, slotVars, masterVars
<1>22. CASE Tick
  <2>1. outage' \in [Keys -> Available .. Grace] /\ budget' \in [Callers -> NoBudget .. Grace]
    <3>1. \A k \in Keys : outage[k] \in Available .. Grace
      BY DEF TypeOK
    <3>2. \A c \in Callers : budget[c] \in NoBudget .. Grace
      BY DEF TypeOK
    <3>3. \A k \in Keys : outage[k] \in 0 .. (Grace - 1) => outage[k] + 1 \in Available .. Grace
      BY DEF Available
    <3>4. \A c \in Callers : budget[c] > 0 => budget[c] - 1 \in NoBudget .. Grace
      BY <3>2 DEF NoBudget
    <3> QED
      BY <1>22, <3>1, <3>2, <3>3, <3>4 DEF Tick
  <2> QED
    BY <1>22, <2>1 DEF Tick, TypeOK, masterVars
<1>23. CASE UNCHANGED vars
  BY <1>23 DEF vars, slotVars, masterVars, callerVars, TypeOK
<1> QED
  BY <1>1, <1>2, <1>3, <1>4, <1>5, <1>6, <1>7, <1>8, <1>9, <1>10, <1>11, <1>12, <1>13,
     <1>14, <1>15, <1>16, <1>18, <1>19, <1>20, <1>21, <1>22, <1>23
  DEF Next, CallerStep, UpdaterStep

\* Every variable keeps its type: in particular an outage's age stays within the
\* window and a permit count is never negative.
THEOREM TypeCorrect == Spec => []TypeOK
  BY TypeInit, TypeStep, PTL DEF Spec

(***************************************************************************)
(* Permits and tickets are conserved.                                      *)
(***************************************************************************)

\* A step that leaves the permit counts, the queues, and who holds a permit or a
\* ticket for which key as they are.
Quiet ==
  /\ active' = active
  /\ queue' = queue
  /\ \A d \in Callers :
       /\ pc'[d] = "holding" <=> pc[d] = "holding"
       /\ pc'[d] \in QueuedPCs <=> pc[d] \in QueuedPCs
       /\ pc[d] \in QueuedPCs \cup {"holding"} => want'[d] = want[d]

\* Only four actions of a caller disturb permits or tickets.
LEMMA QuietSteps ==
  ASSUME TypeOK, [Next]_vars
  PROVE  \/ Quiet
         \/ \E c \in Callers : Enqueue(c) \/ Grant(c) \/ CancelWaiter(c) \/ Release(c)
<1>1. ASSUME NEW c \in Callers, NEW k \in Keys, Route(c, k) PROVE Quiet
  BY <1>1 DEF Route, Goto, TypeOK, slotVars, Quiet, QueuedPCs
<1>2. ASSUME NEW c \in Callers, ReadTarget(c) \/ TargetGone(c) PROVE Quiet
  BY <1>2 DEF ReadTarget, TargetGone, Goto, TypeOK, slotVars, Quiet, QueuedPCs
<1>3. ASSUME NEW c \in Callers, ConfigureTarget(c) PROVE Quiet
  BY <1>3 DEF ConfigureTarget, Configure, Goto, TypeOK, Quiet, QueuedPCs
<1>4. ASSUME NEW c \in Callers, Arm(c) \/ Park(c) \/ Expire(c) \/ Wake(c) \/ DropFuture(c)
      PROVE  Quiet
  BY <1>4 DEF Arm, Park, Expire, Wake, DropFuture, Goto, TypeOK, slotVars, Quiet, QueuedPCs
<1>5. ASSUME NEW u \in Updaters, ConfigureAdvertised(u) \/ ReconcileMaster(u) PROVE Quiet
  BY <1>5 DEF ConfigureAdvertised, ReconcileMaster, Configure, MarkUnavailable, callerVars, Quiet
<1>6. ASSUME NEW m \in Masters, MasterDown(m) \/ DisableMaster(m) PROVE Quiet
  BY <1>6 DEF MasterDown, DisableMaster, MarkUnavailable, slotVars, callerVars, Quiet
<1>7. ASSUME NEW m \in Masters, NEW new, NEW ok,
             ReceiveRelayNotify(m, new) \/ Reattach(m, new, ok)
      PROVE  Quiet
  BY <1>7 DEF ReceiveRelayNotify, Reattach, slotVars, callerVars, Quiet
<1>8. CASE PublishInventory
  BY <1>8 DEF PublishInventory, slotVars, callerVars, Quiet
<1>9. ASSUME NEW a, Notify(a) PROVE Quiet
  BY <1>9 DEF Notify, slotVars, Quiet
<1>10. CASE Tick
  BY <1>10 DEF Tick, Quiet
<1>11. CASE UNCHANGED vars
  BY <1>11 DEF vars, slotVars, callerVars, Quiet
<1> QED
  BY <1>1, <1>2, <1>3, <1>4, <1>5, <1>6, <1>7, <1>8, <1>9, <1>10, <1>11
  DEF Next, CallerStep, UpdaterStep

LEMMA HoldersFinite == ASSUME NEW k PROVE IsFiniteSet(Holders(k))
  BY FS_Subset, ConstantsAssumption DEF Holders

LEMMA PermitsInit == Init => PermitsMatchHolders
<1> SUFFICES ASSUME Init, NEW k \in Keys PROVE active[k] = Cardinality(Holders(k))
  BY DEF PermitsMatchHolders
<1>1. Holders(k) = {}
  BY DEF Init, Holders
<1> QED
  BY <1>1, FS_EmptySet DEF Init

LEMMA PermitsStep == TypeOK /\ PermitsMatchHolders /\ [Next]_vars => PermitsMatchHolders'
<1> SUFFICES ASSUME TypeOK, PermitsMatchHolders, [Next]_vars, NEW k \in Keys
             PROVE  active'[k] = Cardinality(Holders(k)')
  BY DEF PermitsMatchHolders
<1>1. active[k] = Cardinality(Holders(k))
  BY DEF PermitsMatchHolders
<1>2. CASE Quiet
  <2>1. Holders(k)' = Holders(k)
    BY <1>2 DEF Quiet, Holders
  <2> QED
    BY <1>1, <1>2, <2>1 DEF Quiet
<1>3. ASSUME NEW c \in Callers, Enqueue(c) \/ CancelWaiter(c)
      PROVE  active'[k] = Cardinality(Holders(k)')
  <2>1. Holders(k)' = Holders(k) /\ active' = active
    BY <1>3 DEF Enqueue, CancelWaiter, Goto, TypeOK, Holders
  <2> QED
    BY <1>1, <2>1
<1>4. ASSUME NEW c \in Callers, Grant(c)
      PROVE  active'[k] = Cardinality(Holders(k)')
  <2>1. c \notin Holders(k)
    BY <1>4 DEF Grant, Goto, Holders
  <2>2. Holders(k)' = IF k = want[c] THEN Holders(k) \cup {c} ELSE Holders(k)
    BY <1>4 DEF Grant, Goto, TypeOK, Holders
  <2>3. active'[k] = IF k = want[c] THEN active[k] + 1 ELSE active[k]
    BY <1>4 DEF Grant, TypeOK
  <2> QED
    BY <1>1, <2>1, <2>2, <2>3, HoldersFinite, FS_AddElement
<1>5. ASSUME NEW c \in Callers, Release(c)
      PROVE  active'[k] = Cardinality(Holders(k)')
  <2>1. k = want[c] => c \in Holders(k)
    BY <1>5 DEF Release, Goto, Holders
  <2>2. Holders(k)' = IF k = want[c] THEN Holders(k) \ {c} ELSE Holders(k)
    BY <1>5 DEF Release, Goto, TypeOK, Holders
  <2>3. active'[k] = IF k = want[c] THEN active[k] - 1 ELSE active[k]
    BY <1>5 DEF Release, TypeOK
  <2>4. c \in Holders(k) => Cardinality(Holders(k) \ {c}) = Cardinality(Holders(k)) - 1
    BY HoldersFinite, FS_RemoveElement
  <2> QED
    BY <1>1, <2>1, <2>2, <2>3, <2>4
<1> QED
  BY <1>2, <1>3, <1>4, <1>5, QuietSteps

\* active counts exactly the permits that are held, whatever cancellations,
\* outages, deaths and reattaches happen; so AdmissionController::release never
\* meets a count of zero.
THEOREM PermitsConserved == Spec => []PermitsMatchHolders
  BY TypeCorrect, PermitsInit, PermitsStep, PTL DEF Spec

\* What the three operations on a ticket queue do to a queue without duplicates.
LEMMA AppendTicket ==
  ASSUME NEW S, NEW s \in Seq(S), NEW e \in S, Distinct(s), e \notin Elements(s)
  PROVE  Distinct(Append(s, e)) /\ Elements(Append(s, e)) = Elements(s) \cup {e}
<1> DEFINE t == Append(s, e)
<1>1. /\ Len(s) \in Nat /\ Len(t) = Len(s) + 1
      /\ \A i \in 1 .. Len(s) : t[i] = s[i]
      /\ t[Len(s) + 1] = e
  BY AppendProperties
<1>2. \A i \in 1 .. Len(s) : s[i] # e
  BY DEF Elements
<1> HIDE DEF t
<1>3. Distinct(t)
  BY <1>1, <1>2 DEF Distinct
<1>4. Elements(t) = Elements(s) \cup {e}
  <2>1. \A i \in 1 .. Len(t) : t[i] \in Elements(s) \cup {e}
    BY <1>1 DEF Elements
  <2>2. \A i \in 1 .. Len(s) : i \in 1 .. Len(t) /\ s[i] = t[i]
    BY <1>1
  <2>3. Len(s) + 1 \in 1 .. Len(t)
    BY <1>1
  <2> QED
    BY <1>1, <2>1, <2>2, <2>3 DEF Elements
<1> QED
  BY <1>3, <1>4 DEF t

LEMMA RemoveTicket ==
  ASSUME NEW S, NEW s \in Seq(S), NEW n \in 1 .. Len(s), Distinct(s)
  PROVE  /\ Distinct(RemoveAtPosition(s, n))
         /\ Elements(RemoveAtPosition(s, n)) = Elements(s) \ {s[n]}
<1> DEFINE t == RemoveAtPosition(s, n)
<1>1. /\ Len(s) \in Nat /\ Len(t) = Len(s) - 1
      /\ \A i \in 1 .. (Len(s) - 1) : t[i] = IF i < n THEN s[i] ELSE s[i + 1]
  BY RemoveAtPositionType
<1> HIDE DEF t
<1>2. Distinct(t)
  BY <1>1 DEF Distinct
<1>3. ASSUME NEW i \in 1 .. Len(t) PROVE t[i] \in Elements(s) \ {s[n]}
  BY <1>1 DEF Distinct, Elements
<1>4. ASSUME NEW i \in 1 .. Len(s), s[i] # s[n] PROVE s[i] \in Elements(t)
  <2>1. CASE i < n
    BY <1>1, <2>1 DEF Elements
  <2>2. CASE i > n
    <3>1. i - 1 \in 1 .. Len(t) /\ t[i - 1] = s[i]
      BY <1>1, <2>2
    <3> QED
      BY <3>1 DEF Elements
  <2> QED
    BY <1>4, <2>1, <2>2
<1>5. Elements(t) = Elements(s) \ {s[n]}
  BY <1>3, <1>4 DEF Elements
<1> QED
  BY <1>2, <1>5 DEF t

LEMMA PopTicket ==
  ASSUME NEW S, NEW s \in Seq(S), s # <<>>, Distinct(s)
  PROVE  Distinct(Tail(s)) /\ Elements(Tail(s)) = Elements(s) \ {Head(s)}
<1>1. 1 \in 1 .. Len(s) /\ s[1] = Head(s)
  BY EmptySeq
<1>2. RemoveAtPosition(s, 1) = Tail(s)
  <2>1. /\ Tail(s) \in Seq(S) /\ Len(Tail(s)) = Len(s) - 1
        /\ \A i \in 1 .. Len(Tail(s)) : Tail(s)[i] = s[i + 1]
    BY HeadTailProperties
  <2>2. /\ RemoveAtPosition(s, 1) \in Seq(S)
        /\ Len(RemoveAtPosition(s, 1)) = Len(s) - 1
        /\ \A i \in 1 .. (Len(s) - 1) : RemoveAtPosition(s, 1)[i] = s[i + 1]
    BY <1>1, RemoveAtPositionType
  <2> QED
    BY <2>1, <2>2, SeqEqual
<1>3. /\ Distinct(RemoveAtPosition(s, 1))
      /\ Elements(RemoveAtPosition(s, 1)) = Elements(s) \ {s[1]}
  BY <1>1, RemoveTicket
<1> QED
  BY <1>1, <1>2, <1>3

Waiters(k) == {c \in Callers : pc[c] \in QueuedPCs /\ want[c] = k}

LEMMA QueueInit == Init => QueueMatchesWaiters
<1> SUFFICES ASSUME Init, NEW k \in Keys
             PROVE  Distinct(queue[k]) /\ Elements(queue[k]) = Waiters(k)
  BY DEF QueueMatchesWaiters, Waiters
<1>1. queue[k] = <<>> /\ Len(queue[k]) = 0
  BY DEF Init
<1>2. \A c \in Callers : pc[c] \notin QueuedPCs
  BY DEF Init, QueuedPCs
<1> QED
  BY <1>1, <1>2 DEF Distinct, Elements, Waiters

LEMMA QueueStep == TypeOK /\ QueueMatchesWaiters /\ [Next]_vars => QueueMatchesWaiters'
<1> SUFFICES ASSUME TypeOK, QueueMatchesWaiters, [Next]_vars, NEW k \in Keys
             PROVE  Distinct(queue'[k]) /\ Elements(queue'[k]) = Waiters(k)'
  BY DEF QueueMatchesWaiters, Waiters, Distinct, Elements
<1>1. queue[k] \in Seq(Callers) /\ Distinct(queue[k]) /\ Elements(queue[k]) = Waiters(k)
  BY DEF QueueMatchesWaiters, Waiters, TypeOK
<1>2. CASE Quiet
  <2>1. queue'[k] = queue[k] /\ Waiters(k)' = Waiters(k)
    BY <1>2 DEF Quiet, Waiters
  <2> QED
    BY <1>1, <2>1
<1>3. ASSUME NEW c \in Callers, Release(c)
      PROVE  Distinct(queue'[k]) /\ Elements(queue'[k]) = Waiters(k)'
  <2>1. queue'[k] = queue[k] /\ Waiters(k)' = Waiters(k)
    BY <1>3 DEF Release, Goto, TypeOK, QueuedPCs, Waiters
  <2> QED
    BY <1>1, <2>1
<1>4. ASSUME NEW c \in Callers, Enqueue(c)
      PROVE  Distinct(queue'[k]) /\ Elements(queue'[k]) = Waiters(k)'
  <2>1. CASE want[c] # k
    <3>1. queue'[k] = queue[k] /\ Waiters(k)' = Waiters(k)
      BY <1>4, <2>1 DEF Enqueue, Goto, TypeOK, QueuedPCs, Waiters
    <3> QED
      BY <1>1, <3>1
  <2>2. CASE want[c] = k
    <3>1. c \notin Waiters(k) /\ Waiters(k)' = Waiters(k) \cup {c}
      BY <1>4, <2>2 DEF Enqueue, Goto, TypeOK, QueuedPCs, Waiters
    <3>2. queue'[k] = Append(queue[k], c)
      BY <1>4, <2>2 DEF Enqueue, TypeOK
    <3> QED
      BY <1>1, <3>1, <3>2, AppendTicket
  <2> QED
    BY <2>1, <2>2
<1>5. ASSUME NEW c \in Callers, Grant(c)
      PROVE  Distinct(queue'[k]) /\ Elements(queue'[k]) = Waiters(k)'
  <2>1. CASE want[c] # k
    <3>1. queue'[k] = queue[k] /\ Waiters(k)' = Waiters(k)
      BY <1>5, <2>1 DEF Grant, Goto, TypeOK, QueuedPCs, Waiters
    <3> QED
      BY <1>1, <3>1
  <2>2. CASE want[c] = k
    <3>1. Waiters(k)' = Waiters(k) \ {c}
      BY <1>5, <2>2 DEF Grant, Goto, TypeOK, QueuedPCs, Waiters
    <3>2. queue'[k] = Tail(queue[k]) /\ queue[k] # <<>> /\ Head(queue[k]) = c
      BY <1>5, <2>2 DEF Grant, CanGrant, TypeOK
    <3> QED
      BY <1>1, <3>1, <3>2, PopTicket
  <2> QED
    BY <2>1, <2>2
<1>6. ASSUME NEW c \in Callers, CancelWaiter(c)
      PROVE  Distinct(queue'[k]) /\ Elements(queue'[k]) = Waiters(k)'
  <2>1. CASE want[c] # k
    <3>1. queue'[k] = queue[k] /\ Waiters(k)' = Waiters(k)
      BY <1>6, <2>1 DEF CancelWaiter, Goto, TypeOK, QueuedPCs, Waiters
    <3> QED
      BY <1>1, <3>1
  <2>2. CASE want[c] = k
    <3>1. Waiters(k)' = Waiters(k) \ {c}
      BY <1>6, <2>2 DEF CancelWaiter, Goto, TypeOK, QueuedPCs, Waiters
    <3>2. PICK n \in 1 .. Len(queue[k]) :
            queue[k][n] = c /\ queue'[k] = RemoveAtPosition(queue[k], n)
      BY <1>6, <2>2 DEF CancelWaiter, TypeOK
    <3> QED
      BY <1>1, <3>1, <3>2, RemoveTicket
  <2> QED
    BY <2>1, <2>2
<1> QED
  BY <1>2, <1>3, <1>4, <1>5, <1>6, QuietSteps

\* The queue of a cartridge holds once each exactly the callers that wait for it:
\* no abandoned ticket can stay at its head and block the line.
THEOREM QueueExact == Spec => []QueueMatchesWaiters
  BY TypeCorrect, QueueInit, QueueStep, PTL DEF Spec

(***************************************************************************)
(* Nobody sleeps through the moment it could be served, or past the window. *)
(***************************************************************************)

\* A step that changes neither the slots nor the line of waiters, and after which
\* the sleepers and their timeouts are among those before it.
Restful ==
  /\ UNCHANGED slotVars
  /\ owes' = owes
  /\ \A d \in Callers :
       pc'[d] = "waiting" /\ ~woken'[d] =>
         pc[d] = "waiting" /\ ~woken[d] /\ want'[d] = want[d] /\ budget'[d] = budget[d]

LEMMA RestfulSteps ==
  ASSUME TypeOK, [Next]_vars
  PROVE  \/ Restful
         \/ owes' # {}
         \/ \A d \in Callers : pc'[d] = "waiting" => woken'[d]
         \/ \E c \in Callers : Enqueue(c) \/ Park(c)
         \/ Tick
<1>1. ASSUME NEW c \in Callers, NEW k \in Keys, Route(c, k) PROVE Restful
  BY <1>1 DEF Route, Goto, TypeOK, Restful
<1>2. ASSUME NEW c \in Callers,
             ReadTarget(c) \/ TargetGone(c) \/ Arm(c) \/ Expire(c) \/ Wake(c) \/ DropFuture(c)
      PROVE  Restful
  BY <1>2 DEF ReadTarget, TargetGone, Arm, Expire, Wake, DropFuture, Goto, TypeOK, Restful
<1>3. ASSUME NEW c \in Callers,
             ConfigureTarget(c) \/ Grant(c) \/ CancelWaiter(c) \/ Release(c)
      PROVE  owes' # {}
  BY <1>3 DEF ConfigureTarget, Grant, CancelWaiter, Release
<1>4. ASSUME NEW u \in Updaters, ConfigureAdvertised(u) \/ ReconcileMaster(u) PROVE owes' # {}
  BY <1>4 DEF ConfigureAdvertised, ReconcileMaster
<1>5. ASSUME NEW m \in Masters, DisableMaster(m) PROVE owes' # {}
  BY <1>5 DEF DisableMaster
<1>6. ASSUME NEW m \in Masters, NEW new, NEW ok,
             MasterDown(m) \/ ReceiveRelayNotify(m, new) \/ Reattach(m, new, ok)
      PROVE  Restful
  BY <1>6 DEF MasterDown, ReceiveRelayNotify, Reattach, callerVars, Restful
<1>7. CASE PublishInventory
  BY <1>7 DEF PublishInventory, callerVars, Restful
<1>8. ASSUME NEW a, Notify(a) PROVE \A d \in Callers : pc'[d] = "waiting" => woken'[d]
  BY <1>8 DEF Notify
<1>9. CASE UNCHANGED vars
  BY <1>9 DEF vars, callerVars, Restful
<1> QED
  BY <1>1, <1>2, <1>3, <1>4, <1>5, <1>6, <1>7, <1>8, <1>9 DEF Next, CallerStep, UpdaterStep

LEMMA WakeupInit == Init => NoLostWakeup /\ NobodySleepsPastTheWindow
  BY DEF Init, NoLostWakeup, NobodySleepsPastTheWindow

LEMMA WakeupStep == TypeOK /\ NoLostWakeup /\ [Next]_vars => NoLostWakeup'
<1> SUFFICES ASSUME TypeOK, NoLostWakeup, [Next]_vars, NEW d \in Callers,
                    pc'[d] = "waiting", ~woken'[d], CanGrant(d)'
             PROVE  owes' # {}
  BY DEF NoLostWakeup
<1>1. CASE Restful
  BY <1>1 DEF Restful, slotVars, CanGrant, HasRoom, NoLostWakeup
<1>2. ASSUME NEW c \in Callers, Enqueue(c) PROVE owes' # {}
  <2>1. d # c /\ pc[d] = "waiting" /\ want'[d] = want[d] /\ woken'[d] = woken[d]
    BY <1>2 DEF Enqueue, Goto, TypeOK
  <2>2. queue'[want[d]] = IF want[d] = want[c] THEN Append(queue[want[d]], c)
                                              ELSE queue[want[d]]
    BY <1>2 DEF Enqueue, TypeOK
  <2>3. want[d] \in Keys /\ queue[want[d]] \in Seq(Callers)
    BY DEF TypeOK
  <2>4. queue[want[d]] # <<>> /\ Head(queue[want[d]]) = d
    <3>1. Head(queue'[want[d]]) = d /\ queue'[want[d]] # <<>>
      BY <2>1 DEF CanGrant
    <3>2. CASE want[d] # want[c]
      BY <2>2, <3>1, <3>2
    <3>3. CASE want[d] = want[c]
      <4>1. Head(Append(queue[want[d]], c))
              = IF queue[want[d]] = <<>> THEN c ELSE Head(queue[want[d]])
        BY <2>3, HeadTailAppend
      <4> QED
        BY <2>1, <2>2, <3>1, <3>3, <4>1
    <3> QED
      BY <3>2, <3>3
  <2>5. CanGrant(d)
    BY <1>2, <2>1, <2>4 DEF Enqueue, CanGrant, HasRoom
  <2> QED
    BY <1>2, <2>1, <2>5 DEF Enqueue, NoLostWakeup
<1>3. ASSUME NEW c \in Callers, Park(c) PROVE owes' # {}
  <2>1. CanGrant(d) /\ d # c
    BY <1>3 DEF Park, slotVars, CanGrant, HasRoom
  <2> QED
    BY <1>3, <2>1 DEF Park, Goto, TypeOK, NoLostWakeup
<1>4. CASE Tick
  <2>1. outage[want[d]] = Available
    BY <1>4 DEF Tick, CanGrant, TypeOK, Available
  <2>2. CanGrant(d)
    BY <1>4, <2>1 DEF Tick, CanGrant, HasRoom
  <2> QED
    BY <1>4, <2>2 DEF Tick, NoLostWakeup
<1> QED
  BY <1>1, <1>2, <1>3, <1>4, RestfulSteps

\* A caller that is asleep while it could be served is about to be woken: no
\* notification is lost between an unlock and the notification that follows it.
THEOREM WakeupsNeverLost == Spec => []NoLostWakeup
  BY TypeCorrect, WakeupInit, WakeupStep, PTL DEF Spec

LEMMA WindowStep ==
  TypeOK /\ NobodySleepsPastTheWindow /\ [Next]_vars => NobodySleepsPastTheWindow'
<1> SUFFICES ASSUME TypeOK, NobodySleepsPastTheWindow, [Next]_vars, NEW d \in Callers,
                    pc'[d] = "waiting", ~woken'[d], outage'[want'[d]] # Available, owes' = {}
             PROVE  budget'[d] \in 0 .. (Grace - outage'[want'[d]])
  BY DEF NobodySleepsPastTheWindow
<1>1. CASE Restful
  BY <1>1 DEF Restful, slotVars, NobodySleepsPastTheWindow
<1>2. ASSUME NEW c \in Callers, Enqueue(c)
      PROVE  budget'[d] \in 0 .. (Grace - outage'[want'[d]])
  BY <1>2 DEF Enqueue, Goto, TypeOK, NobodySleepsPastTheWindow
<1>3. ASSUME NEW c \in Callers, Park(c)
      PROVE  budget'[d] \in 0 .. (Grace - outage'[want'[d]])
  <2>1. CASE d = c
    <3>1. outage[want[c]] \in Available .. Grace /\ outage[want[c]] # Available
      BY <1>3, <2>1 DEF Park, slotVars, TypeOK
    <3>2. budget'[c] = Grace - outage[want[c]]
      BY <1>3, <3>1 DEF Park, TypeOK
    <3> QED
      BY <1>3, <2>1, <3>1, <3>2, ConstantsAssumption DEF Park, slotVars, Available
  <2>2. CASE d # c
    BY <1>3, <2>2 DEF Park, Goto, slotVars, TypeOK, NobodySleepsPastTheWindow
  <2> QED
    BY <2>1, <2>2
<1>4. CASE Tick
  <2>1. /\ outage[want[d]] \in Available .. Grace
        /\ budget[d] \in NoBudget .. Grace
        /\ want'[d] = want[d] /\ want[d] \in Keys
        /\ Grace \in Nat
    BY <1>4, ConstantsAssumption DEF Tick, TypeOK
  <2>2. /\ outage'[want[d]] = IF outage[want[d]] \in 0 .. (Grace - 1)
                                THEN outage[want[d]] + 1 ELSE outage[want[d]]
        /\ budget'[d] = IF budget[d] > 0 THEN budget[d] - 1 ELSE budget[d]
    BY <1>4, <2>1 DEF Tick
  <2>3. outage[want[d]] # Available
    BY <2>1, <2>2 DEF Available
  <2>4. budget[d] \in 0 .. (Grace - outage[want[d]])
    BY <1>4, <2>3 DEF Tick, NobodySleepsPastTheWindow
  <2> QED
    BY <2>1, <2>2, <2>3, <2>4 DEF Available
<1> QED
  BY <1>1, <1>2, <1>3, <1>4, RestfulSteps

\* A caller asleep through an outage is woken no later than the outage's window
\* ends, measured from the start of the outage it is in.
THEOREM WindowMeasuresTheOutage == Spec => []NobodySleepsPastTheWindow
  BY TypeCorrect, WakeupInit, WindowStep, PTL DEF Spec

(***************************************************************************)
(* The controller implements the line.                                     *)
(***************************************************************************)

\* Without its element at position i, a sequence is what stands before that
\* element followed by what stands after it.
LEMMA RemovalKeepsOrder ==
  ASSUME NEW S, NEW s \in Seq(S), NEW i \in 1 .. Len(s)
  PROVE  RemoveAtPosition(s, i) = SubSeq(s, 1, i - 1) \o SubSeq(s, i + 1, Len(s))
<1> DEFINE a == SubSeq(s, 1, i - 1)
           b == SubSeq(s, i + 1, Len(s))
<1>1. /\ RemoveAtPosition(s, i) \in Seq(S)
      /\ Len(RemoveAtPosition(s, i)) = Len(s) - 1
      /\ \A j \in 1 .. (Len(s) - 1) :
           RemoveAtPosition(s, i)[j] = IF j < i THEN s[j] ELSE s[j + 1]
  BY RemoveAtPositionType
<1>2. /\ a \in Seq(S) /\ Len(a) = i - 1
      /\ \A j \in 1 .. (i - 1) : a[j] = s[j]
  BY SubSeqProperties
<1>3. /\ b \in Seq(S) /\ Len(b) = Len(s) - i
      /\ \A j \in 1 .. (Len(s) - i) : b[j] = s[i + j]
  BY SubSeqProperties
<1> HIDE DEF a, b
<1>4. /\ a \o b \in Seq(S) /\ Len(a \o b) = Len(s) - 1
      /\ \A j \in 1 .. (Len(s) - 1) : (a \o b)[j] = IF j < i THEN s[j] ELSE s[j + 1]
  <2>1. /\ a \o b \in Seq(S) /\ Len(a \o b) = Len(a) + Len(b)
        /\ \A j \in 1 .. (Len(a) + Len(b)) :
             (a \o b)[j] = IF j <= Len(a) THEN a[j] ELSE b[j - Len(a)]
    BY <1>2, <1>3, ConcatProperties
  <2>2. ASSUME NEW j \in 1 .. (Len(s) - 1)
        PROVE  (a \o b)[j] = IF j < i THEN s[j] ELSE s[j + 1]
    <3>1. CASE j < i
      BY <1>2, <1>3, <2>1, <3>1
    <3>2. CASE ~(j < i)
      <4>1. j - (i - 1) \in 1 .. (Len(s) - i) /\ i + (j - (i - 1)) = j + 1
        BY <3>2
      <4>2. (a \o b)[j] = b[j - (i - 1)]
        <5>1. j \in 1 .. (Len(a) + Len(b)) /\ ~(j <= Len(a))
          BY <1>2, <1>3, <3>2
        <5> QED
          BY <1>2, <2>1, <5>1
      <4> QED
        BY <1>3, <3>2, <4>1, <4>2
    <3> QED
      BY <3>1, <3>2
  <2> QED
    BY <1>2, <1>3, <2>1, <2>2
<1> QED
  BY <1>1, <1>4, SeqEqual DEF a, b

\* A step that the line does not see: queues, holders, limits and doors stay.
Unseen ==
  /\ queue' = queue
  /\ capacity' = capacity
  /\ [k \in Keys |-> Holders(k)]' = [k \in Keys |-> Holders(k)]
  /\ [k \in Keys |-> outage[k] = Available]' = [k \in Keys |-> outage[k] = Available]

\* The line counts as the controller does.
LEMMA SameCardinality == \A S : PermitLine!Cardinality(S) = Cardinality(S)
  BY Zenon DEF Cardinality, PermitLine!Cardinality

LEMMA LineInit == Init => PermitLine!Init
<1> SUFFICES ASSUME Init PROVE PermitLine!Init
  OBVIOUS
<1>1. \A k \in Keys : Holders(k) = {}
  BY DEF Init, Holders
<1>2. capacity \in [Keys -> 0 .. MaxCapacity]
  BY TypeInit DEF TypeOK
<1>3. \A k \in Keys : (outage[k] = Available) = TRUE
  BY DEF Init
<1> QED
  BY <1>1, <1>2, <1>3 DEF Init, PermitLine!Init

\* Only the steps below are seen: a caller joins, enters, gives up or leaves, a
\* door is opened with a limit, doors are closed.
LEMMA LineStep ==
  ASSUME TypeOK, QueueMatchesWaiters, PermitsMatchHolders, [Next]_vars
  PROVE  [PermitLine!Next]_(PermitLine!vars)
<1> USE ConstantsAssumption
<1> DEFINE inside == [k \in Keys |-> Holders(k)]
           open == [k \in Keys |-> outage[k] = Available]
           Stays == [k \in Keys |-> Holders(k)]' = [k \in Keys |-> Holders(k)]
           DoorsStay == [k \in Keys |-> outage[k] = Available]'
                          = [k \in Keys |-> outage[k] = Available]
<1>0. Unseen => [PermitLine!Next]_(PermitLine!vars)
  BY DEF Unseen, PermitLine!vars
<1>S. ASSUME \A c \in Callers : /\ pc'[c] = "holding" <=> pc[c] = "holding"
                                /\ pc[c] = "holding" => want'[c] = want[c]
      PROVE  Stays
  <2>1. \A k \in Keys : Holders(k)' = Holders(k)
    BY <1>S DEF Holders
  <2> QED
    BY <2>1
<1>D. outage' = outage => DoorsStay
  OBVIOUS
<1>1. ASSUME NEW c \in Callers, NEW k \in Keys, Route(c, k) PROVE Unseen
  BY <1>1, <1>S, <1>D DEF Route, Goto, TypeOK, slotVars, Unseen
<1>2. ASSUME NEW c \in Callers, ReadTarget(c) \/ TargetGone(c) PROVE Unseen
  BY <1>2, <1>S, <1>D DEF ReadTarget, TargetGone, Goto, TypeOK, slotVars, Unseen
<1>3. ASSUME NEW c \in Callers, ConfigureTarget(c)
      PROVE  PermitLine!Open(want[c], snap[c])
  <2>1. Stays
    BY <1>3, <1>S DEF ConfigureTarget, Goto, TypeOK
  <2>2. open' = [open EXCEPT ![want[c]] = TRUE]
    BY <1>3 DEF ConfigureTarget, Configure, TypeOK
  <2> QED
    BY <1>3, <2>1, <2>2 DEF ConfigureTarget, Configure, PermitLine!Open
<1>4. ASSUME NEW c \in Callers, Arm(c) \/ Park(c) \/ Expire(c) \/ Wake(c) \/ DropFuture(c)
      PROVE  Unseen
  BY <1>4, <1>S, <1>D DEF Arm, Park, Expire, Wake, DropFuture, Goto, TypeOK, slotVars, Unseen
<1>5. ASSUME NEW c \in Callers, Enqueue(c) PROVE PermitLine!Join(c, want[c])
  <2>1. c \notin PermitLine!Waiting \cup PermitLine!Inside
    BY <1>5 DEF Enqueue, Goto, QueueMatchesWaiters, Elements, QueuedPCs, Holders,
                PermitLine!Waiting, PermitLine!Inside
  <2>2. Stays
    BY <1>5, <1>S DEF Enqueue, Goto, TypeOK
  <2> QED
    BY <1>5, <2>1, <2>2, <1>D DEF Enqueue, PermitLine!Join
<1>6. ASSUME NEW c \in Callers, Grant(c) PROVE PermitLine!Enter(c, want[c])
  <2>1. want[c] \in Keys
    BY DEF TypeOK
  <2>2. inside' = [inside EXCEPT ![want[c]] = @ \cup {c}]
    <3>1. /\ pc' = [pc EXCEPT ![c] = "holding"] /\ pc \in [Callers -> CallerPCs]
          /\ want' = want /\ pc[c] = "armed"
      BY <1>6 DEF Grant, Goto, TypeOK
    <3>2. Holders(want[c])' = Holders(want[c]) \cup {c}
      BY <3>1 DEF Holders
    <3>3. \A k \in Keys : k # want[c] => Holders(k)' = Holders(k)
      BY <3>1 DEF Holders
    <3> QED
      BY <2>1, <3>1, <3>2, <3>3
  <2>3. open[want[c]] /\ (capacity[want[c]] = 0 \/ Cardinality(inside[want[c]]) < capacity[want[c]])
    BY <1>6, <2>1 DEF Grant, CanGrant, HasRoom, PermitsMatchHolders
  <2>4. /\ queue[want[c]] # <<>> /\ c = Head(queue[want[c]])
        /\ queue' = [queue EXCEPT ![want[c]] = Tail(@)]
        /\ capacity' = capacity
    BY <1>6 DEF Grant, CanGrant
  <2>5. DoorsStay
    BY <1>6, <1>D DEF Grant
  <2> QED
    BY <2>2, <2>3, <2>4, <2>5, SameCardinality DEF PermitLine!Enter
<1>7. ASSUME NEW c \in Callers, CancelWaiter(c) PROVE PermitLine!GiveUp(c, want[c])
  <2>1. want[c] \in Keys /\ queue[want[c]] \in Seq(Callers)
    BY DEF TypeOK
  <2>2. PICK i \in 1 .. Len(queue[want[c]]) :
          /\ queue[want[c]][i] = c
          /\ queue' = [queue EXCEPT ![want[c]] = RemoveAtPosition(@, i)]
    BY <1>7 DEF CancelWaiter
  <2>3. queue' = [queue EXCEPT ![want[c]] = SubSeq(@, 1, i - 1) \o SubSeq(@, i + 1, Len(@))]
    BY <2>1, <2>2, RemovalKeepsOrder
  <2>4. Stays
    BY <1>7, <1>S DEF CancelWaiter, Goto, TypeOK
  <2> QED
    BY <1>7, <2>2, <2>3, <2>4, <1>D DEF CancelWaiter, PermitLine!GiveUp
<1>8. ASSUME NEW c \in Callers, Release(c) PROVE PermitLine!Leave(c, want[c])
  <2>1. want[c] \in Keys
    BY DEF TypeOK
  <2>2. inside' = [inside EXCEPT ![want[c]] = @ \ {c}]
    <3>1. \A k \in Keys : Holders(k)' = IF k = want[c] THEN Holders(k) \ {c} ELSE Holders(k)
      BY <1>8 DEF Release, Goto, TypeOK, Holders
    <3> QED
      BY <2>1, <3>1
  <2>3. c \in inside[want[c]]
    BY <1>8, <2>1 DEF Release, Goto, Holders
  <2> QED
    BY <1>8, <2>2, <2>3, <1>D DEF Release, PermitLine!Leave
<1>9. ASSUME NEW u \in Updaters, ConfigureAdvertised(u)
      PROVE  \E k \in Keys, n \in 0 .. MaxCapacity : PermitLine!Open(k, n)
  <2>1. PICK k \in upd[u].todo : Configure(k, upd[u].new[k])
    BY <1>9 DEF ConfigureAdvertised
  <2>2. upd[u] \in Updates
    BY DEF TypeOK
  <2>3. k \in Keys /\ upd[u].new[k] \in 0 .. MaxCapacity
    BY <2>2 DEF Updates, Offers, Absent
  <2>4. PICK n \in 0 .. MaxCapacity : n = upd[u].new[k]
    BY <2>3
  <2>5. open' = [open EXCEPT ![k] = TRUE]
    BY <2>1, <2>3 DEF Configure, TypeOK
  <2>6. Stays
    BY <1>9, <1>S DEF ConfigureAdvertised, callerVars
  <2>7. PermitLine!Open(k, n)
    BY <2>1, <2>4, <2>5, <2>6 DEF Configure, PermitLine!Open
  <2> QED
    BY <2>3, <2>7
<1>10. ASSUME NEW K, MarkUnavailable(K), UNCHANGED callerVars
       PROVE  PermitLine!Close(Keys \cap (K \cap slots))
  <2>1. open' = [k \in Keys |-> open[k] /\ k \notin Keys \cap (K \cap slots)]
    <3>1. ASSUME NEW k \in Keys
          PROVE  outage'[k] = Available
                   <=> outage[k] = Available /\ k \notin Keys \cap (K \cap slots)
      BY <1>10, <3>1 DEF MarkUnavailable, Available
    <3> QED
      BY <3>1
  <2>2. Stays
    BY <1>10, <1>S DEF callerVars
  <2> QED
    BY <1>10, <2>1, <2>2 DEF MarkUnavailable, PermitLine!Close
<1>11. ASSUME NEW u \in Updaters, ReconcileMaster(u)
       PROVE  \E K \in SUBSET Keys : PermitLine!Close(K)
  <2>1. PICK K : K = KeysOf(upd[u].master) \ Present(upd[u].new)
    OBVIOUS
  <2>2. MarkUnavailable(K) /\ UNCHANGED callerVars
    BY <1>11, <2>1 DEF ReconcileMaster, MarkUnavailable
  <2>3. PICK C \in SUBSET Keys : C = Keys \cap (K \cap slots)
    OBVIOUS
  <2>4. PermitLine!Close(C)
    BY <1>10, <2>2, <2>3 DEF PermitLine!Close
  <2> QED
    BY <2>4
<1>12. ASSUME NEW m \in Masters, DisableMaster(m)
       PROVE  \E K \in SUBSET Keys : PermitLine!Close(K)
  <2>1. MarkUnavailable(KeysOf(m)) /\ UNCHANGED callerVars
    BY <1>12 DEF DisableMaster, callerVars
  <2>2. PICK C \in SUBSET Keys : C = Keys \cap (KeysOf(m) \cap slots)
    OBVIOUS
  <2>3. PermitLine!Close(C)
    BY <1>10, <2>1, <2>2 DEF PermitLine!Close
  <2> QED
    BY <2>3
<1>13. ASSUME NEW m \in Masters, NEW new, NEW ok,
              MasterDown(m) \/ ReceiveRelayNotify(m, new) \/ Reattach(m, new, ok)
       PROVE  Unseen
  BY <1>13, <1>S, <1>D
  DEF MasterDown, ReceiveRelayNotify, Reattach, slotVars, callerVars, Unseen
<1>14. CASE PublishInventory
  <2>1. Unseen
    BY <1>14, <1>S, <1>D DEF PublishInventory, slotVars, callerVars, Unseen
  <2> QED
    BY <2>1, <1>0
<1>15. ASSUME NEW a, Notify(a) PROVE Unseen
  BY <1>15, <1>S, <1>D DEF Notify, slotVars, Unseen
<1>16. Tick => Unseen
  <2> SUFFICES ASSUME Tick PROVE Unseen
    OBVIOUS
  <2>1. ASSUME NEW k \in Keys PROVE outage'[k] = Available <=> outage[k] = Available
    <3>1. outage[k] \in Available .. Grace
      BY DEF TypeOK
    <3>2. outage'[k] = IF outage[k] \in 0 .. (Grace - 1) THEN outage[k] + 1 ELSE outage[k]
      BY DEF Tick
    <3> QED
      BY <3>1, <3>2 DEF Available
  <2>2. DoorsStay
    BY <2>1
  <2> QED
    BY <2>2, <1>S DEF Tick, Unseen
<1>17. UNCHANGED vars => Unseen
  BY <1>S, <1>D DEF vars, slotVars, callerVars, Unseen
<1>18. \A c \in Callers : want[c] \in Keys /\ snap[c] \in 0 .. MaxCapacity
  BY DEF TypeOK
<1> QED
  <2>1. CASE \E c \in Callers : CallerStep(c) \/ DropFuture(c) \/ \E k \in Keys : Route(c, k)
    <3>1. PICK c \in Callers : CallerStep(c) \/ DropFuture(c) \/ \E k \in Keys : Route(c, k)
      BY <2>1
    <3>2. PICK k \in Keys, n \in 0 .. MaxCapacity : k = want[c] /\ n = snap[c]
      BY <1>18
    <3>3. \/ PermitLine!Join(c, k) \/ PermitLine!Enter(c, k) \/ PermitLine!GiveUp(c, k)
          \/ PermitLine!Leave(c, k) \/ PermitLine!Open(k, n)
          \/ Unseen
      <4>1. ConfigureTarget(c) => PermitLine!Open(k, n)
        BY <1>3, <3>2 DEF PermitLine!Open
      <4>2. Enqueue(c) => PermitLine!Join(c, k)
        BY <1>5, <3>2 DEF PermitLine!Join
      <4>3. Grant(c) => PermitLine!Enter(c, k)
        BY <1>6, <3>2 DEF PermitLine!Enter
      <4>4. CancelWaiter(c) => PermitLine!GiveUp(c, k)
        BY <1>7, <3>2 DEF PermitLine!GiveUp
      <4>5. Release(c) => PermitLine!Leave(c, k)
        BY <1>8, <3>2 DEF PermitLine!Leave
      <4> QED
        BY <3>1, <4>1, <4>2, <4>3, <4>4, <4>5, <1>1, <1>2, <1>4 DEF CallerStep
    <3>4. Unseen \/ PermitLine!Next
      BY <3>3 DEF PermitLine!Next
    <3> QED
      BY <3>4, <1>0
  <2>2. CASE ~\E c \in Callers : CallerStep(c) \/ DropFuture(c) \/ \E k \in Keys : Route(c, k)
    <3>1. \/ \E u \in Updaters : ConfigureAdvertised(u) \/ ReconcileMaster(u)
          \/ \E m \in Masters : DisableMaster(m)
          \/ Unseen \/ PublishInventory
      BY <2>2, <1>13, <1>15, <1>16, <1>17 DEF Next, UpdaterStep
    <3>2. Unseen \/ PermitLine!Next \/ PublishInventory
      BY <3>1, <1>9, <1>11, <1>12 DEF PermitLine!Next
    <3> QED
      BY <3>2, <1>0, <1>14
  <2> QED
    BY <2>1, <2>2

\* The controller, driven by callers, inventories and deaths in any order, is a
\* FIFO line in front of a door: nobody is admitted out of turn, beyond the
\* advertised limit or through an outage, and a waiter that leaves changes
\* nobody else's place.
THEOREM LineIsKept == Spec => PermitLine!Spec
<1>1. PermitLine!Init /\ [][PermitLine!Next]_(PermitLine!vars) => PermitLine!Spec
  BY DEF PermitLine!Spec
<1> QED
  BY <1>1, TypeCorrect, QueueExact, PermitsConserved, LineInit, LineStep, PTL DEF Spec
==============================================================================
