------------------------------ MODULE Admission ------------------------------
(***************************************************************************)
(* The FIFO admission controller of a RelaySwitch (request_state.rs) under *)
(* the code that drives it (relay_switch.rs): callers that route a request *)
(* to a cartridge and wait for a permit, the two tasks that apply a        *)
(* cartridge inventory (the frame pump, on a RelayNotify, and add_master,  *)
(* on a reattach), and the handling of a master's death.                   *)
(*                                                                         *)
(* The controller's mutex makes each critical section one action.  What    *)
(* the code does after it unlocks, `notify_waiters`, is an action of its   *)
(* own, so any other task may run between the two.  Time is a count of     *)
(* ticks; an outage's age replaces the instant it started at.              *)
(***************************************************************************)
EXTENDS Integers, Sequences, FiniteSets

CONSTANTS
  Callers,      \* tasks that issue requests; a caller stands for its ticket
  Keys,         \* admission keys: one per cartridge behind a master
  Masters,      \* relay connections
  MasterOf,     \* the master an admission key names
  Grace,        \* ADMISSION_UNAVAILABLE_GRACE, in ticks
  MaxCapacity,  \* bound: largest advertised handler capacity (0 = unlimited)
  MaxChurn      \* bound: inventory updates and deaths in a behaviour

ASSUME ConstantsAssumption ==
  /\ IsFiniteSet(Callers)
  /\ Keys # {} /\ Masters # {}
  /\ MasterOf \in [Keys -> Masters]
  /\ Grace \in Nat \ {0}
  /\ MaxCapacity \in Nat
  /\ MaxChurn \in Nat

VARIABLES
  slots,      \* keys that have an AdmissionSlot
  outage,     \* per key: age of the outage (unavailable_since), or Available
  capacity,   \* per key: concurrent permits, 0 = no limit
  active,     \* per key: permits counted as held
  queue,      \* per key: FIFO of tickets
  inventory,  \* per key: capacity in its master's installed_cartridges, or Absent
  healthy,    \* per master: MasterConnection.healthy
  dying,      \* masters whose death is noticed but not yet told to admission
  upd,        \* the tasks that apply an inventory
  pc,         \* per caller: where it stands in acquire_cap_admission
  want,       \* per caller: the admission key it was routed to
  snap,       \* per caller: the capacity it read from the inventory
  budget,     \* per caller: ticks left of its timeout, or NoBudget
  woken,      \* per caller: its Notified future was completed
  owes,       \* tasks that unlocked the controller and still have to notify
  churn       \* inventory updates and deaths so far

slotVars == <<slots, outage, capacity, active, queue>>
masterVars == <<inventory, healthy, dying, upd, churn>>
callerVars == <<pc, want, snap, budget, woken>>
vars == <<slotVars, masterVars, callerVars, owes>>

Available == -1
Absent == -1
NoBudget == -1

\* The two tasks that apply an inventory to the controller.
Updaters == {"pump", "attach"}

CallerPCs == {"idle", "routed", "snapped", "configured", "looping", "armed",
              "waiting", "leaving", "holding"}
\* A caller whose ticket is in the queue of the key it wants.
QueuedPCs == {"looping", "armed", "waiting", "leaving"}

Offers == Absent .. MaxCapacity
NoInventory == [k \in Keys |-> Absent]
\* What a master may advertise: an offer for some of its own cartridges.
Inventories(m) ==
  {inv \in [Keys -> Offers] : \A k \in Keys : MasterOf[k] # m => inv[k] = Absent}

\* An inventory being applied: the cartridges left to configure are advertised.
Updates ==
  {r \in [at : {"idle", "configure", "publish"}, master : Masters,
          new : [Keys -> Offers], todo : SUBSET Keys] :
     \A k \in r.todo : r.new[k] # Absent}

TypeOK ==
  /\ slots \subseteq Keys
  /\ outage \in [Keys -> Available .. Grace]
  /\ capacity \in [Keys -> 0 .. MaxCapacity]
  /\ active \in [Keys -> Nat]
  /\ queue \in [Keys -> Seq(Callers)]
  /\ inventory \in [Keys -> Offers]
  /\ healthy \in [Masters -> BOOLEAN]
  /\ dying \subseteq Masters
  /\ upd \in [Updaters -> Updates]
  /\ pc \in [Callers -> CallerPCs]
  /\ want \in [Callers -> Keys]
  /\ snap \in [Callers -> 0 .. MaxCapacity]
  /\ budget \in [Callers -> NoBudget .. Grace]
  /\ woken \in [Callers -> BOOLEAN]
  /\ owes \subseteq Callers \cup Updaters \cup Masters
  /\ churn \in 0 .. MaxChurn

Free(a) == a \notin owes
Holders(k) == {c \in Callers : pc[c] = "holding" /\ want[c] = k}

(***************************************************************************)
(* The controller's critical sections.                                     *)
(***************************************************************************)

\* configure: create the slot if it is new, end any outage, set the capacity.
Configure(k, n) ==
  /\ slots' = slots \cup {k}
  /\ outage' = [outage EXCEPT ![k] = Available]
  /\ capacity' = [capacity EXCEPT ![k] = n]
  /\ UNCHANGED <<active, queue>>

\* mark_unavailable on a set of keys: an outage in progress keeps its start.
MarkUnavailable(K) ==
  /\ outage' = [k \in Keys |-> IF k \in K \cap slots /\ outage[k] = Available
                                 THEN 0 ELSE outage[k]]
  /\ UNCHANGED <<slots, capacity, active, queue>>

HasRoom(k) == capacity[k] = 0 \/ active[k] < capacity[k]

\* Mutant: whoever looks first is served, wherever it stands in the queue.
CanGrantOutOfTurn(c) ==
  outage[want[c]] = Available /\ HasRoom(want[c]) /\ queue[want[c]] # <<>>

CanGrant(c) ==
  LET k == want[c]
  IN  /\ outage[k] = Available
      /\ HasRoom(k)
      /\ queue[k] # <<>>
      /\ Head(queue[k]) = c

\* notify_waiters: completes every Notified future that exists at this moment.
Notify(a) ==
  /\ a \in owes
  /\ owes' = owes \ {a}
  /\ woken' = [c \in Callers |-> woken[c] \/ pc[c] \in {"armed", "waiting"}]
  /\ UNCHANGED <<slotVars, masterVars, pc, want, snap, budget>>

(***************************************************************************)
(* A caller: route, read the target, configure it, queue, wait, hold.      *)
(***************************************************************************)

Goto(c, from, to) ==
  /\ Free(c)
  /\ pc[c] = from
  /\ pc' = [pc EXCEPT ![c] = to]

\* find_route_for_cap: the cap table lists what healthy masters advertise.
Route(c, k) ==
  /\ healthy[MasterOf[k]]
  /\ inventory[k] # Absent
  /\ Goto(c, "idle", "routed")
  /\ want' = [want EXCEPT ![c] = k]
  /\ UNCHANGED <<slotVars, masterVars, snap, budget, woken, owes>>

\* cap_admission_target: clone the master's inventory and read the capacity.
ReadTarget(c) ==
  /\ inventory[want[c]] # Absent
  /\ Goto(c, "routed", "snapped")
  /\ snap' = [snap EXCEPT ![c] = inventory[want[c]]]
  /\ UNCHANGED <<slotVars, masterVars, want, budget, woken, owes>>

\* The cartridge left the inventory after routing: a Protocol error.
TargetGone(c) ==
  /\ inventory[want[c]] = Absent
  /\ Goto(c, "routed", "idle")
  /\ UNCHANGED <<slotVars, masterVars, want, snap, budget, woken, owes>>

\* acquire_cap_admission configures the key with the capacity it has read.
ConfigureTarget(c) ==
  /\ Goto(c, "snapped", "configured")
  /\ Configure(want[c], snap[c])
  /\ snap' = [snap EXCEPT ![c] = 0]
  /\ owes' = owes \cup {c}
  /\ UNCHANGED <<masterVars, want, budget, woken>>

Enqueue(c) ==
  /\ Goto(c, "configured", "looping")
  /\ queue' = [queue EXCEPT ![want[c]] = Append(@, c)]
  /\ UNCHANGED <<slots, outage, capacity, active, masterVars, want, snap,
                 budget, woken, owes>>

\* Create the Notified future before the slot is looked at.
Arm(c) ==
  /\ Goto(c, "looping", "armed")
  /\ UNCHANGED <<slotVars, masterVars, want, snap, budget, woken, owes>>

Grant(c) ==
  /\ CanGrant(c)
  /\ Goto(c, "armed", "holding")
  /\ queue' = [queue EXCEPT ![want[c]] = Tail(@)]
  /\ active' = [active EXCEPT ![want[c]] = @ + 1]
  /\ woken' = [woken EXCEPT ![c] = FALSE]
  /\ owes' = owes \cup {c}
  /\ UNCHANGED <<slots, outage, capacity, masterVars, want, snap, budget>>

\* Mutant: every wait gets the whole window, however old the outage is.
ParkForAWholeWindow(c) ==
  LET k == want[c]
  IN  /\ ~CanGrant(c)
      /\ outage[k] < Grace
      /\ Goto(c, "armed", "waiting")
      /\ budget' = [budget EXCEPT ![c] =
                      IF outage[k] = Available THEN NoBudget ELSE Grace]
      /\ UNCHANGED <<slotVars, masterVars, want, snap, woken, owes>>

\* Not served: wait for a notification, for what is left of an outage at most.
Park(c) ==
  LET k == want[c]
  IN  /\ ~CanGrant(c)
      /\ outage[k] < Grace
      /\ Goto(c, "armed", "waiting")
      /\ budget' = [budget EXCEPT ![c] =
                      IF outage[k] = Available THEN NoBudget ELSE Grace - outage[k]]
      /\ UNCHANGED <<slotVars, masterVars, want, snap, woken, owes>>

\* The outage outlived its window: acquire returns Err, the waiter is dropped.
Expire(c) ==
  /\ outage[want[c]] = Grace
  /\ Goto(c, "armed", "leaving")
  /\ woken' = [woken EXCEPT ![c] = FALSE]
  /\ UNCHANGED <<slotVars, masterVars, want, snap, budget, owes>>

Wake(c) ==
  /\ woken[c] \/ budget[c] = 0
  /\ Goto(c, "waiting", "looping")
  /\ budget' = [budget EXCEPT ![c] = NoBudget]
  /\ woken' = [woken EXCEPT ![c] = FALSE]
  /\ UNCHANGED <<slotVars, masterVars, want, snap, owes>>

\* The future is dropped at its await: the caller was cancelled.
DropFuture(c) ==
  /\ Goto(c, "waiting", "leaving")
  /\ budget' = [budget EXCEPT ![c] = NoBudget]
  /\ woken' = [woken EXCEPT ![c] = FALSE]
  /\ UNCHANGED <<slotVars, masterVars, want, snap, owes>>

\* The sequence s without its element at position i.
RemoveAtPosition(s, i) ==
  [j \in 1 .. (Len(s) - 1) |-> IF j < i THEN s[j] ELSE s[j + 1]]

\* Mutant: a waiter that leaves does not notify the one behind it.
CancelWaiterSilently(c) ==
  /\ Goto(c, "leaving", "idle")
  /\ queue' = [queue EXCEPT ![want[c]] = SelectSeq(@, LAMBDA d : d # c)]
  /\ UNCHANGED <<slots, outage, capacity, active, masterVars, want, snap,
                 budget, woken, owes>>

\* cancel_waiter: the first position that holds the ticket, if any.
CancelWaiter(c) ==
  /\ Goto(c, "leaving", "idle")
  /\ \E i \in 1 .. Len(queue[want[c]]) :
       /\ queue[want[c]][i] = c
       /\ queue' = [queue EXCEPT ![want[c]] = RemoveAtPosition(@, i)]
  /\ owes' = owes \cup {c}
  /\ UNCHANGED <<slots, outage, capacity, active, masterVars, want, snap,
                 budget, woken>>

\* Mutant: a permit dropped on an unavailable target is not counted back.
ReleaseLeaks(c) ==
  /\ active[want[c]] > 0
  /\ Goto(c, "holding", "idle")
  /\ active' = [active EXCEPT ![want[c]] = IF outage[want[c]] = Available THEN @ - 1 ELSE @]
  /\ owes' = owes \cup {c}
  /\ UNCHANGED <<slots, outage, capacity, queue, masterVars, want, snap,
                 budget, woken>>

\* Mutant: a permit is given back without a notification.
ReleaseSilently(c) ==
  /\ active[want[c]] > 0
  /\ Goto(c, "holding", "idle")
  /\ active' = [active EXCEPT ![want[c]] = @ - 1]
  /\ UNCHANGED <<slots, outage, capacity, queue, masterVars, want, snap,
                 budget, woken, owes>>

\* AdmissionPermit::drop, from the request's terminal path.
Release(c) ==
  /\ active[want[c]] > 0
  /\ Goto(c, "holding", "idle")
  /\ active' = [active EXCEPT ![want[c]] = @ - 1]
  /\ owes' = owes \cup {c}
  /\ UNCHANGED <<slots, outage, capacity, queue, masterVars, want, snap,
                 budget, woken>>

(***************************************************************************)
(* Inventories and deaths.                                                 *)
(***************************************************************************)

Present(inv) == {k \in Keys : inv[k] # Absent}
KeysOf(m) == {k \in Keys : MasterOf[k] = m}
\* The inventories of all masters once m's is replaced.
Publish(m, new) ==
  inventory' = [k \in Keys |-> IF MasterOf[k] = m THEN new[k] ELSE inventory[k]]

StartUpdate(u, m, new) ==
  /\ Free(u)
  /\ upd[u].at = "idle"
  /\ upd' = [upd EXCEPT ![u] = [at |-> "configure", master |-> m,
                                new |-> new, todo |-> Present(new)]]

FinishUpdate(u) ==
  upd' = [upd EXCEPT ![u].at = "idle", ![u].new = NoInventory, ![u].todo = {}]

\* handle_master_frame, RelayNotify: admission first, the inventory after it.
ReceiveRelayNotify(m, new) ==
  /\ churn < MaxChurn
  /\ churn' = churn + 1
  /\ StartUpdate("pump", m, new)
  /\ UNCHANGED <<slotVars, inventory, healthy, dying, callerVars, owes>>

\* add_master on the slot of an unhealthy master: the inventory is swapped in,
\* and the slot's health set to the outcome of its identity probe, before
\* admission hears of either.  A failed probe may repeat, so it counts as churn.
Reattach(m, new, verified) ==
  /\ ~healthy[m]
  /\ verified \/ churn < MaxChurn
  /\ churn' = IF verified THEN churn ELSE churn + 1
  /\ StartUpdate("attach", m, new)
  /\ Publish(m, new)
  /\ healthy' = [healthy EXCEPT ![m] = verified]
  /\ UNCHANGED <<slotVars, dying, callerVars, owes>>

\* configure_master_admission: configure each advertised key once, ...
ConfigureAdvertised(u) ==
  /\ Free(u)
  /\ upd[u].at = "configure"
  /\ \E k \in upd[u].todo :
       /\ Configure(k, upd[u].new[k])
       /\ upd' = [upd EXCEPT ![u].todo = @ \ {k}]
  /\ owes' = owes \cup {u}
  /\ UNCHANGED <<inventory, healthy, dying, churn, callerVars>>

\* ... then reconcile_master marks what the master no longer advertises.
ReconcileMaster(u) ==
  /\ Free(u)
  /\ upd[u].at = "configure"
  /\ upd[u].todo = {}
  /\ MarkUnavailable(KeysOf(upd[u].master) \ Present(upd[u].new))
  /\ IF u = "pump" THEN upd' = [upd EXCEPT ![u].at = "publish"]
                   ELSE FinishUpdate(u)
  /\ owes' = owes \cup {u}
  /\ UNCHANGED <<inventory, healthy, dying, churn, callerVars>>

PublishInventory ==
  /\ Free("pump")
  /\ upd["pump"].at = "publish"
  /\ Publish(upd["pump"].master, upd["pump"].new)
  /\ FinishUpdate("pump")
  /\ UNCHANGED <<slotVars, healthy, dying, churn, callerVars, owes>>

\* handle_master_death_with_reason: only a healthy master can die; ...
MasterDown(m) ==
  /\ Free(m)
  /\ m \notin dying
  /\ healthy[m]
  /\ churn < MaxChurn
  /\ churn' = churn + 1
  /\ healthy' = [healthy EXCEPT ![m] = FALSE]
  /\ dying' = dying \cup {m}
  /\ UNCHANGED <<slotVars, inventory, upd, callerVars, owes>>

\* ... then disable_master.
DisableMaster(m) ==
  /\ m \in dying
  /\ dying' = dying \ {m}
  /\ MarkUnavailable(KeysOf(m))
  /\ owes' = owes \cup {m}
  /\ UNCHANGED <<inventory, healthy, upd, churn, callerVars>>

\* One tick of tokio's clock: outages age and timeouts run down.
Tick ==
  /\ \/ \E k \in Keys : outage[k] \in 0 .. (Grace - 1)
     \/ \E c \in Callers : budget[c] > 0
  /\ outage' = [k \in Keys |-> IF outage[k] \in 0 .. (Grace - 1)
                                 THEN outage[k] + 1 ELSE outage[k]]
  /\ budget' = [c \in Callers |-> IF budget[c] > 0 THEN budget[c] - 1 ELSE budget[c]]
  /\ UNCHANGED <<slots, capacity, active, queue, masterVars, pc, want, snap,
                 woken, owes>>

(***************************************************************************)
(* The specification.                                                      *)
(***************************************************************************)

\* The switch was built over masters that have sent their first inventory.
Init ==
  /\ inventory \in [Keys -> Offers]
  /\ slots = Present(inventory)
  /\ outage = [k \in Keys |-> Available]
  /\ capacity = [k \in Keys |-> IF inventory[k] = Absent THEN 0 ELSE inventory[k]]
  /\ active = [k \in Keys |-> 0]
  /\ queue = [k \in Keys |-> <<>>]
  /\ healthy = [m \in Masters |-> TRUE]
  /\ dying = {}
  /\ upd = [u \in Updaters |-> [at |-> "idle", master |-> CHOOSE m \in Masters : TRUE,
                                new |-> NoInventory, todo |-> {}]]
  /\ pc = [c \in Callers |-> "idle"]
  /\ want = [c \in Callers |-> CHOOSE k \in Keys : TRUE]
  /\ snap = [c \in Callers |-> 0]
  /\ budget = [c \in Callers |-> NoBudget]
  /\ woken = [c \in Callers |-> FALSE]
  /\ owes = {}
  /\ churn = 0

\* What a caller does without a choice of its own once it has been routed.
CallerStep(c) ==
  \/ ReadTarget(c) \/ TargetGone(c) \/ ConfigureTarget(c) \/ Enqueue(c)
  \/ Arm(c) \/ Grant(c) \/ Park(c) \/ Expire(c) \/ Wake(c) \/ CancelWaiter(c)
  \/ Release(c)

UpdaterStep(u) == ConfigureAdvertised(u) \/ ReconcileMaster(u)

Next ==
  \/ \E c \in Callers : CallerStep(c) \/ DropFuture(c) \/ \E k \in Keys : Route(c, k)
  \/ \E u \in Updaters : UpdaterStep(u)
  \/ \E m \in Masters : \/ MasterDown(m) \/ DisableMaster(m)
                        \/ \E new \in Inventories(m) :
                             \/ ReceiveRelayNotify(m, new)
                             \/ \E ok \in BOOLEAN : Reattach(m, new, ok)
  \/ PublishInventory
  \/ \E a \in Callers \cup Updaters \cup Masters : Notify(a)
  \/ Tick

Spec == Init /\ [][Next]_vars

\* A ready task is polled and time passes; a permit is held by a request that
\* reaches its terminal (or the death of its master does it for it).
Fairness ==
  /\ \A c \in Callers : WF_vars(CallerStep(c))
  /\ \A u \in Updaters : WF_vars(UpdaterStep(u))
  /\ WF_vars(PublishInventory)
  /\ \A m \in Masters : WF_vars(DisableMaster(m))
  /\ \A a \in Callers \cup Updaters \cup Masters : WF_vars(Notify(a))
  /\ WF_vars(Tick)

FairSpec == Spec /\ Fairness

(***************************************************************************)
(* Properties.                                                             *)
(***************************************************************************)

\* The permits counted as held are the callers that hold one: no permit leaks
\* through a cancelled wait, a death or a reattach, and a release never finds
\* the count at zero (the `expect` of AdmissionController::release).
PermitsMatchHolders ==
  \A k \in Keys : active[k] = Cardinality(Holders(k))

Elements(s) == {s[i] : i \in 1 .. Len(s)}
Distinct(s) == \A i, j \in 1 .. Len(s) : s[i] = s[j] => i = j

\* The queue of a key holds, once each, the tickets of the callers that wait for
\* it: no abandoned ticket can block the line and none is lost from it.
QueueMatchesWaiters ==
  \A k \in Keys :
    /\ Distinct(queue[k])
    /\ Elements(queue[k]) = {c \in Callers : pc[c] \in QueuedPCs /\ want[c] = k}

\* A caller parked at its await that could be served has been woken, or some
\* task that unlocked the controller is about to wake it: the notification
\* between an unlock and notify_waiters is never lost.
NoLostWakeup ==
  \A c \in Callers :
    pc[c] = "waiting" /\ ~woken[c] /\ CanGrant(c) => owes # {}

\* A caller parked through an outage has a timeout that ends with the outage's
\* window, whenever it queued and however many outages it has seen: the window
\* measures the outage and not the wait.
NobodySleepsPastTheWindow ==
  \A c \in Callers :
    pc[c] = "waiting" /\ ~woken[c] /\ outage[want[c]] # Available /\ owes = {}
      => budget[c] \in 0 .. (Grace - outage[want[c]])

\* Every queued request is served, failed or cancelled, through every order of
\* releases, cancellations, outages, capacity changes and reattaches.
EveryWaiterResolved ==
  \A c \in Callers : pc[c] = "looping" ~> pc[c] \in {"holding", "idle"}

(***************************************************************************)
(* What the controller promises, without tickets, notifications and time.  *)
(***************************************************************************)

PermitLine == INSTANCE PermitLine WITH
  line <- queue,
  inside <- [k \in Keys |-> Holders(k)],
  limit <- capacity,
  open <- [k \in Keys |-> outage[k] = Available]

ImplementsPermitLine == PermitLine!FairSpec
==============================================================================
