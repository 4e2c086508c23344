# capdag in TLA+

capdag runs *caps* (capabilities with typed inputs and outputs) in *cartridges*,
separate processes, and composes them into plans. These modules model the parts of it
that are hard to get right: the runtime that carries requests between the engine and the
cartridges (`src/src/bifaci`, `src/src/orchestrator`), the registry and the graph that say
what can be run (`src/src/fabric`, `src/src/planner`), and the rules that say what may be
connected to what (`src/src/urn`). TLC checks them on small instances, and TLAPS proves
what matters most for every value of the constants. Paths below are relative to the
repository's root, `src/`.

## The system

    planner ---- plan ---> engine (orchestrator)                  cartridge process
      LiveCapFab             region driver, bodies                  main loop, queue
        ^ rebuilt from       group chain ---- execute_cap -->         handler tasks
        | offers and           |   feed, forwarders,      \          demux, writer thread
        | definitions          |   collector               \            ^
      FabricRegistry           v                            v           | stdin / stdout
        directory,           RelaySwitch ---- socket per master ---- CartridgeHostRuntime
        fetches                RequestTable, AdmissionController     (behind a RelaySlave)

| component | state it keeps | operations | hard behaviour | what makes it correct |
|---|---|---|---|---|
| Admission controller (`bifaci/request_state.rs`) | per cartridge: capacity, permits out, a FIFO of tickets, the start of an outage | `configure`, `acquire`, `release`, `cancel_waiter`, `disable_master`, `reconcile_master` | a mutex with a `Notify`: what happens between unlock, notification and wait; waiters dropped; outages that begin and end; time | permits equal holders, FIFO, no lost wakeup, every waiter served or refused within the window |
| Request table (`bifaci/request_state.rs`) | live requests: route, origin, children, channel, permit; a ring of ended ones | `register`, `terminate`, `link_child` | several tasks remove the same request | one terminal per request, no entry without an owner |
| RelaySwitch (`bifaci/relay_switch.rs`) | masters (health, caps, socket, reader), cap table, frame channel, probe queue | `execute_cap`, `send_to_master`, `handle_master_frame`, `handle_master_death`, `cancel_request`, `add_master`, identity probes, `rebuild_cap_table` | all of these run concurrently and await between their steps; masters die and come back | exactly one answer, a death ends what was routed to it, cancellation reaches the children, no route before the probe (which the code does not keep) |
| Executor (`orchestrator/executor.rs`) | open invocations of a chain of groups, a feed, forwarders, a collector | `run_group_chain`, `decompose_group_chains`, `open_group`, `send_group_input`, `forward_frames`, `collect_terminal_output` | a chain holds permits while it waits for more; a forwarder that waits for one cap's credit reads nothing of the other's | no deadlock, nothing held after failure, the output complete or the run failed |
| ForEach regions (`orchestrator/execute_plan.rs`) | a source, bodies in flight, their outcomes | `run_region_bodies` | bodies wait for the same cartridges; a source fails while they run | never a short list that looks complete; the region ends |
| Credit (`bifaci/credit.rs`) | a window per stream | `acquire`, `grant`, `close_request` | blocked senders, registration after close, batches, flush before blocking | window respected, no credit lost, every stream drains |
| Frames (`bifaci/frame.rs`) | sequence numbers per flow, a reorder buffer | `assign`, `accept`, `cleanup_flow` | numbers that go on over the death of a process; numbering and writing under different locks | delivery in order, bounded buffer |
| Cartridge host (`bifaci/host_runtime.rs`) | processes, routing maps, release ring | routing, heartbeats, death, roster sync, retirement | self-loop peer calls, late events of an old process | nothing of a dead process leaks into the next, nothing routed to the wrong side |
| Cartridge runtime (`bifaci/cartridge_runtime.rs`) | handlers, queue, capacity, pending peer calls | main loop, demultiplexer, terminal gate | cancel against completion, capacity changed while the loop sleeps, shutdown | one terminal per request, the queue is looked at again |
| Live feeds (`bifaci/live_feed.rs`) | a capture ring, a delivery channel | `push`, `finish`, `fail`, `close`, the feeder thread | three threads, a full ring, stop at any time | loss only at the capture edge and always reported |
| Fabric registry (`fabric/registry.rs`) | definitions in memory, a directory of versioned files, a queue of keys to fetch | construction, lookups with a deadline, background fetches, `clear_cache` | several fetches of one definition, a kill between two files, snapshots that share the directory | no cap without its media, nothing of another snapshot |
| Live graph and search (`planner/live_cap_fab.rs`, `planner/plan_engine.rs`) | the graph of installed caps | rebuild, reachability check, search, join of sources | rebuilt while offers and definitions change; types inferred one way and checked another | misses nothing that landed, the planned type is the data's |
| URNs (`urn/*.rs`) | | `accepts`, `is_equivalent`, `is_dispatchable`, `validate_admissible`, effects, join | none concurrent; subtle order relations | the relations have the laws the rest relies on |
| Relay slave, in-process host | frames in flight | two-way copy, functions as cartridges | as their peers | as their peers |
| Machine notation, caps, media, input resolver, packaging, command line | trees, maps, files | pure functions, file and network I/O | none concurrent | agree with a definition of what they compute |

The components call one another directly; the ones in different processes exchange
frames over FIFO byte streams. Inside the switch the tasks share state behind locks and
unbounded channels. The only persistent state is the registry's directory, which outlives
every process and is shared by those that run one after another: there a process may be
killed between any two files. Everywhere else what crashes is the other end of a
connection.

`PROJECT.json` lists every part of the repository with the reason where it is not
modelled, and the hazards of the code, each at its line, with the properties that cover it.

## The modules

| module | models | role |
|---|---|---|
| `PermitLine` | nothing of the code | abstract specification: a FIFO line with bounded entry |
| `Admission`, `AdmissionProofs` | `AdmissionController` and the code that drives it | detailed specification, refines `PermitLine`; theorems |
| `ChainAdmission` | admission as the executor uses it | several chains over the domains |
| `ForEachRegion` | `run_region_bodies`; extends `ChainAdmission` | composition: the bodies of a region are chains that compete for permits; theorems in `RegionProofs` |
| `RelaySwitch`, `RelaySwitchProofs` | the switch and its request table | the life of requests; theorems |
| `CreditHop` | what `credit.rs` and the receiver's account promise of one stream | abstract specification |
| `GroupChain`, `GroupChainProofs` | the tasks of one open chain and the caps it runs | detailed specification, each input stream refines `CreditHop`; theorems |
| `CartridgeRuntime`, `CartridgeRuntimeProofs` | the main loop, handlers and writer of a cartridge | one process; theorems |
| `HostRuntime`, `HostRuntimeProofs` | the loop of a cartridge host with its processes, the slave and the switch around it | composition of the host with both of its sides; theorems |
| `LiveFeed`, `RegionProofs` | `live_feed.rs`, and the two places of `cartridge_runtime.rs` that open and stop a feed | capture, delivery and stop; theorems of it and of `ForEachRegion` |
| `FabricRegistry` | `fabric/registry.rs` | one registry process after another over one directory; theorems in `CapGraphProofs` |
| `CapGraph`, `CapGraphProofs` | the switch's aggregate and the rebuilding of the graph; extends `FabricRegistry` | composition, refines `FabricRegistry`; theorems of both |
| `CapUrn` | the relations on URNs | operators; their laws are theorems of `MediaFlowProofs` |
| `MediaFlow`, `MediaFlowProofs` | a typed path from the search to the handler; extends `CapUrn` | composition of planner, switch, host, cartridge and executor on types; theorems of both |
| `MC...` | | instances for TLC |

Every module has a type invariant (`TypeOK`, `RegionTypeOK`, `RegistryTypeOK`). The runs
spend their time on the other properties; to check it, add it to the `INVARIANTS` of any
configuration. Those of `Admission`, `LiveFeed`, `GroupChain`, `FabricRegistry`, `RelaySwitch`
and `HostRuntime` are proved.

### Admission

A caller stands for its ticket. `slots`, `outage`, `capacity`, `active` and `queue` are the
fields of `AdmissionSlot`; `Grace` is `ADMISSION_UNAVAILABLE_GRACE` in ticks of a discrete
clock. Each critical section of the controller's mutex is one action. `notify_waiters`
runs after the mutex is released, so it is a step of its own (`Notify`), owed by the task
that unlocked (`owes`). `acquire`'s loop is `Arm` (the `Notified` future exists), `Grant`,
`Park` or `Expire` (the look at the slot) and `Wake`; dropping the future is `DropFuture`,
and the guard's `Drop` is `CancelWaiter`. `upd` are the two tasks that apply an inventory:
the pump on a `RelayNotify` and `add_master`. They differ in their order, `RelayNotify`
configures admission before it publishes the inventory, a reattach after, and the model
keeps both orders.

### ChainAdmission and ForEachRegion

A run is a chain of groups, each resolved to an admission domain. `DeadlockBoundary` is
the executor's test for splitting a chain: two adjacent groups of one bounded domain. All
invocations of a segment are opened, with their permits, before the head is fed; the last
one of a segment must end before the next segment opens. `OpenRefused` is the `?` that
leaves the function with invocations open. `Break` is an ERR, or an END without success,
from one of them. What follows depends on which: the run hears only from the last one of the
open segment, through `collect_terminal_output`, and the cancellation loop comes after that
(`CancelChain`). An earlier one that breaks ends its forwarder and nothing else (`Starved`):
the next cap gets neither END nor Cancel, and the run waits for ever with its permits.

`ForEachRegion` makes the first runs the bodies of a region. The source task sends items
into the bounded channel (`produced - dispatched` of them wait there) and ends or fails;
the driver's biased `select!` is `TakeOutcome`, `Dispatch`, `SourceIsOver`, `SourceError`
with their preconditions; a body runs its chain, `Report`s over the unbounded channel and
only then gives its semaphore permit back (`ReturnPermit`). `FinishRegion` is the end of
the driver with `foreach_partial_failure_policy`. A body may panic, a callback may fail. The
liveness of a region is stated with the exceptions that follow from this: a body that panics
and a run that keeps its permits for ever, in the region or beside it (`PermitsKept`).

### RelaySwitch

A request is `new`, `live` (in the table) or the `TerminalKind` it ended by. The tasks are
one caller per request of the engine, the pump (which holds `frame_rx` while it handles a
frame), the task that handles the end of a connection (after `frame_rx` is released), the
probe driver, `add_master`, and a user who cancels. A step is what a task does between two
awaits in which another may run: a critical section of the request table, a write to a
socket, a read or a write of a map behind a lock. `rebuild_cap_table` reads the health of
one slot, then its caps, then goes on to the next (`ReadHealth`, `ReadCaps`), and puts the
new table in place at the end (`WriteCapTable`). A RelayNotify publishes the caps
(`PumpUpdate`), then takes a master with its first caps out of service (`PumpHoldBack`),
rebuilds, and queues the probe (`PumpQueueProbe`); other tasks may rebuild in between. The
routines that several tasks call, a death, a cancellation, a rebuild, have a program counter
per task (`death`, `cancel`, `rebuild`); `cancel` is the recursion of `cancel_request`
flattened to a list of work. A frame in an `inbox` has left the host and waits for the pump;
what the pump decided but not yet sent is `hand`. The hosts behind the masters are the
environment: they start any job they receive, send data, make peer calls, answer, and lose
their connections. Putting a new connection into its slot (`AttachCommit`) is one step. The
code writes the fields one after another, the socket first and `healthy` last, so another
task may write to the new socket a little earlier; a connection that breaks between its
handshake and the end of these writes is not modelled.

### CreditHop and GroupChain

`CreditHop` counts: a credit is at the gate, in a chunk on the wire, in a chunk the
receiver holds, in a batch of grants not yet sent, or in a CREDIT frame. Beside it the
receiver's demultiplexer keeps its own account (`stream_windows`), starting from the
window of its own link.

`GroupChain` has the frames. `FeedItem` is `send_one_stream` of `send_group_input` behind
the gate of the first cap; a cap is its demultiplexer (`Arrive`: a fragment that continues
an item is credited at once, a whole item queues for the handler), its reader (`Read`
counts towards a batch of half a window, `FlushBeforeWait` grants the rest before it
waits) and its writer (`Emit`, behind the output gate). `ForwardChunk`, `ForwardBlocked`,
`ForwardReleased`, `ForwardCredit`, `ForwardEnd`, `ForwardErr`, `ForwardIdle` are the arms
of `forward_frames`, one forwarder per hop: while it waits for the next cap's window it
takes nothing from its channel, so the grants queued behind the chunk it holds wait too.
`Collect...` is `collect_terminal_output`, `CloseGates` and `Join` are step 6.
`Hop(i)` is the input stream of cap `i` as a `CreditHop`: the wire is the number of chunks
on the way to its demultiplexer, the credits in flight are the sum of the CREDIT frames that
wait in its channel, and `HopsAreCreditHops` says that every step is one of the hop or none.

### CartridgeRuntime

`Drain` is the top of the loop (it reads `capacity` and starts what fits), the arms of the
`select!` are `HandlerDone` and one action for each kind of frame of the host: REQ, the
rest of the body, Cancel, CREDIT, a peer's answer, and the end of the pipe. A handler
reads its input, may call a peer (REQ, argument behind its own gate, answer), writes its
output behind its gate and returns; a detached sender may write at any time. All of them
put frames into one `outbox`, which the writer thread takes in order and filters through
the ring of ended requests (`TerminatedFlows`). `Resize` is `CapacityHandle::set`, which
wakes nobody. After the end of the pipe (`Eof`) the loop is gone and the process stays in
`writer_handle.join()`: `output_tx_sync` is still alive, so the writer's channel never closes
(see *Disagreements*). Handlers that run go on, and the writer writes what they send; a
request in the queue is not started any more. `Abort` is an error of the loop: the process
leaves at once, without waiting for the writer.

### HostRuntime

The host's loop takes an event of a process or a frame of the relay; each arm of
`handle_cartridge_frame` and `handle_relay_frame` is an action, with the maps of the code
under their names (`incoming` is `incoming_rxids`, `outgoing` is `outgoing_rids`). `Via` is
the preference between the two maps that tells a self-loop's body from its answer. `Bury`
is `handle_cartridge_death`: it sweeps the entries and answers each, numbering after the
last frame the dead process sent (`maxSeq`). A process has a generation; its events carry
it. A write may fail before the death is known (`BrokenPipes`), `Retire`, `Restore` and
`Reap` are the roster's. The relay slave is its reorder buffer's `expect`, the switch its
routing by request, both taken at once with what the host sends; `toHost` delays the other
direction.

### LiveFeed

An item is its capture number (`seq`). `ring`, `finished` (`producer_done`) and `failed`
are the `FeedState` behind the mutex, `captured`, `dropped` (`dropped_since_delivery`) and
`closed` the atomics beside it. `backend` says where the capture thread stands in `push`:
the look at `closed`, the number taken from `captured`, and the critical section (`Store`,
`EvictOldest`, `OverrunFails`) are three steps, and so are a failure set under the lock and
the close after it. `feeder` is the feeder thread: the look at the deadline, the critical
section in which it takes a failure (first), an item, or leaves, the `swap(0)` of the count
of dropped items after the lock, and the blocking send into the bounded channel. `demux`
follows the reference from its end in the main loop to the handle in the request's list;
`Cancel` and `Reap` are the main loop's, which only sees handles that are in that list.
The handler is the environment: it reads, or drops its stream at any time. A stopped or
finished capture thread that calls `finish` once more changes nothing and is left out.

### FabricRegistry and CapGraph

A definition is a cap, which names media, or a leaf. `disk` are the versioned files, `mem`
the three maps in memory with the version each entry has, `loaded` what came from disk and
not from a fetch. `Start` reads the directory and filters by the pinned manifest; `Exit` is
an exit or a kill at any step. A fetch walks from the cap to its media one network answer
at a time (`Body`), stores a leaf as it comes and the cap last; `Fail` is every way it ends
with nothing, a synchronous lookup's 500 ms included. `queue` and `inQueue` are the channel
and `fetch_in_queue`, `unseen` the revision the watchers have not looked at.

`CapGraph` adds the switch: `Offer`, `Collect`, `Compare`, `Put` are `rebuild_capabilities`
between its awaits, `Read`, `Sync`, `Build` the rebuilding of the graph, which takes the
graph's lock at `Sync`; the listener does the same when the revision has moved.

### CapUrn and MediaFlow

A tagged URN is a function from keys to *missing*, *any value* or a value. The crate that
implements tagged URNs is not in the repository: `ValuesMatch`, and nothing else, is taken
from how the code and its tests use it. `Accepts`, `IsDispatchable` with its four axes,
`Admissible`, `RuntimeOut`, `Infers`, `IsConformantOutput`, `LeastUpperBound` follow
`cap_urn.rs` and `media_urn.rs`.

`MediaFlow` walks a path. In the phase `search` each step adds an edge of the graph as
`iddfs_find_paths` would, with the media it infers; `Choose` records the path when the
breadth-first check `has_reachable_exact_target` (`Pruned`) and, for a join of several
sources, the filter of `generalize_candidates` let it through. In the phase `run` each
step finds its handler by three independent rankings (switch, host, cartridge), the
cartridge derives its label, the executor audits it and checks the hop, and `data`, which
no part of the program sees, is the type each source's data really has.

## The runs

| run | checks | shows |
|---|---|---|
| `admission_queue` | `PermitsMatchHolders`, `NoLostWakeup`, `NobodySleepsPastTheWindow`, `ImplementsPermitLine`, `EveryWaiterResolved` | two callers for one slot, an inventory change, deaths, every window of time: the controller is a fair FIFO line, and every waiter is served, refused or gone |
| `foreach_bodies` | `NeverShort`, `EveryBodyEnds`, `RegionEnds` | three bodies, two at a time, beside another plan that needs the same cartridge: no item is lost silently; unless a body panics or a broken run keeps its permits, no body waits for ever and the region ends |
| `feed` | `NothingSilent`, `LossReportedInTime`, `StopLosesAtMostOne`, `FailureNeverLooksClean`, `ClosedFeedEnds` | both overrun policies against stops, failures, deadlines and a handler that leaves |
| `group_pipeline` | `SuccessIsComplete`, `HopsAreCreditHops`, `CleanRunEnds` | two caps, a window smaller than the grant batch of the receiver, fragments, failures and early ends: success means all the output, each hop is a credit hop, and a run without a fault, whose items fit their windows, ends |
| `cartridge_main` | `TerminalIsLast`, `QueueIsWatched`, `ShutdownAnswersAll`, `EveryRequestEnds` | two requests, a peer call, a detached sender, cancellations, a changing capacity, the end of the pipe and an error of the loop: what was running at the end of the pipe is still answered |
| `switch_safety` | `OneTerminal`, `AnsweredWhenReleased`, `PermitsFollowRequests`, `CascadeReaches`, `DeadMasterHoldsNothing` | five scenarios of deaths, cancellations, peer calls, late caps and a reattach |
| `switch_live` | `EveryRequestEnds` | a death anywhere between the steps of a request and its peer call |
| `host_main` | `RoutesAreOfTheLiving`, `RightEnd`, `SeqFollows`, `RetiredWhenIdle` | one process that serves two requests and makes a call, with any two of: crash, missed heartbeat, cancel, roster change |
| `host_live` | `EveryCallEnds` | two processes of one host, one calling the other, with any two faults |
| `fabric` | `FetchedCapsHaveMedia`, `MediaFilesFirst`, `OfThePinnedSnapshot`, `GraphHasWhatLanded` | two processes in a row over one directory, killed and wiped at any point, with the graph on top |
| `media_paths` | `DataIsAsPlanned`, `OnlyARefinedHopIsRefused`, `PruneHidesNothing`, `ServedByTheCapItself` | every path the search can record in a graph of all effects, and its execution |
| `media_hops` | `HopsAreProved`, violated | a recorded path whose hop the executor refuses |

Every property of a passing run has a mutant: the definition it depends on, changed as a
plausible bug would change it, under which the run finds it violated. The mutants are
the operators marked *Mutant* in the modules; the specifications do not use them.

Further configurations, `tlc -config <X>.cfg <M>` each, are not part of the regular runs.
They are the counterexamples of the section *Disagreements* and a larger instance,
`ChainAdmission_pipelines` (module `MCChainAdmission`; `NeverWaitsForItself`,
`EveryRunEnds` for three runs whose chains meet bounded domains in one order), which passes.

### Bounds

* `Admission`: one key of at most one permit (capacity 0, no limit, is in the instance
  too), two callers, one inventory change or death, a window of two ticks. Two callers
  give a holder and a waiter, and, while the door is closed, a head and one behind it; the
  safety properties are proved for any number of callers and of changes, so the run keeps
  the smallest instance in which every step of the refinement happens. A window of two
  ticks has a beginning, a middle and an end.
* `ForEachRegion`: three bodies, two in flight, a channel of one, so that source, channel,
  semaphore and result each make the others wait; two domains of one permit each, which a
  body takes in order and the other plan takes twice; one trouble in all.
* `RelaySwitch`: two masters, two requests of the engine, two levels of peer calls, one
  probe. What may happen is bounded by `Scenarios`, a set of records of bounds (deaths,
  reattachments, RelayNotify updates of each master, cancellations, dropped receivers,
  requests made, requests that send data), and the behaviours of a run are those of every
  one of its scenarios: the sum of five small spaces, not their product. A race between two
  routines needs one instance of each, which is what the scenarios combine. `switch_safety`
  has five of them, 2.5 million states in all; `switch_live` two, each with a death at any
  point of a request and its peer call, one with caps that come late.
* `GroupChain`: two caps, the smallest chain with a forwarder, an item count above the
  window of two, items of three fragments (more than the window, and `ItemsFit`: with a window
of one they do not, see *Disagreements*), and a second cap whose
  link's window of six grants in batches of three, more than the sender's window: the
  flush before blocking is what keeps it going. That each hop is a credit hop, what a hop
  keeps, and the order and completeness of the output are proved for any windows, caps and
  items.
* `CartridgeRuntime`: two requests and one slot, which may become unlimited; output of two
  chunks and an argument of two behind windows of one; one cancellation per request; a ring of two.
* `HostRuntime`: three requests of one process, or two of two, two troubles. Two troubles
  give a death after a cancellation, a death of the next process, a retirement that is
  taken back. More requests meet no new table entry: all maps are by request.
* `LiveFeed`: rings of one and two items, a channel of one, four captured items, two
  Cancels. Four items fill ring, hand and channel and overrun them; a ring of two tells the
  oldest item from the newest.
* `CapGraph`: a cap of two media, so that a fetch can be cut between them, two snapshots
  that differ in one of the media, two starts, one wipe, one change of an offer. The
  registry's and the graph's invariants are proved for any number of each.
* `MediaFlow`: three keys, two values, ten definitions (one abstract) chosen to have every effect, a
  sequence input and output, a refinement of another cap, a fallback that could serve
  anything, and an umbrella; seven bindings, eight targets, two orders of the table, paths
  of up to five steps. That the planned types hold and which hops are refused is proved for
  any definitions; the ranking compares numbers (10000, 100 and 1 times a score) and is
  checked on these.

### Fairness

tokio polls every woken task, so each task's next step, once enabled, is weakly fair.
Time passes (`Tick`), idle timeouts fire. A permit held is released, because the request
that owns it ends: that is the liveness of `RelaySwitch`, which assumes in turn that a
cartridge that runs a job ends it; a cartridge that never answers is reported by the
activity timeout, which only warns. In `CartridgeRuntime` the host ends the bodies it
began, grants what it reads and ends the calls it serves; in `HostRuntime` so do the
handlers and whoever is elsewhere. In `GroupChain` the links deliver and a handler that
can go on does. The threads of a feed run, a push that has begun goes on, and a handler
reads its stream or drops it; no device need capture, fail or finish. A source of a region
need neither end nor fail.
Nothing is assumed of callers beginning requests, of waiters giving up, of
cancellations, deaths, reattachments, rosters, changes of capacity, or the caps a master
advertises. `CHECK_DEADLOCK` is off everywhere: when the bounds are used up and all
requests have ended, the system rests.

Liveness is stated with the exceptions the code has, each of which is a definition of its
own: `HangsOnOutput` and `HangsOnArgument` (`CartridgeRuntime`), `Faulty` and `ItemsFit`
(`GroupChain`), `Panicked` and `PermitsKept` (`ForEachRegion`), the end of the host's loop (`up`).

## What is proved

`AdmissionProofs`, of `Admission`, for any finite set of callers and any keys,
masters, window, capacity and amount of churn (`ConstantsAssumption`):

* `TypeCorrect`: `Spec => []TypeOK`.
* `PermitsConserved`: `Spec => []PermitsMatchHolders`. Inductive with `TypeOK`: only a grant
  adds to a key's count and to its holders, only a release takes from both.
* `QueueExact`: `Spec => []QueueMatchesWaiters`. Inductive with `TypeOK`; lemmas say what
  append, tail and removal do to the elements of a sequence without duplicates.
* `WakeupsNeverLost`: `Spec => []NoLostWakeup`. The argument: a step that makes a parked
  caller eligible either changes a slot, and then its task owes a notification until it
  gives it, or is a notification, and then wakes every parked caller (`RestfulSteps`).
* `WindowMeasuresTheOutage`: `Spec => []NobodySleepsPastTheWindow`. The same split, with
  the tick, which ages the outage and runs down the timeout together.
* `LineIsKept`: `Spec => PermitLine!Spec`, the safety half of the refinement the run
  checks. Each step of the controller is a step of the line or none: configuring is the
  door's, a grant takes the head of the line, and removing a ticket from the middle keeps
  the order of the others (`RemovalKeepsOrder`, `QueueExact`).

`RegionProofs`, first of `LiveFeed`, for any selectors, channel capacity, number of items
and of Cancels:

* `TypeCorrect`: `Spec => []TypeOK`, the bounds of ring and channel included; inductive
  with `Stages`, the order in which a feed is opened.
* `EveryItemAccounted`: `Spec => []NothingSilent`, inductive with these: each of the seven
  steps that move an item takes from one account what it adds to another (`UnmovedSteps`
  says that the others move none).
* `LossesReportedInTime`: `Spec => []LossReportedInTime`. Inductive with `InOrder`: the ring
  holds consecutive numbers, so the item the feeder takes is the one after all that were
  delivered, reported or dropped, and what is dropped later only adds to the count.
* `StopDrains`: `Spec => []StopLosesAtMostOne`, from `EndedDrained`: after a clean end the
  capture thread is done or will find the feed closed at its next push.
* `FailureIsNeverClean`: `Spec => FailureNeverLooksClean`, step by step.

then of `ForEachRegion`, for any number of bodies and permits, any pipelines and policies, and
any runs beside the region (`RegionAssumption`):

* `RegionIsWhole`: `RegionSpec => []NeverShort`. What the driver has been told and what is on its
  way to it (`Log`) is one report each of bodies that are over, with the result their
  pipelines came to, which no step changes any more (`LogInv`). The driver ends when it has
  as many reports as it has spawned bodies; of distinct bodies, these are all of them
  (`AllTold`, by counting). Therefore a body that panics, which reports nothing, leaves the
  region waiting (`RegionEnds`), never short.
* `InFlightBounded`: never more bodies than the semaphore has permits.

`GroupChainProofs`, of `GroupChain`, for any number of caps and items, any windows, any sizes
of the caps' outputs, and any caps that collect, fail or stop early (`ChainAssumption`):

* `OutputInOrder`: `Spec => []InOrder`; `SuccessMeansAll`: `Spec => []SuccessIsComplete`.
  Inductive as `Orderly`, with the types and `Sealing` (a terminal frame is the last of its
  channel and its cap has stopped). `Orderly` gives each cap four numbers which the code
  does not keep: the chunks it has been sent, has taken, has written, and the items it has
  read. Each channel then holds the consecutive chunks between two of these numbers, an END
  is in a channel only when all before it has been sent, and what is collected is what the
  last cap was relieved of. The chunk of number `n` is fragment `n % F` of item `n \div F`,
  and only for those two are facts about products needed (`Division`, `Digits`).
* `StreamsAreHops`: `Spec => HopsAreCreditHops`, the refinement the run checks: every step, of the
  feed, a demultiplexer, a handler, a forwarder or the collector, is for each input stream a
  step of `CreditHop` or none. The chunks on the wire and the credits on their way are sums
  over the frames of a channel, which is shared with the cap's output: lemmas on `Total` say
  what an appended or a removed frame does to them.
* `Conservation`, `NeverViolated`, `Bounded`, `FlushReleases`: what `CreditHop` promises, of every
  input stream. Inductive as `HopInv`: the sum of the five places of a credit (equal to the
  window while both ends are there, at most the window after) and the receiver's account,
  which with what the receiver holds and owes is its own window. The rest is arithmetic.
* `OutputCreditsGoRound`: `Spec => []OutputCredits`, the same account for the output streams,
  which the engine keeps without a demultiplexer (`owedOut`, `grants`).
* `TypeCorrect`: `Spec => []TypeOK`, whose bounds on gates and accounts are these circles.

`RelaySwitchProofs`, of `RelaySwitch`, for any masters, requests, peer calls and scenarios:

* `TypeCorrect`: `Spec => []TypeOK`. Inductive as `Shape`, which adds what the program
  counters say of each other (`HandOK`, `ProbeOK`, `InboxOK`).
* `AtMostOneTerminal`: `Spec => []OneTerminal`; `CallersAnswered`:
  `Spec => []ExternalsAnswered`, the half of `AnsweredWhenReleased` that is about the
  engine's callers; `PermitsAreRequests`: `Spec => []PermitsFollowRequests`;
  `CascadeIsComplete`: `Spec => []CascadeReaches`. They are conjuncts of one inductive
  invariant, `Ledger`. It says of every request where its answer is: not due, owed by
  exactly one task (the pump's hand, an item in one cancellation's list of work), or
  delivered; so two tasks that remove the same request cannot both answer, and none can
  leave it to the other. A step that ends nothing, owes nothing and delivers nothing keeps
  all of it at once (`AsideKept`).
* Two more hold under premises on the scenarios, with any number of requests, cancellations
  and dropped receivers. In `NoUpdates` no connected master sends a RelayNotify.
  * `DeadMasterSwept`: `Spec => []DeadMasterHoldsNothing`, if every scenario has `NoUpdates`,
    and no master comes back or one dies at most.
  * `ReleasedAnswered`: `Spec => []AnsweredWhenReleased`, both halves, if every scenario has
    `NoUpdates` and no master comes back, or makes no peer calls.

  `Wiring` says, in any scenario, who may be holding what: a caller handles one death, a
  request on the pump's hand went where the table says, a live probe is the one under way,
  a peer call in the table is one a host made. `NothingProbed` is what `NoUpdates` buys: no
  master is held back and the probe driver sleeps. Then `NoneOutOfService`, where no master
  comes back: a connected master is healthy, and a death is handled, or its end read, only of
  a connection that broke; `FirstDeath`, where one dies at most: before that nothing has
  happened. `SweptOrFindsOut` strengthens `DeadMasterHoldsNothing`: a master is lost as soon
  as it is cut off and either out of service or its end read, and from then on each of its
  requests is in a sweep, or its caller, the pump or the probe driver is about to find out.
  The ways to become lost are the cases of `Losing`. `PeersAnswered` starts when the REQ of a
  peer call is about to be written; as its source, if connected, is healthy, the sweep
  answers it. The five scenarios of `switch_safety` satisfy these premises but for one:
  `LateCaps` has an update and is outside those of `DeadMasterSwept`.

`HostRuntimeProofs`, of `HostRuntime`, for any cartridges, requests, bounds and rosters:

* `TypeCorrect`: `Spec => []TypeOK`; `EntriesAreOfTheLiving`: `Spec => []RoutesAreOfTheLiving`.
  Inductive as `Kept`, which adds what a process knows (`Known`), where a frame on its way
  is addressed, and that no event is of a generation to come.
* `FramesReachTheirEnd`: `Spec => []RightEnd`, where no request has both its ends in this
  host (`OneEndHere`). With one that has, the property is false: `HostRuntime_self_loop`.
* `NumbersFollow`: `Spec => []SeqFollows`, and `RetiredServesNothing`:
  `Spec => RetiredWhenIdle`, from the invariant `Numbered`: every number between the last
  one the host has seen of a flow and the next one its process will give is in an event
  that waits, in order, so a number made up for a dead process is the right one. Both
  assume `NeverForTheLiving`: that no request has both ends here or that no pipe breaks
  before the death behind it is known. Otherwise a REQ or body that cannot be written to
  the callee of a self-loop call makes the host answer on the flow of a handler that may
  still live (`host_runtime.rs:1801`), and that handler's next frame leaves a gap; TLC finds
  it when `HostRuntime_self_loop` is given `BrokenPipes = TRUE` and `SeqFollows`.

`CartridgeRuntimeProofs`, of `CartridgeRuntime`, for any finite set of requests and any
callers, capacities, windows and chunks:

* `QueueWatched`: `Spec => []QueueIsWatched`. Inductive as `Control`: a queued request has no
  handler, an active one has a task or a notice of its end, and `running_handler_count` is
  the number of the active ones. So the loop, which looks at its queue and the capacity
  before it sleeps, leaves a request there only if something runs.
* `ShutdownLosesNothing`: `Spec => []ShutdownAnswersAll`: when the loop has seen the end of the
  pipe and the writer has caught up, every request the host sent is answered, or still runs,
  or is in the queue that nobody looks at any more. Inductive with `Owed`: the answer
  of a handler that has returned is on the wire or in the channel to the writer, and what
  the writer discards is of a request that has its answer. Nothing of the kind holds of the
  error exits (`Abort`).
* `NothingFollowsTheTerminal`: `Spec => []TerminalIsLast`, where the process meets no more
  requests than the writer remembers (`RingSuffices`; the code remembers 1024,
  `cartridge_runtime.rs:5567`). A frame of a detached sender may come any time after the
  terminal one, so beyond that number the memory does not suffice. Inductive as `Gate`: a
  request with a terminal frame on the wire is remembered, and that frame is the last.

`CapGraphProofs`, of `FabricRegistry` and `CapGraph`, for any caps, media, snapshots, tasks,
starts and wipes:

* `RegistryTypeCorrect`: `RegistrySpec => []RegistryTypeOK`.
* `OneSnapshot`: `RegistrySpec => []OfThePinnedSnapshot`. `Retain` at the start and `Store`
  with the pinned version afterwards are the only writers of the maps.
* `FetchesAreAtomic`: `RegistrySpec => []FetchedCapsHaveMedia`. Inductive with `FetchOK`: a
  fetch that has come to a cap's `at`-th medium has every earlier one in memory; entries
  of memory are never dropped while the process runs.
* `MediaAreWrittenFirst`: `RegistrySpec => []MediaFilesFirst`. Inductive with `FilesInv`: until
  the directory is cleared for the first time, whatever is in memory has a file, so the
  media a fetch found in memory have theirs; and a fetch past its own body is of a pinned
  definition.
* `NoKeyForgotten`: `RegistrySpec => []QueueTracksKeys`, with lemmas on sequences without
  duplicates.
* `Refines`: `CapGraph`'s `Spec => RegistrySpec`, step by step with the same variables;
  so `CapsOfTheSwitchHaveMedia`, `SwitchKeepsTheSnapshot`, `SwitchForgetsNoKey` and
  `SwitchWritesMediaFirst` are the registry's theorems, read off.
* `GraphIsComplete`: `Spec => []GraphHasWhatLanded`. Inductive with: one task builds at a
  time; what a building task found is what is in memory, or the revision is unseen; the
  graph is what landed of its basis, or the listener is awake or will be.

`MediaFlowProofs`, first of `CapUrn`, for any finite or infinite set of keys and values:

* `JoinIsAbove` (every source conforms to the join), `EffectsRespectTheOrder` (an effect
  never turns a conforming type into one that does not conform),
  `DerivedLabelPassesTheAudit` (a handler's derived label always passes `EffectAudit`).
* `DispatchTransitive`: where no bare key stands between two exact values and the middle
  cap names its input; `DispatchIsNotTransitive`: a counterexample without the first
  condition, for any key and two values. `DispatchMonotone`: narrowing a provider keeps it
  dispatchable, under the same conditions. `EquivalentWithOtherOutput` and
  `PassthroughServesIdentity` say what the code does where a reader may expect otherwise
  (see *Disagreements*).

then of `MediaFlow`, for any graph, sources, targets and tables:

* `PlannedTypesHold`: `Spec => []DataIsAsPlanned`; `OnlyRefinedHopsRefused`:
  `Spec => []OnlyARefinedHopIsRefused`. The inductive `FlowInv` says that the strand is a
  chain of inferences that begins at the join: each step's output is what its cap infers
  from the step before, and the data of every source conforms to the step it has come to.
  `EffectsRespectTheOrder` takes it one step further, `DerivedLabelPassesTheAudit` excludes
  the audit as a reason to refuse, and reflexivity of dispatch (`InstalledIsClosest`) the
  absence of a handler.
* `NothingIsPruned`: `Spec => []PruneHidesNothing`, for a search of any depth. The waves of the
  reachability check are a recursive function over the numbers; that it exists and that
  each wave holds the one before is by induction, with the set of the numbers for which it
  holds (`SetInduction`, `Iteration`). Then `InReach`: where the search stands after `n`
  steps is in the `n`-th wave.
* `NothingElseIsTaken`: of every executed step, the cap that is charged and the one whose
  handler runs are as specific as the request, whatever else is installed: no fallback and
  no refinement is taken in place of a cap that is there.
* `TheThreeChoicesAgree`: `Spec => ServedByTheCapItself`, where no other installed cap ties with
  one of the graph (`NoTies`). The code does not exclude ties: then the order of
  installation decides, in each of the three components on its own.

Only model-checked, and why:

* Liveness (`EveryWaiterResolved`, `RegionEnds`, `EveryBodyEnds`, `CleanRunEnds`,
  `EveryRequestEnds`, `EveryCallEnds`, `ClosedFeedEnds`, the fairness in
  `ImplementsPermitLine`): fairness and `ENABLED` are outside the prover.
* The action property `DeathOnlyOfOwnSession` and `PeerAlwaysAnswered`, which the code does
  not keep (see below).
* What the premises of the switch's last two theorems leave out. With one update
  `switch_safety` checks a scenario; beyond that the code does not keep them. A master that
  withdraws its caps and offers them again is held back with requests under way: if it dies
  then, they stay (`RelaySwitch_probe_pending`); if it made a peer call, it is connected but
  the sweep does not answer it; and of two overlapping rebuilds the older picture, with the
  master in it, may be the last. A master that comes back may be taken for dead by what is
  left of its old death (`RelaySwitch_stale_eof`), or come back out of service, its own
  probe having failed: it is connected and not healthy too, and a peer call of a request
  that was on its way to it is swept without an ERR.
* What the other theorems' assumptions leave out: `RightEnd` and `SeqFollows` for a host with calls
  between its own processes (the run `host_live` has one), `TerminalIsLast` beyond the
  writer's memory, ties in the ranking.

## Disagreements met

One is a finding of `PROJECT.json`, with the run that shows it:

* `media_hops`: the planner infers types from the data, the executor checks the labels
  derived from declared types, so a hop after a cap whose effect is `none` or `patch` may be
  refused although `orchestrator/executor.rs` says at the check that the plan "already
  proved" it.

The others have a configuration of their own, which TLC answers with a counterexample
(module in parentheses):

* `ChainAdmission_reentrant` (`MCChainAdmission`, `EveryRunEnds`).
  `split_chains_at_same_domain_bounded` compares each group with the one before it only, so
  a chain whose bounded cartridge recurs after a group of another domain stays one segment,
  and its second use waits for the permit of the first, which is fed only once all are open
  (`executor.rs:2214`; line 1829 calls adjacent caps "the ONLY capacity case that must
  split"). Two runs that meet two bounded cartridges in opposite orders wait for each other
  for the same reason.
* `ChainAdmission_abandoned` (`MCChainAdmission`, `FailedRunsHoldNothing`). When opening a
  later group fails, `?` leaves `run_group_chain`; the invocations opened before are neither
  cancelled nor released (`executor.rs:2337`; line 2674: "Cancel the chain and fail hard";
  `docs/17.2-error-handling.md:140`).
* `GroupChain_upstream_error` (`MCGroupChain`, `RunEnds`). An ERR, or an END without success,
  of a cap that is not the last ends its forwarder, but the next cap gets neither END nor
  Cancel, and the forwarders are joined only after the collector, which waits for the last
  cap without a limit (`executor.rs:3433`; `docs/15.2-execution.md:100`: "ERR", "fail"). The
  run keeps the permits of all its caps: a body of a region that meets this never reports,
  and its region never ends (`PermitsKept`).
* `GroupChain_pipeline` with `Window = 1` and `ItemsFit` taken from `CleanRunEnds` (`MCGroupChain`).
  A fragmented item takes the only credit for its first fragment, which comes back when the
  whole item was consumed: it never finishes arriving (`cartridge_runtime.rs` credits
  continuation fragments only; `docs/12.4-streaming.md:158`: "an item spanning more frames than
  the credit window can always finish arriving").
* `CartridgeRuntime_late_gate` (`MCCartridgeRuntime`, `CancelledProducerNeverHangs`). A Cancel
  closes the gates registered so far; an output stream started afterwards fills its window
  and waits for ever, and further Cancels are skipped (`cartridge_runtime.rs:1870`; line 6019:
  "a cancelled producer must not hang on credit").
* `HostRuntime_self_loop` (`MCHostRuntime`, `RightEnd`). For a peer call between two
  cartridges of one host a frame goes to the handler until the END of the body has passed,
  whichever way it goes; a handler that answers while its input is still coming is sent its
  own answer (`host_runtime.rs:1739`; line 1708 argues from the order of one direction).
* `RelaySwitch_probe_pending` (`MCRelaySwitch`, `DeadMasterHoldsNothing`). A master held back
  for an identity probe is not healthy, so its death is taken as already handled and ends
  none of its requests (`relay_switch.rs:3863`; `docs/test-parity.md:1580`).
* The same configuration with `ProbedBeforeRouted` alone. A RelayNotify writes the new caps
  (`relay_switch.rs:3778`) before it takes the master out of service (3786), and a rebuild of
  the cap table reads the health of a slot (3978) before its caps (3979). A rebuild by another
  task around these two writes finds the master healthy and with caps, and it is routed to
  before its probe (the comment at 3751: "we must probe it end-to-end before letting the new
  caps become routable").
* `RelaySwitch_stale_eof` (`MCRelaySwitch`, `DeathOnlyOfOwnSession`). A death is known by the
  slot and noticed twice, by the failed write and by the end of file; the second notice may
  act on the connection that has taken the slot meanwhile (`relay_switch.rs:3129`; the comment
  at 2813 rules out the reader, not what it has sent).
* `RelaySwitch_peer_unsent` (`MCRelaySwitch`, `PeerAlwaysAnswered`). The REQ of a peer call that
  cannot be written to a master already marked unhealthy is removed without an answer
  (`relay_switch.rs:1991`; the comment at 3446 asks for one).
* `LiveFeed_unmarked_jump` (`MCLiveFeed`, `JumpsAreMarked`). The count of lost items is read
  after the lock under which the item was taken, so a loss in between is marked one item
  early (`live_feed.rs:410`; `docs/12.4-streaming.md:111`).
* `LiveFeed_stop_lost` (`MCLiveFeed`, `StopEndsTheRequest`). A Cancel before the device is
  open closes nothing, and no later one is heard (`cartridge_runtime.rs:5972`; the comment at
  6011 expects the handler to exit).
* `CapGraph_upgrade` (`MCCapGraph`, `CapsHaveTheirMedia`). The pin's filter drops a media
  definition whose version changed and keeps the cap that names it, so a cap is in memory
  without its media after a change of snapshot (`registry.rs:501`; lines 17 to 21 guarantee
  the opposite of any cap in the cache). Clearing the cache while a fetch is between two
  media has the same effect in memory.
* `CapGraph_stale_rebuild` (`MCCapGraph`, `GraphOfTheAggregate`). A rebuild that read an older
  aggregate may be the last to take the graph's lock, and the graph stays older than the
  offers (`relay_switch.rs:4102`; `live_cap_fab.rs` trusts "subsequent LiveCapFab refreshes").
* `MediaFlow_generalize` (`MCMediaFlow`, `EveryMemberIsTaken`). `generalize_candidates` asks
  only of the entry cap whether it takes every member; a first cap that keeps the type lets
  the join, whose tags have any value, through to a cap that takes one value of it
  (`plan_engine.rs`, the filter marked SOUNDNESS).

Met while reading, without a configuration:

* Switch. A request is in the table before its REQ is written, so a Cancel may be written
  first: the host ignores it, then starts the request with nobody left to stop it.
  `acquire_cap_admission` configures a key with a capacity read before an await; a death in
  between is overwritten and the outage ends early. The probe driver marks a master healthy
  on the success of its probe even when it died after answering. The pump clones a channel
  under the lock and sends after it, so a chunk may follow the ERR of a cancellation. Two
  overlapping `rebuild_cap_table` may end with the older picture.
* Chains. A last cap that ends early while the feed waits for credit fails the run although
  it ended well, and the comment of `forward_frames`, "stopping here is success, not a
  forwarding failure", holds only while the switch still knows the next request.
  `docs/15.2-execution.md` has the activity timeout fail a run, the code only warns.
* Cartridge. The argument gate of a peer call is closed by nobody when the call ends early
  (`HangsOnArgument`). The deferred CANCELLED never reaches the wire, since the handler's own
  END or ERR precedes it. The end of the pipe does not end a handler that waits for input or
  a peer, and a request still in the queue then is never started nor refused. Nor does it end
  the process: `output_tx_sync`, which the main function keeps (`cartridge_runtime.rs:5545`),
  keeps the writer's channel open, and the join of the writer (6141) waits for ever, where
  `docs/13.1-cartridge-runtime.md:133` has "Break the loop and shut down"; only a kill is left.
  The error exits (5772, 6126) return without waiting for the writer and may lose answers that
  were sent to it. `CapacityHandle::set` wakes nobody, and a later REQ may overtake queued ones. A
  handler that panics never reports. `recv_data` never grants.
* Host. The path for a dead writer removes the requester's entry too, so a self-loop's ERR
  is dropped as a straggler. A failed spawn, or a REQ to a cartridge whose writer has
  failed, ends the whole host loop. An entry of `incoming_response_done` whose body never
  ends stays, and its retired cartridge drains only at the timeout of 600 s. A body that
  follows a request refused with NO_HANDLER is counted `no_route`.
* Registry. A background fetch that fails is dropped, though comments promise a retry. With a
  pin, `unwrap_or(0) == version` keeps flat files of definitions the manifest does not name.
  Of two versions on disk the one `read_dir` gives last is read. `clear_cache` says the next
  lookup fetches the manifest again; the one in memory stays.
* Regions. A body that panics never reports, and the driver, which keeps a sender of its own,
  waits for ever. A failed source or callback returns while bodies run on, and
  `PlanSpoolCleanup` removes the files they read.
* URNs. `is_equivalent` holds of two caps that differ in their outputs when one says `media:`
  (theorem `EquivalentWithOtherOutput`; `docs/04` §2.4 calls it the same capability). Dispatch
  is not transitive (theorem `DispatchIsNotTransitive`; the table in `docs/07` says it is). The
  third condition of monotonicity in `docs/07` §7.4 is the wrong way round (`DispatchMonotone`
  has the right one). Any cap with effect `none` serves the identity
  (`PassthroughServesIdentity`), so `find_handler(CAP_IDENTITY)` takes one for the standard
  handler. `CapMatcher::find_best_match` asks `request.accepts(cap)`, its comment the opposite.
  A preferred cap is known to the switch only; host and cartridge rank again without it.

## Not modelled, and why

* Text and encodings (CBOR framing, URN syntax, the machine notation), file-system and
  device I/O, packaging and signatures, and the command line have no concurrent state; what
  could be checked of them is a function against a definition.
* Tests make up much of the source files: the bigger ones are half tests.
* Switch: sequence numbers, credit and LOG frames, statistics, its use as a relay for an
  outer engine. Host: attaching a binary, LOG frames, the collection of old entries, the
  content of heartbeats. Cartridge: heartbeats, LOG frames, `recv_data`, a writer that stops at a
  broken pipe. The in-process host speaks the
  host's protocol without processes.
* Chains: the extra argument streams, which are sent after the main one has ended; the
  resume log; stdin of a whole plan. Plans: trunk and post-region segments, sinks, progress,
  the stall warning, several chains in one body.
* Registry: pin 0 and its TTL, the bootstrap of the manifest, seeding of the identity,
  unparsable files, the bound of sixteen concurrent prefetches, the extension index,
  `clear_cache` in the same process during a fetch.
* URNs and planning: the qualified forms (`?x`, `!x`, `x!=v`, `x?=v`), `media:void`, preferred
  caps, narrowing of abstract caps, Collect and Zip, title queries, exploration caps, labels a
  handler picks itself (the audit covers them at run time).

## Plan

1. `FrameOrder`: numbering, writing and removing a flow under separate locks into the
   reorder buffer; order (proved), occupancy below the number of writers.
2. The in-process host as an implementation of the same abstraction as `HostRuntime`, and the
   hosts of `RelaySwitch` refined by `HostRuntime`.
3. Pure operators against definitions: limit negotiation, cardinality, plan topology.
