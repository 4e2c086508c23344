---------------------------- MODULE ForEachRegion ----------------------------
(***************************************************************************)
(* A ForEach region of a plan (orchestrator/execute_plan.rs): a source     *)
(* task feeds items into a small channel, the region's driver spawns one   *)
(* body per item, bounded by a semaphore, and the bodies report over an    *)
(* unbounded channel.  A body is a run of ChainAdmission: it opens its     *)
(* pipeline under the admission of its cartridges, side by side with the   *)
(* other bodies and with the runs of other plans.                          *)
(*                                                                         *)
(* Left out: progress and logs, the stall warning, previews.               *)
(***************************************************************************)
EXTENDS ChainAdmission, SequencesExt

CONSTANTS
  Bodies,      \* The runs 1 .. Bodies are the bodies of the region, by item index
  InFlight,    \* REGION_BODY_MAX_IN_FLIGHT
  Buffered,    \* REGION_SOURCE_CHANNEL_CAP
  Policies,    \* foreach_partial_failure_policy: "fail" or any other word
  MaxTroubles  \* bound: breaks, refusals, panics and failing callbacks in all

Body == 1 .. Bodies

ASSUME RegionAssumption ==
  /\ Bodies \in Nat
  /\ Body \subseteq Runs
  /\ \A i, j \in Body : Chain[i] = Chain[j]      \* one body_subplan
  /\ InFlight \in Nat \ {0} /\ Buffered \in Nat \ {0}
  /\ "none" \notin Policies
  /\ MaxTroubles \in Nat

VARIABLES
  source,      \* "running" | "ended" | "failed": the source task
  produced,    \* Items the source has sent; dispatched + 1 .. produced are in the channel
  policy,      \* The partial-failure policy, asked for in the end
  driver,      \* "running" | "ok" | "failed": run_region_bodies
  sourceDone,  \* source_done
  dispatched,  \* Bodies spawned: the items 1 .. dispatched
  task,        \* [Body -> "none" | "running" | "reported" | "over" | "panicked"]
  done,        \* done_rx: what bodies have reported, as <<item, success>>
  outcomes,    \* body_outcomes, one per completed body
  refusing     \* Callbacks that returned an error

region == <<source, produced, policy, driver, sourceDone, dispatched, task, done, outcomes, refusing>>
regionVars == <<chain, region>>

RegionTypeOK ==
  /\ ChainTypeOK
  /\ policy \in Policies \cup {"none"}
  /\ source \in {"running", "ended", "failed"} /\ driver \in {"running", "ok", "failed"}
  /\ sourceDone \in BOOLEAN
  /\ produced \in 0 .. Bodies /\ dispatched \in 0 .. produced
  /\ produced - dispatched <= Buffered
  /\ task \in [Body -> {"none", "running", "reported", "over", "panicked"}]
  /\ done \in Seq(Body \X BOOLEAN) /\ outcomes \in Seq(Body \X BOOLEAN)
  /\ refusing \in 0 .. MaxTroubles

RegionInit ==
  /\ ChainInit
  /\ source = "running" /\ produced = 0 /\ policy = "none"
  /\ driver = "running" /\ sourceDone = FALSE /\ dispatched = 0
  /\ task = [i \in Body |-> "none"]
  /\ done = <<>> /\ outcomes = <<>> /\ refusing = 0
------------------------------------------------------------------------------
(* The source task: region_source_from_memory, _spool, _live               *)

\* Once the driver has left, the send fails and the task returns: it is the
\* same as a source that sends nothing more.
MayProduce == source = "running" /\ driver = "running" /\ produced - dispatched < Buffered

Produce ==
  /\ MayProduce /\ produced < Bodies
  /\ produced' = produced + 1
  /\ UNCHANGED <<chain, policy, source, driver, sourceDone, dispatched, task, done, outcomes, refusing>>

\* Items in memory or in a spool come to an end by themselves, a live feed
\* when it is stopped or its device has finished.
SourceEnds ==
  /\ source = "running"
  /\ source' = "ended"
  /\ UNCHANGED <<chain, policy, produced, driver, sourceDone, dispatched, task, done, outcomes, refusing>>

\* read_spool_item fails, the device dies: the error follows the items.
SourceFails ==
  /\ MayProduce
  /\ source' = "failed"
  /\ UNCHANGED <<chain, policy, produced, driver, sourceDone, dispatched, task, done, outcomes, refusing>>
------------------------------------------------------------------------------
(* The driver: a biased select, completions first                          *)

Panicked == {i \in Body : task[i] = "panicked"}
Troubles == breaks + refusals + refusing + Cardinality(Panicked)

Completed == Len(outcomes)
Succeeded == {i \in Body : <<i, TRUE>> \in ToSet(outcomes)}
Failed == {i \in Body : <<i, FALSE>> \in ToSet(outcomes)}

\* _permit lives as long as the body's task.
Free == InFlight - Cardinality({i \in Body : task[i] \in {"running", "reported"}})

TakeOutcome ==
  /\ driver = "running" /\ done # <<>>
  /\ outcomes' = Append(outcomes, Head(done))
  /\ done' = Tail(done)
  /\ \/ UNCHANGED <<driver, refusing>>
     \/ /\ Troubles < MaxTroubles               \* body_outcome_fn returned Err
        /\ refusing' = refusing + 1
        /\ driver' = "failed"
  /\ UNCHANGED <<chain, policy, source, produced, sourceDone, dispatched, task>>

\* The arm that takes a permit, then an item; it is dropped, permit and all,
\* whenever another arm is ready, and no item is lost by that.
ItemArm == driver = "running" /\ done = <<>> /\ ~sourceDone /\ Free > 0

Dispatch ==
  /\ ItemArm /\ produced > dispatched
  /\ dispatched' = dispatched + 1
  /\ \/ /\ task' = [task EXCEPT ![dispatched + 1] = "running"]
        /\ UNCHANGED <<driver, refusing>>
     \/ /\ Troubles < MaxTroubles               \* foreach_items_fn returned Err
        /\ refusing' = refusing + 1
        /\ driver' = "failed"
        /\ UNCHANGED task
  /\ UNCHANGED <<chain, policy, source, produced, sourceDone, done, outcomes>>

SourceIsOver ==
  /\ ItemArm /\ produced = dispatched /\ source = "ended"
  /\ sourceDone' = TRUE
  /\ UNCHANGED <<chain, policy, source, produced, driver, dispatched, task, done, outcomes, refusing>>

\* Mutant: a source that fails is one that has no more items.
EndOfItems ==
  /\ ItemArm /\ produced = dispatched /\ source = "failed"
  /\ sourceDone' = TRUE
  /\ UNCHANGED <<chain, policy, source, produced, driver, dispatched, task, done, outcomes, refusing>>

\* The region's input is incomplete: no policy applies, and the bodies under
\* way go on with nobody to report to.
SourceError ==
  /\ ItemArm /\ produced = dispatched /\ source = "failed"
  /\ driver' = "failed"
  /\ UNCHANGED <<chain, policy, source, produced, sourceDone, dispatched, task, done, outcomes, refusing>>

PolicyAccepts == Failed = {} \/ (policy' # "fail" /\ Succeeded # {})

FinishRegion ==
  /\ driver = "running" /\ sourceDone /\ Completed >= dispatched
  /\ policy' \in Policies
  /\ driver' = IF PolicyAccepts THEN "ok" ELSE "failed"
  /\ UNCHANGED <<chain, source, produced, sourceDone, dispatched, task, done, outcomes, refusing>>
------------------------------------------------------------------------------
(* The bodies                                                              *)

\* run_subplan: a step of the body's pipeline.  Other plans' runs go on anyway.
Started(r) == r \in Body => task[r] = "running"
RunSteps(r) ==
  Started(r) /\ RunNext(r) /\ UNCHANGED region /\ Troubles' <= MaxTroubles

\* done_tx.send; nobody listens when the driver has left.
Report(i) ==
  /\ task[i] = "running" /\ pc[i] \in {"done", "failed", "aborted"}
  /\ task' = [task EXCEPT ![i] = "reported"]
  /\ done' = IF driver = "running" THEN Append(done, <<i, pc[i] = "done">>) ELSE done
  /\ UNCHANGED <<chain, policy, source, produced, driver, sourceDone, dispatched, outcomes, refusing>>

\* Mutant: the permit outlives the body.
KeepPermit(i) == task[i] = "reported" /\ UNCHANGED regionVars

\* The task returns, and with it goes the permit.
ReturnPermit(i) ==
  /\ task[i] = "reported"
  /\ task' = [task EXCEPT ![i] = "over"]
  /\ UNCHANGED <<chain, policy, source, produced, driver, sourceDone, dispatched, done, outcomes, refusing>>

\* A body that panics (in a callback of the caller's, say) is unwound: its
\* permit is back, its invocations are dropped like those of an aborted run,
\* and it never reports.  The driver holds a done_tx of its own, so done_rx
\* does not close either.
Panic(i) ==
  /\ Troubles < MaxTroubles
  /\ task[i] = "running" /\ pc[i] \in {"opening", "queued", "streaming"}
  /\ task' = [task EXCEPT ![i] = "panicked"]
  /\ pc' = [pc EXCEPT ![i] = "aborted"]
  /\ queue' = [d \in Domains |-> SelectSeq(queue[d], LAMBDA v : v[1] # i)]
  /\ UNCHANGED <<first, next, open, broken, counters>>
  /\ UNCHANGED <<policy, source, produced, driver, sourceDone, dispatched, done, outcomes, refusing>>

\* The runtime drops what a panicked body left in the switch, as it does for
\* any aborted run.
PanickedSpeaks(i) ==
  /\ task[i] \in {"reported", "over", "panicked"}
  /\ \E g \in Groups(i) : OrphanSpeaks(i, g)
  /\ UNCHANGED region

Driver == TakeOutcome \/ Dispatch \/ SourceIsOver \/ SourceError \/ FinishRegion

RegionNext ==
  \/ Produce \/ SourceEnds \/ SourceFails
  \/ Driver
  \/ \E r \in Runs : RunSteps(r)
  \/ \E i \in Body : Report(i) \/ ReturnPermit(i) \/ Panic(i) \/ PanickedSpeaks(i)

\* Every task that can run runs, and a cartridge that was fed answers.
\* Nothing is asked of the source: a live one need neither fail nor end.
RegionFairness ==
  /\ WF_regionVars(Driver)
  /\ \A i \in Body : WF_regionVars(Report(i)) /\ WF_regionVars(ReturnPermit(i))
  /\ \A r \in Runs :
       /\ WF_regionVars(Started(r) /\ Proceed(r) /\ UNCHANGED region)
       /\ WF_regionVars(Started(r) /\ (\E g \in Groups(r) : End(r, g)) /\ UNCHANGED region)

RegionSpec == RegionInit /\ [][RegionNext]_regionVars
FairRegionSpec == RegionSpec /\ RegionFairness
------------------------------------------------------------------------------
(* Properties                                                              *)

\* A region that succeeds never ends silently short: its source came to its
\* end and did not fail, every item has exactly one outcome, the one its
\* pipeline came to, and a body that failed is passed over only under a policy
\* that tolerates it, beside one that succeeded.
NeverShort ==
  driver = "ok" =>
    /\ source = "ended" /\ Completed = produced
    /\ \A i \in 1 .. produced :
         IF pc[i] = "done" THEN i \in Succeeded \ Failed
         ELSE i \in Failed \ Succeeded /\ policy # "fail" /\ Succeeded # {}

\* A body that began comes to an end, also when the region has failed
\* meanwhile and when its last invocation broke: bodies, each holding permits
\* while it waits for more, do not wait for one another or for the runs of
\* other plans.  Not when an invocation broke that is not the last one of its
\* pipeline: that run waits for ever and keeps its permits (PermitsKept).
EveryBodyEnds == (\A r \in Runs : Started(r) ~> Over(r)) \/ <>[]PermitsKept

\* A region whose source has ended or failed comes to an end: every body
\* ends and reports, and the bound on bodies in flight never stops the driver
\* for good.  Not when a body waits for ever behind a broken invocation, and
\* not when one panicked: nothing tells the driver.
RegionEnds ==
  (source # "running" ~> driver # "running" \/ Panicked # {}) \/ <>[]PermitsKept
==============================================================================
