--------------------------- MODULE ChainAdmission ---------------------------
(***************************************************************************)
(* How the executor (orchestrator/executor.rs) opens the live pipelines of *)
(* concurrent runs.  A run is one linear chain of cap groups; each group   *)
(* resolves to an admission domain (the cartridge behind a master).  The   *)
(* chain is split into segments; all invocations of a segment are opened,  *)
(* each with a permit of its domain, before the segment's head is fed, so  *)
(* a run holds permits while it waits for others.                          *)
(***************************************************************************)
EXTENDS Integers, Sequences, FiniteSets

CONSTANTS
  Runs,        \* concurrent executions that share one switch
  Domains,     \* admission keys
  Capacity,    \* permits per domain, 0 = no limit
  Chain,       \* per run: the domains of its groups, in chain order
  MaxBreaks,   \* bound: open invocations that break in a behaviour
  MaxRefusals  \* bound: invocations that are refused a permit in a behaviour

ASSUME ChainsAssumption ==
  /\ Capacity \in [Domains -> Nat]
  /\ Chain \in [Runs -> Seq(Domains)]
  /\ \A r \in Runs : Chain[r] # <<>>
  /\ MaxBreaks \in Nat
  /\ MaxRefusals \in Nat

VARIABLES
  pc,        \* per run: opening | queued | streaming | done | failed | aborted
  first,     \* per run: first group of the segment it is in
  next,      \* per run: the group it opens next
  open,      \* invocations that hold a permit, as <<run, group>>
  queue,     \* per domain: FIFO of invocations that wait for a permit
  broken,    \* invocations that answered with ERR
  breaks,    \* broken invocations so far
  refusals   \* refused invocations so far

counters == <<breaks, refusals>>
chain == <<pc, first, next, open, queue, broken, counters>>

Groups(r) == 1 .. Len(Chain[r])
Invocations == UNION {{r} \X Groups(r) : r \in Runs}
DomainOf(v) == Chain[v[1]][v[2]]
OpenIn(d) == {v \in open : DomainOf(v) = d}
OpenOf(r) == {v \in open : v[1] = r}

ChainTypeOK ==
  /\ pc \in [Runs -> {"opening", "queued", "streaming", "done", "failed", "aborted"}]
  /\ \A r \in Runs : first[r] \in Groups(r) /\ next[r] \in first[r] .. Len(Chain[r])
  /\ open \subseteq Invocations
  /\ queue \in [Domains -> Seq(Invocations)]
  /\ broken \subseteq Invocations
  /\ breaks \in 0 .. MaxBreaks
  /\ refusals \in 0 .. MaxRefusals

(***************************************************************************)
(* The split: a boundary between ADJACENT groups of one bounded domain.    *)
(***************************************************************************)

Bounded(d) == Capacity[d] > 0

\* Mutant: only a junction whose two groups are both unlimited is a boundary.
BoundaryIfUnbounded(r, i) ==
  Chain[r][i] = Chain[r][i + 1] /\ ~Bounded(Chain[r][i])

DeadlockBoundary(r, i) ==
  Chain[r][i] = Chain[r][i + 1] /\ Bounded(Chain[r][i])

EndsSegment(r, i) == i = Len(Chain[r]) \/ DeadlockBoundary(r, i)

HasRoom(d) == ~Bounded(d) \/ Cardinality(OpenIn(d)) < Capacity[d]

(***************************************************************************)
(* run_group_chain, step 1: open every invocation of the segment.          *)
(***************************************************************************)

\* execute_cap: the invocation queues for a permit of its domain.
Request(r) ==
  /\ pc[r] = "opening"
  /\ pc' = [pc EXCEPT ![r] = "queued"]
  /\ queue' = [queue EXCEPT ![Chain[r][next[r]]] = Append(@, <<r, next[r]>>)]
  /\ UNCHANGED <<first, next, open, broken, counters>>

\* The permit is granted and the REQ sent.  The head is only fed, and the
\* segment only streams, once its last invocation is open.
Admit(r) ==
  LET d == Chain[r][next[r]]
  IN  /\ pc[r] = "queued"
      /\ Head(queue[d]) = <<r, next[r]>>
      /\ HasRoom(d)
      /\ queue' = [queue EXCEPT ![d] = Tail(@)]
      /\ open' = open \cup {<<r, next[r]>>}
      /\ IF EndsSegment(r, next[r])
           THEN pc' = [pc EXCEPT ![r] = "streaming"] /\ UNCHANGED next
           ELSE pc' = [pc EXCEPT ![r] = "opening"] /\ next' = [next EXCEPT ![r] = @ + 1]
      /\ UNCHANGED <<first, broken, counters>>

\* execute_cap returns Err (the outage outlived its window): `?` leaves the
\* function, and the invocations opened so far are dropped, not cancelled.
OpenRefused(r) ==
  LET d == Chain[r][next[r]]
  IN  /\ refusals < MaxRefusals
      /\ refusals' = refusals + 1
      /\ pc[r] = "queued"
      /\ queue' = [queue EXCEPT ![d] = SelectSeq(@, LAMBDA v : v # <<r, next[r]>>)]
      /\ pc' = [pc EXCEPT ![r] = "aborted"]
      /\ UNCHANGED <<first, next, open, broken, breaks>>

(***************************************************************************)
(* Streaming and the end of a segment.                                     *)
(***************************************************************************)

\* An invocation ends once the one upstream of it has: END releases its permit.
\* After an ERR the forwarder returns, and no END follows what it forwarded.
End(r, i) ==
  /\ pc[r] = "streaming"
  /\ <<r, i>> \in open
  /\ <<r, i - 1>> \notin open \cup broken
  /\ open' = open \ {<<r, i>>}
  /\ UNCHANGED <<pc, first, next, queue, broken, counters>>

\* An invocation answers ERR, or its master dies, at any point.
Break(r, i) ==
  /\ breaks < MaxBreaks
  /\ breaks' = breaks + 1
  /\ <<r, i>> \in open
  /\ pc[r] \notin {"failed", "aborted"}
  /\ open' = open \ {<<r, i>>}
  /\ broken' = broken \cup {<<r, i>>}
  /\ UNCHANGED <<pc, first, next, queue, refusals>>

\* Some invocation before i broke: the input of i never ends.
Cut(r, i) == \E j \in first[r] .. i - 1 : <<r, j>> \in broken

\* The open invocations of r that wait for an input nobody ends.
Starved(r) == {v \in OpenOf(r) : pc[r] = "streaming" /\ Cut(r, v[2])}

\* collect_terminal_output of the LAST invocation has failed: the gates are
\* closed, the forwarders joined, every invocation is cancelled and the run
\* fails.  A break further up is only looked at then.
CancelChain(r) ==
  /\ pc[r] = "streaming"
  /\ <<r, next[r]>> \in broken
  /\ open' = open \ OpenOf(r)
  /\ pc' = [pc EXCEPT ![r] = "failed"]
  /\ UNCHANGED <<first, next, queue, broken, counters>>

\* The sink's output is collected; the next segment reads it from node_data.
NextSegment(r) ==
  /\ pc[r] = "streaming"
  /\ OpenOf(r) = {}
  /\ \A v \in broken : v[1] # r
  /\ IF next[r] = Len(Chain[r])
       THEN pc' = [pc EXCEPT ![r] = "done"] /\ UNCHANGED <<first, next>>
       ELSE /\ pc' = [pc EXCEPT ![r] = "opening"]
            /\ first' = [first EXCEPT ![r] = next[r] + 1]
            /\ next' = [next EXCEPT ![r] = @ + 1]
  /\ UNCHANGED <<open, queue, broken, counters>>

\* A cartridge writes to the dropped channel of an aborted run: the switch
\* cancels the request.  A cartridge that waits for its input never writes.
OrphanSpeaks(r, i) ==
  /\ pc[r] = "aborted"
  /\ <<r, i>> \in open
  /\ open' = open \ {<<r, i>>}
  /\ UNCHANGED <<pc, first, next, queue, broken, counters>>

ChainInit ==
  /\ pc = [r \in Runs |-> "opening"]
  /\ first = [r \in Runs |-> 1]
  /\ next = [r \in Runs |-> 1]
  /\ open = {}
  /\ queue = [d \in Domains |-> <<>>]
  /\ broken = {}
  /\ breaks = 0
  /\ refusals = 0

RunStep(r) == Request(r) \/ Admit(r) \/ CancelChain(r) \/ NextSegment(r)

RunNext(r) ==
  \/ RunStep(r)
  \/ OpenRefused(r)
  \/ \E i \in Groups(r) : End(r, i) \/ Break(r, i) \/ OrphanSpeaks(r, i)

ChainNext == \E r \in Runs : RunNext(r)

\* What a run does by itself.  The forwarder of a starved invocation may be
\* joined or not: it leaves if it has a chunk to forward when the gates close.
Proceed(r) == Request(r) \/ Admit(r) \/ NextSegment(r) \/ (Starved(r) = {} /\ CancelChain(r))

\* A run that may take a step takes it, and a fed cartridge ends its request.
ChainFairness ==
  \A r \in Runs : WF_chain(Proceed(r)) /\ WF_chain(\E i \in Groups(r) : End(r, i))

ChainSpec == ChainInit /\ [][ChainNext]_chain
FairChainSpec == ChainSpec /\ ChainFairness

(***************************************************************************)
(* Properties.                                                             *)
(***************************************************************************)

\* A run in its queue waits behind others for a permit and never for one that
\* it holds itself with its head not fed.
NeverWaitsForItself ==
  \A r \in Runs :
    pc[r] = "queued" =>
      LET d == Chain[r][next[r]]
      IN  ~(Bounded(d) /\ Cardinality(OpenIn(d) \cap OpenOf(r)) = Capacity[d])

Over(r) == pc[r] \in {"done", "failed", "aborted"}

\* Permits that are not given back, and that others may wait for: those of an
\* aborted run, and those of a run that waits behind a broken invocation.
PermitsKept == \E r \in Runs : Starved(r) # {} \/ (pc[r] = "aborted" /\ OpenOf(r) # {})

\* Every run comes to an end, with its output or with an error: opening a
\* pipeline ahead of its input never leaves runs waiting for one another.
EveryRunEnds == (\A r \in Runs : <>Over(r)) \/ <>[]PermitsKept

\* A run that failed gives back every permit it took.
FailedRunsHoldNothing ==
  \A r \in Runs : pc[r] \in {"failed", "aborted"} ~> OpenOf(r) = {}
=============================================================================
