------------------------------ MODULE MediaFlow ------------------------------
(***************************************************************************)
(* A typed path from its search to its execution.  The planner walks the   *)
(* live graph (planner/live_cap_fab.rs) with the runtime type it infers    *)
(* for the data; the switch, the host and the cartridge each choose, on    *)
(* their own, who serves a cap of the path; the cartridge labels its       *)
(* output and the executor audits the label before it forwards it.         *)
(*                                                                         *)
(* The planner reasons about the type the data will have, the executor and *)
(* the cartridge about the types the caps declare: the properties say      *)
(* where the two meet.  The frames in between are GroupChain's business,   *)
(* how the graph is filled CapGraph's.                                     *)
(***************************************************************************)
EXTENDS CapUrn, Integers, Sequences, FiniteSets, SequencesExt

CONSTANTS
    Defs,      \* Definitions in the registry: [urn, inSeq, outSeq, isAbstract]
    Bindings,  \* Sets of source media a request may bind
    Targets,   \* Target media
    Tables,    \* Installed caps as the switch sees them: Seq([cap, host, cartridge])
    MaxDepth,  \* max_depth of the search
    Iterate,   \* Stands for the cap of a ForEach step
    NoCap      \* Stands for "no cap"

ASSUME FlowAssumption ==
    /\ IsFiniteSet(Keys)
    /\ Defs \subseteq [urn : Cap, inSeq : BOOLEAN, outSeq : BOOLEAN,
                       isAbstract : BOOLEAN]
    /\ \A d \in Defs : Admissible(d.urn)        \* every parse enforces it
    /\ Bindings \subseteq (SUBSET Urn \ {{}}) /\ Targets \subseteq Urn
    /\ \A t \in Tables :
          /\ t \in Seq([cap : Cap, host : Nat, cartridge : Nat])
          /\ \A i \in DOMAIN t : Admissible(t[i].cap)
    /\ MaxDepth \in Nat \ {0}
    /\ Iterate \notin Defs /\ NoCap \notin Cap

VARIABLES
    sources,   \* The media bound to the request
    target,    \* The media asked for
    table,     \* The switch's cap_table
    strand,    \* Steps of the path so far: [def, from, seq, to]
    current,   \* The runtime media the planner has reached
    isSeq,     \* The data is a sequence there
    phase,     \* "search" | "run" | "done" | "refused"
    at,        \* The step being executed
    label,     \* The label of the last cap's output stream
    data,      \* What the data of each source really is
    charged,   \* The registered cap whose admission permit the step holds
    served,    \* The registered cap whose handler ran
    refusal    \* Why the run was refused

vars == <<sources, target, table, strand, current, isSeq, phase, at, label,
          data, charged, served, refusal>>

-----------------------------------------------------------------------------
(* The graph.                                                              *)

\* cap:effect=none, the cap every cartridge has.
Identity == [in |-> Top, out |-> Top, tags |-> Top, effect |-> "none"]

\* add_cap: umbrellas and the identity are no edges.
Graph == {d \in Defs : ~ d.isAbstract /\ ~ IsEquivalent(d.urn, Identity)}

\* get_outgoing_edges: the caps that take the media as it is ...
CapEdges(m, seq) ==
    {d \in Graph : Conforms(m, d.urn.in) /\ (seq => d.inSeq) /\ Infers(d.urn, m)}

\* ... and the iteration over a sequence some scalar cap could take.
Iterates(m, seq) ==
    seq /\ {d \in Graph : ~ d.inSeq /\ Conforms(m, d.urn.in)} # {}

\* can_follow_foreach
MayFollow(pending, d) == ~ (pending /\ d.inSeq)

\* Mutant: the reachability check does not iterate.
OnwardByCaps(s) ==
    {<<RuntimeOut(d.urn, s[1]), d.outSeq, FALSE>> :
        d \in {e \in CapEdges(s[1], s[2]) : MayFollow(s[3], e)}}

\* One step of has_reachable_exact_target, which goes breadth first over the
\* media, the shape and whether an iteration has just begun.
Onward(s) ==
    OnwardByCaps(s) \cup
    IF Iterates(s[1], s[2]) /\ ~ s[3] THEN {<<s[1], FALSE, TRUE>>} ELSE {}

\* What the search has reached after each of its waves.
Waves(m, seq) ==
    LET wave[n \in Nat] == IF n = 0 THEN {<<m, seq, FALSE>>}
                           ELSE UNION {{s} \cup Onward(s) : s \in wave[n - 1]}
    IN wave

ReachedWithin(m, seq) == Waves(m, seq)[MaxDepth - 1]

Pruned(m, seq) ==
    ~ \E s \in ReachedWithin(m, seq) : \E d \in CapEdges(s[1], s[2]) :
          MayFollow(s[3], d) /\ SameMedia(RuntimeOut(d.urn, s[1]), target)

-----------------------------------------------------------------------------
(* Who serves a cap: three choices, each by closeness to the request.      *)

\* spec_U: 4 for an exact value, 2 for a bare key.
Score(m) == 4 * Cardinality({k \in Keys : m[k] \in Values})
            + 2 * Cardinality({k \in Keys : m[k] = AnyValue})

\* Mutant: the three axes weigh the same.
UnweightedSpecificity(c) == Score(c.out) + Score(c.in) + Score(c.tags)

\* WEIGHT_OUT, WEIGHT_IN: what a cap produces counts before what it takes,
\* that before what describes it.
Specificity(c) == 10000 * Score(c.out) + 100 * Score(c.in) + Score(c.tags)

Distance(c, request) == Specificity(c) - Specificity(request)

Size(d) == IF d < 0 THEN 0 - d ELSE d

\* Refinements before fallbacks, and the nearer before the farther.
Closer(d, e) == \/ d >= 0 /\ e < 0
                \/ (d >= 0 <=> e >= 0) /\ Size(d) < Size(e)

\* Of the entries I of the table, those a stable sort would put first, or
\* would tie for first.
Closest(I, request) ==
    {i \in I :
        /\ IsDispatchable(table[i].cap, request)
        /\ \A j \in I :
              IsDispatchable(table[j].cap, request) =>
                  ~ Closer(Distance(table[j].cap, request),
                           Distance(table[i].cap, request))}

First(I) == CHOOSE i \in I : \A j \in I : i <= j

\* find_route_for_cap, then the host's find_cartridge_for_cap over its own
\* cap table, then find_handler over a hash map: there a tie goes to any.
Route(request) == table[First(Closest(DOMAIN table, request))]

HostTable(host) == {i \in DOMAIN table : table[i].host = host}

CartridgeFor(host, request) ==
    table[First(Closest(HostTable(host), request))].cartridge

Handlers(host, request) ==
    LET own == {i \in HostTable(host) :
                  table[i].cartridge = CartridgeFor(host, request)}
    IN {table[i].cap : i \in Closest(own, request)}

-----------------------------------------------------------------------------
(* What the two ends of an output stream make of its label.                *)

\* Mutant: an output stream is labelled with the declared output.
DeclaredLabel(c) == c.out

\* derive_response_media: the effect applied to the declared input.
DerivedLabel(c) == RuntimeOut(c, c.in)

\* EffectAudit::audit, whose runtime input is the declared one too.
Audited(c, emitted) == IsConformantOutput(c, c.in, emitted)

-----------------------------------------------------------------------------
Init == /\ sources \in Bindings /\ target \in Targets /\ table \in Tables
        /\ current = LeastUpperBound(sources)
        \* Several sources are planned for as one when their join says
        \* something and some cap takes it (enumerate_apexes, Generalize).
        /\ Cardinality(sources) > 1 => /\ current # Top
                                       /\ CapEdges(current, FALSE) # {}
        /\ isSeq \in (IF Cardinality(sources) > 1 THEN {TRUE} ELSE BOOLEAN)
        /\ strand = <<>> /\ phase = "search" /\ at = 0
        /\ label = Top /\ data = sources
        /\ charged = NoCap /\ served = NoCap /\ refusal = "none"

searchVars == <<sources, target, table>>
runVars == <<at, label, data, charged, served, refusal>>

PendingForEach == strand # <<>> /\ Last(strand).def = Iterate
RoundTrip == SameMedia(LeastUpperBound(sources), target)
AtTarget == strand # <<>> /\ SameMedia(current, target)

\* A strand worth recording: it ends at the exact target, and with a cap.
Recordable == AtTarget /\ ~ PendingForEach

\* iddfs_find_paths keeps what is on the current path, except the target
\* of a round trip.
Visited == {<<strand[i].from, strand[i].seq>> : i \in DOMAIN strand}
           \cup {<<current, isSeq>>}
Revisits(m, seq) == /\ <<m, seq>> \in Visited
                    /\ ~ (RoundTrip /\ SameMedia(m, target))

MayExtend == /\ phase = "search" /\ Len(strand) < MaxDepth
             /\ ~ (AtTarget /\ ~ PendingForEach /\ ~ RoundTrip)

Extend(def, m, seq) ==
    /\ ~ Revisits(m, seq)
    /\ strand' = Append(strand, [def |-> def, from |-> current, seq |-> isSeq, to |-> m])
    /\ current' = m /\ isSeq' = seq
    /\ UNCHANGED <<searchVars, runVars, phase>>

TakeCap == /\ MayExtend
           /\ \E d \in CapEdges(current, isSeq) :
                 /\ MayFollow(PendingForEach, d)
                 /\ Extend(d, RuntimeOut(d.urn, current), d.outSeq)

TakeForEach == /\ MayExtend /\ ~ PendingForEach /\ Iterates(current, isSeq)
               /\ Extend(Iterate, current, FALSE)

\* generalize_candidates keeps a path from a join only if every source
\* conforms to what its first cap declares.
EntryCap == strand[First({i \in DOMAIN strand : strand[i].def # Iterate})].def

LeftOut == {m \in sources : ~ Conforms(m, EntryCap.urn.in)}

\* A recorded strand is chosen and its plan run.  The search never starts
\* when has_reachable_exact_target says no.
Choose == /\ phase = "search" /\ Recordable /\ ~ (Cardinality(sources) > 1 /\ LeftOut # {})
          /\ ~ Pruned(strand[1].from, strand[1].seq)
          /\ phase' = "run" /\ at' = 1
          /\ UNCHANGED <<searchVars, strand, current, isSeq, label, data,
                         charged, served, refusal>>

-----------------------------------------------------------------------------
step == strand[at]
request == step.def.urn

Refuse(why) == phase' = "refused" /\ refusal' = why

\* A ForEach ends the pipelined chain: its items are read back and sent to
\* the next cap under the label it declares.
Begin == /\ phase = "run" /\ at <= Len(strand) /\ step.def = Iterate
         /\ at' = at + 1
         /\ UNCHANGED <<searchVars, strand, current, isSeq, phase, label,
                        data, charged, served, refusal>>

\* register_external_request and what follows it down to the handler.
Serve == \E c \in Handlers(Route(request).host, request) :
            charged' = Route(request).cap /\ served' = c

\* forward_frames re-asserts that the audited label conforms to what the
\* next cap of the chain declares.
NextTakes(emitted) ==
    at < Len(strand) /\ strand[at + 1].def # Iterate =>
        Conforms(emitted, strand[at + 1].def.urn.in)

Output == /\ label' = DerivedLabel(request)
          /\ data' = {RuntimeOut(request, m) : m \in data}

Execute ==
    /\ phase = "run" /\ at <= Len(strand) /\ step.def # Iterate
    /\ UNCHANGED <<searchVars, strand, current, isSeq>>
    /\ IF Closest(DOMAIN table, request) = {}
         THEN Refuse("no handler") /\ UNCHANGED <<at, label, data, charged, served>>
         ELSE /\ Serve /\ Output
              /\ CASE ~ Audited(request, label') -> Refuse("effect") /\ UNCHANGED at
                   [] Audited(request, label') /\ ~ NextTakes(label') ->
                          Refuse("hop") /\ UNCHANGED at
                   [] OTHER -> at' = at + 1 /\ UNCHANGED <<phase, refusal>>

Finish == /\ phase = "run" /\ at > Len(strand)
          /\ phase' = "done"
          /\ UNCHANGED <<searchVars, strand, current, isSeq, runVars>>

Next == TakeCap \/ TakeForEach \/ Choose \/ Begin \/ Execute \/ Finish

Spec == Init /\ [][Next]_vars

-----------------------------------------------------------------------------
StepSet == [def : Defs \cup {Iterate}, from : Urn, seq : BOOLEAN, to : Urn]

\* Every variable keeps its type.
TypeOK == /\ sources \in Bindings /\ target \in Targets /\ table \in Tables
          /\ strand \in Seq(StepSet) /\ current \in Urn /\ isSeq \in BOOLEAN
          /\ phase \in {"search", "run", "done", "refused"}
          /\ at \in Nat /\ label \in Urn /\ data \subseteq Urn
          /\ charged \in Cap \cup {NoCap} /\ served \in Cap \cup {NoCap}
          /\ refusal \in {"none", "no handler", "effect", "hop"}

\* What the data of every bound source really is conforms, at every step, to
\* the media the planner inferred for that step: joining the sources and
\* applying the effects never claims a tag the data does not have.
DataIsAsPlanned ==
    LET here == IF phase = "search" THEN strand = <<>>
                ELSE phase # "refused"
        planned == IF phase = "search" \/ at > Len(strand) THEN current ELSE step.from
    IN here => \A m \in data : Conforms(m, planned)

\* A plan that starts is only ever refused for one reason: a hop after a cap
\* whose effect refines the type (none, patch).  The label derived from the
\* declared types always passes the executor's audit of the effect, and a cap
\* that is installed finds a handler.
OnlyARefinedHopIsRefused ==
    phase = "refused" =>
        \/ refusal = "no handler" /\ \A i \in DOMAIN table : table[i].cap # request
        \/ refusal = "hop" /\ request.effect \in {"none", "patch"}

\* The breadth-first check before the search never hides a path the search
\* would record.
PruneHidesNothing ==
    phase = "search" /\ Recordable =>
        ~ Pruned(strand[1].from, strand[1].seq)

\* When a cap of the path is installed, the three independent choices agree
\* on it: its permit is the one charged and its handler is the one that runs,
\* in any order of installation, unless another installed cap ties with it.
\* Preferred caps, which only the switch knows of, are left out.
ServedByTheCapItself ==
    [][phase = "run" /\ at <= Len(strand) /\ step.def # Iterate
           /\ (\E i \in DOMAIN table : table[i].cap = request)
       => charged' = request /\ served' = request]_vars

\* The comment at the hop: the audited output is "a refinement the plan
\* already proved conforms" to what the next cap declares.
HopsAreProved == refusal # "hop"

\* Every cap of a plan made for several sources takes the data of each.
EveryMemberIsTaken ==
    phase = "run" /\ at <= Len(strand) /\ step.def # Iterate =>
        \A m \in data : Conforms(m, request.in)
=============================================================================
