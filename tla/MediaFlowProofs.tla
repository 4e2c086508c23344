---------------------------- MODULE MediaFlowProofs ---------------------------
(***************************************************************************)
(* Of the URN predicates, for every set of tags: the join of media is above*)
(* each of them, effects respect the order, a label derived from a         *)
(* declaration passes the audit of that declaration; how far dispatch is an*)
(* order and IsEquivalent an equivalence.  Of the planner and a run of its *)
(* plan, for any definitions, sources, targets and installed caps: the type*)
(* the planner infers is one the data has, and a plan is refused only after*)
(* a cap that keeps or patches what it was given.  Both follow from the    *)
(* strand being a chain in which each step was inferred from the last.     *)
(***************************************************************************)
EXTENDS MediaFlow, FiniteSetTheorems, SequenceTheorems, WellFoundedInduction, TLAPS

(***************************************************************************)
(* The predicates on URNs.                                                 *)
(***************************************************************************)

\* A type conforms to itself.
LEMMA ConformsToItself == \A m \in Urn : Conforms(m, m)
<1> QED
  BY DEF Urn, Conforms, ValuesMatch

\* Everything conforms to `media:`, and only `media:` is conformed to by it.
LEMMA TopIsTop == /\ Top \in Urn
                  /\ \A m \in Urn : Conforms(m, Top)
                  /\ \A m \in Urn : Conforms(Top, m) => m = Top
<1> QED
  BY FormsAssumption DEF Urn, Forms, Top, Conforms, ValuesMatch

\* The join (MediaUrn::least_upper_bound) is a type every input conforms to.
THEOREM JoinIsAbove ==
    ASSUME NEW S \in SUBSET Urn
    PROVE  /\ LeastUpperBound(S) \in Urn
           /\ \A m \in S : Conforms(m, LeastUpperBound(S))
<1> DEFINE Shared(k) == \E v \in Forms : \A m \in S : m[k] = v
           L == LeastUpperBound(S)
<1>1. ASSUME NEW k \in Keys
      PROVE  /\ L[k] \in Forms
             /\ \A m \in S : ValuesMatch(m[k], L[k])
  <2>1. CASE \E m \in S : m[k] = Missing
    BY <2>1 DEF LeastUpperBound, Forms, ValuesMatch
  <2>2. CASE ~ (\E m \in S : m[k] = Missing) /\ Shared(k)
    <3> DEFINE v == CHOOSE v \in Forms : \A m \in S : m[k] = v
    <3>1. L[k] = v
      BY <2>2 DEF LeastUpperBound
    <3>2. v \in Forms /\ \A m \in S : m[k] = v
      BY <2>2
    <3> QED
      BY <3>1, <3>2 DEF ValuesMatch
  <2>3. CASE ~ (\E m \in S : m[k] = Missing) /\ ~ Shared(k)
    <3>1. L[k] = AnyValue
      BY <2>3 DEF LeastUpperBound
    <3> QED
      BY <3>1, <2>3 DEF Forms, ValuesMatch
  <2> QED
    BY <2>1, <2>2, <2>3
<1>2. L = [k \in Keys |-> L[k]]
  BY DEF LeastUpperBound
<1>3. L \in [Keys -> Forms]
  BY <1>1, <1>2
<1> QED
  BY <1>1, <1>3 DEF Urn, Conforms

-----------------------------------------------------------------------------
(* Effects.                                                                *)

LEMMA RuntimeOutIsMedia ==
    ASSUME NEW c \in Cap, NEW m \in Urn
    PROVE  RuntimeOut(c, m) \in Urn
<1>1. c.in \in Urn /\ c.out \in Urn
  BY DEF Cap
<1>2. Patched(m, c.in, c.out) \in Urn
  BY <1>1 DEF Patched, Urn
<1> QED
  BY <1>1, <1>2 DEF RuntimeOut

\* A cap makes of data that conforms to a type something that conforms to
\* what it makes of the type: what is planned for the type holds for the data.
THEOREM EffectsRespectTheOrder ==
    ASSUME NEW c \in Cap, NEW m \in Urn, NEW n \in Urn, Conforms(m, n)
    PROVE  Conforms(RuntimeOut(c, m), RuntimeOut(c, n))
<1>1. c.out \in Urn /\ c.in \in Urn
  BY DEF Cap
<1>2. Conforms(c.out, c.out)
  BY <1>1, ConformsToItself
<1>3. Conforms(Patched(m, c.in, c.out), Patched(n, c.in, c.out))
  BY <1>1 DEF Conforms, Patched, ValuesMatch, Urn
<1> QED
  BY <1>2, <1>3 DEF RuntimeOut

\* The label a runtime derives from a declaration (derive_response_media) is
\* one the executor's audit of that declaration accepts, whatever was
\* declared: a cap with an effect that can be computed is never refused for it.
THEOREM DerivedLabelPassesTheAudit ==
    ASSUME NEW c \in Cap, Admissible(c), c.effect # "any"
    PROVE  IsConformantOutput(c, c.in, RuntimeOut(c, c.in))
<1>1. c.in \in Urn /\ c.out \in Urn
      /\ c.effect \in {"declared", "none", "patch"}
  BY DEF Cap, Effects
<1>2. Conforms(RuntimeOut(c, c.in), c.out)
  BY <1>1, ConformsToItself DEF Admissible, RuntimeOut
<1>3. Conforms(RuntimeOut(c, c.in), RuntimeOut(c, c.in))
  BY <1>1, ConformsToItself, RuntimeOutIsMedia
<1>4. Infers(c, c.in)
  BY <1>1, <1>2, ConformsToItself DEF Infers
<1> QED
  BY <1>3, <1>4 DEF IsConformantOutput, SameMedia

-----------------------------------------------------------------------------
(* Dispatch.                                                               *)

\* A cap can serve the request that names it.
THEOREM DispatchReflexive == \A c \in Cap : IsDispatchable(c, c)
<1> SUFFICES ASSUME NEW c \in Cap PROVE IsDispatchable(c, c)
  OBVIOUS
<1>1. /\ Conforms(c.in, c.in) /\ Conforms(c.out, c.out)
      /\ Conforms(c.tags, c.tags)
  BY ConformsToItself DEF Cap
<1> QED
  BY <1>1 DEF IsDispatchable, InputDispatchable, OutputDispatchable,
              EffectDispatchable, CapTagsDispatchable

\* The middle type leaves nothing to run time that the end fixes: no bare
\* key where the end has a value.
Narrow(mid, end) == \A k \in Keys : mid[k] = AnyValue => end[k] \notin Values

LEMMA ConformsTransitive ==
    ASSUME NEW a \in Urn, NEW b \in Urn, NEW c \in Urn,
           Conforms(a, b), Conforms(b, c), Narrow(b, c)
    PROVE  Conforms(a, c)
<1> SUFFICES ASSUME NEW k \in Keys PROVE ValuesMatch(a[k], c[k])
  BY DEF Conforms
<1>1. ValuesMatch(a[k], b[k]) /\ ValuesMatch(b[k], c[k])
  BY DEF Conforms
<1>2. c[k] \in Forms /\ (b[k] = AnyValue => c[k] \notin Values)
  BY DEF Narrow, Urn
<1> QED
  BY <1>1, <1>2, FormsAssumption DEF ValuesMatch, Forms

\* What serves a cap serves what the cap serves, as long as the cap in the
\* middle constrains its input and leaves no value open that the request fixes.
THEOREM DispatchTransitive ==
    ASSUME NEW a \in Cap, NEW b \in Cap, NEW c \in Cap,
           IsDispatchable(a, b), IsDispatchable(b, c),
           b.in # Top,
           Narrow(b.in, a.in), Narrow(b.out, c.out), Narrow(b.tags, c.tags)
    PROVE  IsDispatchable(a, c)
<1> USE DEF IsDispatchable
<1>0. /\ a.in \in Urn /\ b.in \in Urn /\ c.in \in Urn
      /\ a.out \in Urn /\ b.out \in Urn /\ c.out \in Urn
      /\ a.tags \in Urn /\ b.tags \in Urn /\ c.tags \in Urn
  BY DEF Cap
<1>1. InputDispatchable(a, c)
  BY <1>0, ConformsTransitive DEF InputDispatchable
<1>2. OutputDispatchable(a, c)
  BY <1>0, ConformsTransitive DEF OutputDispatchable
<1>3. EffectDispatchable(a, c)
  BY DEF EffectDispatchable
<1>4. CapTagsDispatchable(a, c)
  BY <1>0, ConformsTransitive DEF CapTagsDispatchable
<1> QED
  BY <1>1, <1>2, <1>3, <1>4

\* Without that it is not: a cap that takes anything is served by one that
\* takes only v, and serves a request that has w (docs/07-dispatch.md, 7.2
\* says dispatch is transitive).
THEOREM DispatchIsNotTransitive ==
    ASSUME NEW key \in Keys, NEW v \in Values, NEW w \in Values, v # w
    PROVE  \E a, b, c \in Cap :
              /\ Admissible(a) /\ Admissible(b) /\ Admissible(c)
              /\ IsDispatchable(a, b) /\ IsDispatchable(b, c)
              /\ ~ IsDispatchable(a, c)
<1> DEFINE Only(x) == [k \in Keys |-> IF k = key THEN x ELSE Missing]
           TakesV == [in |-> Only(v), out |-> Only(v), tags |-> Top, effect |-> "declared"]
           TakesAll == [in |-> Top, out |-> Only(v), tags |-> Top, effect |-> "declared"]
           HasW == [in |-> Only(w), out |-> Only(v), tags |-> Top, effect |-> "declared"]
<1>1. Only(v) \in Urn /\ Only(w) \in Urn /\ Top \in Urn
  BY DEF Urn, Forms, Top
<1>2. Only(v) # Top /\ Only(w) # Top
  <2>1. Only(v)[key] = v /\ Only(w)[key] = w /\ Top[key] = Missing
    BY DEF Top
  <2> QED
    BY <2>1, FormsAssumption
<1>3. Conforms(Only(v), Only(v)) /\ Conforms(Top, Top)
  BY <1>1, ConformsToItself
<1>4. ~ Conforms(Only(w), Only(v))
  BY FormsAssumption DEF Conforms, ValuesMatch
<1>5. TakesV \in Cap /\ TakesAll \in Cap /\ HasW \in Cap
  BY <1>1 DEF Cap, Effects
<1>6. Admissible(TakesV) /\ Admissible(TakesAll) /\ Admissible(HasW)
  BY <1>2 DEF Admissible
<1>7. IsDispatchable(TakesV, TakesAll)
  BY <1>2, <1>3 DEF IsDispatchable, InputDispatchable, OutputDispatchable,
                    EffectDispatchable, CapTagsDispatchable
<1>8. IsDispatchable(TakesAll, HasW)
  BY <1>2, <1>3 DEF IsDispatchable, InputDispatchable, OutputDispatchable,
                    EffectDispatchable, CapTagsDispatchable
<1>9. ~ IsDispatchable(TakesV, HasW)
  BY <1>2, <1>4 DEF IsDispatchable, InputDispatchable
<1> HIDE DEF TakesV, TakesAll, HasW
<1> QED
  BY <1>5, <1>6, <1>7, <1>8, <1>9

\* A cap that takes at least as much, makes something at least as specific
\* and says at least as much of itself serves every request the cap serves
\* (docs/07-dispatch.md, 7.4, whose third condition is the other way round).
THEOREM DispatchMonotone ==
    ASSUME NEW p \in Cap, NEW q \in Cap, NEW r \in Cap, IsDispatchable(p, r),
           q.in = Top \/ (p.in # Top /\ Conforms(p.in, q.in) /\ Narrow(p.in, q.in)),
           q.out # Top \/ p.out = Top,
           Conforms(q.out, p.out), Narrow(p.out, r.out),
           Conforms(q.tags, p.tags), Narrow(p.tags, r.tags),
           q.effect = p.effect
    PROVE  IsDispatchable(q, r)
<1> USE DEF IsDispatchable
<1>0. /\ p.in \in Urn /\ q.in \in Urn /\ r.in \in Urn
      /\ p.out \in Urn /\ q.out \in Urn /\ r.out \in Urn
      /\ p.tags \in Urn /\ q.tags \in Urn /\ r.tags \in Urn
  BY DEF Cap
<1>1. InputDispatchable(q, r)
  BY <1>0, ConformsTransitive DEF InputDispatchable
<1>2. OutputDispatchable(q, r)
  BY <1>0, ConformsTransitive DEF OutputDispatchable
<1>3. EffectDispatchable(q, r)
  BY DEF EffectDispatchable
<1>4. CapTagsDispatchable(q, r)
  BY <1>0, ConformsTransitive DEF CapTagsDispatchable
<1> QED
  BY <1>1, <1>2, <1>3, <1>4

-----------------------------------------------------------------------------
(* Two places where a predicate says more than its name.                   *)

\* Two caps that differ in what they produce, and only one of which says
\* what, are "equivalent" (docs/07-dispatch.md, 10 uses is_equivalent because
\* it would keep such caps apart).
THEOREM EquivalentWithOtherOutput ==
    ASSUME NEW c \in Cap, NEW d \in Cap,
           c.in = d.in, c.tags = d.tags, c.effect = d.effect, c.out = Top
    PROVE  IsEquivalent(c, d)
<1>1. /\ c.in \in Urn /\ c.tags \in Urn /\ d.out \in Urn
  BY DEF Cap
<1>2. Conforms(c.in, d.in) /\ Conforms(d.in, c.in)
      /\ Conforms(c.tags, d.tags) /\ Conforms(d.tags, c.tags)
  BY <1>1, ConformsToItself
<1>3. Conforms(d.out, c.out)
  BY <1>1, TopIsTop
<1> QED
  BY <1>2, <1>3 DEF IsEquivalent, Accepts

\* Any cap with effect "none", whatever it takes, can serve a request for the
\* identity: a runtime that looks for an identity handler among its caps
\* finds such a cap.
THEOREM PassthroughServesIdentity ==
    ASSUME NEW c \in Cap, c.effect = "none"
    PROVE  IsDispatchable(c, [in |-> Top, out |-> Top, tags |-> Top,
                              effect |-> "none"])
<1>1. Conforms(c.tags, Top)
  BY TopIsTop DEF Cap
<1> QED
  BY <1>1 DEF IsDispatchable, InputDispatchable, OutputDispatchable,
              EffectDispatchable, CapTagsDispatchable
(***************************************************************************)
(* The planner and the run of its plan.                                    *)
(***************************************************************************)

Join == LeastUpperBound(sources)

\* What a step makes of the type it starts from.
Inferred(s) ==
    /\ s.def = Iterate => s.to = s.from
    /\ s.def # Iterate => Infers(s.def.urn, s.from) /\ s.to = RuntimeOut(s.def.urn, s.from)

\* The strand is a chain of inferences from the join to the current type.
Chain ==
    /\ strand \in Seq(StepSet) /\ current \in Urn
    /\ \A i \in 1 .. Len(strand) : Inferred(strand[i])
    /\ \A i \in 1 .. Len(strand) - 1 : strand[i].to = strand[i + 1].from
    /\ strand = <<>> => current = Join
    /\ strand # <<>> => strand[1].from = Join /\ strand[Len(strand)].to = current

\* The type planned for the data that is there.
Planned == IF at > Len(strand) THEN current ELSE strand[at].from

Bound == phase = "search" => data = sources /\ refusal = "none"

Flowing == phase \in {"run", "done"} =>
               /\ strand # <<>> /\ at \in 1 .. Len(strand) + 1
               /\ data \subseteq Urn
               /\ \A m \in data : Conforms(m, Planned)
               /\ refusal = "none"

Refused == phase = "refused" =>
               /\ at \in 1 .. Len(strand) /\ strand[at].def # Iterate
               /\ \/ refusal = "no handler" /\ Closest(DOMAIN table, strand[at].def.urn) = {}
                  \/ refusal = "hop" /\ strand[at].def.urn.effect \in {"none", "patch"}

FlowInv == /\ sources \in Bindings
           /\ phase \in {"search", "run", "done", "refused"}
           /\ Chain /\ Bound /\ Flowing /\ Refused

LEMMA JoinOfSources ==
    ASSUME NEW S \in Bindings
    PROVE  /\ S \subseteq Urn /\ LeastUpperBound(S) \in Urn
           /\ \A m \in S : Conforms(m, LeastUpperBound(S))
<1>1. S \in SUBSET Urn
  BY FlowAssumption
<1> QED
  BY <1>1, JoinIsAbove

LEMMA SameClosest == UNCHANGED table => \A I, c : Closest(I, c)' = Closest(I, c)
  BY DEF Closest

LEMMA FlowInit == Init => FlowInv
<1> SUFFICES ASSUME Init PROVE FlowInv
  OBVIOUS
<1> USE DEF Init
<1>1. current \in Urn
  BY JoinOfSources
<1>2. Chain
  BY <1>1 DEF Chain, Join
<1> QED
  BY <1>2 DEF FlowInv, Bound, Flowing, Refused

-----------------------------------------------------------------------------
(* The search.                                                             *)

LEMMA ExtendsTheChain ==
    ASSUME FlowInv, phase = "search",
           NEW def \in Defs \cup {Iterate}, NEW m \in Urn, NEW seq \in BOOLEAN,
           isSeq \in BOOLEAN,
           Inferred([def |-> def, from |-> current, seq |-> isSeq, to |-> m]),
           Extend(def, m, seq)
    PROVE  FlowInv'
<1> DEFINE new == [def |-> def, from |-> current, seq |-> isSeq, to |-> m]
<1>1. /\ strand' = Append(strand, new) /\ current' = m
      /\ UNCHANGED <<sources, target, table, at, label, data, refusal, phase>>
  BY DEF Extend, searchVars, runVars
<1>2. strand \in Seq(StepSet) /\ current \in Urn
  BY DEF FlowInv, Chain
<1>3. new \in StepSet
  BY <1>2 DEF StepSet
<1>4. /\ strand' \in Seq(StepSet) /\ Len(strand') = Len(strand) + 1
      /\ \A i \in 1 .. Len(strand) : strand'[i] = strand[i]
      /\ strand'[Len(strand) + 1] = new /\ Len(strand) \in Nat
  BY <1>1, <1>2, <1>3
<1>5. Chain'
  <2>1. \A i \in 1 .. Len(strand') : Inferred(strand'[i])
    <3>1. \A i \in 1 .. Len(strand) : Inferred(strand[i])
      BY DEF FlowInv, Chain
    <3> HIDE DEF new
    <3> QED
      BY <3>1, <1>4 DEF Inferred, new
  <2>2. \A i \in 1 .. Len(strand') - 1 : strand'[i].to = strand'[i + 1].from
    <3> SUFFICES ASSUME NEW i \in 1 .. Len(strand)
                 PROVE  strand'[i].to = strand'[i + 1].from
      BY <1>4
    <3>1. CASE i = Len(strand)
      BY <3>1, <1>2, <1>4 DEF FlowInv, Chain
    <3>2. CASE i # Len(strand)
      BY <3>2, <1>4 DEF FlowInv, Chain
    <3> QED
      BY <3>1, <3>2
  <2>3. strand' # <<>> /\ strand'[Len(strand')].to = current'
    BY <1>1, <1>4
  <2>4. strand'[1].from = Join'
    <3>1. CASE strand = <<>>
      BY <3>1, <1>1, <1>4 DEF FlowInv, Chain, Join
    <3>2. CASE strand # <<>>
      BY <3>2, <1>1, <1>2, <1>4 DEF FlowInv, Chain, Join
    <3> QED
      BY <3>1, <3>2
  <2> QED
    BY <1>1, <1>4, <2>1, <2>2, <2>3, <2>4 DEF Chain
<1> QED
  BY <1>1, <1>5 DEF FlowInv, Bound, Flowing, Refused

-----------------------------------------------------------------------------
(* The run.                                                                *)

\* The step being executed.
LEMMA StepAt ==
    ASSUME FlowInv, phase = "run", at <= Len(strand)
    PROVE  /\ at \in 1 .. Len(strand) /\ step \in StepSet /\ Inferred(step)
           /\ at < Len(strand) => /\ step.to = strand[at + 1].from
                                  /\ strand[at + 1] \in StepSet
                                  /\ Inferred(strand[at + 1])
           /\ at = Len(strand) => step.to = current
           /\ data \subseteq Urn /\ \A m \in data : Conforms(m, step.from)
           /\ step.def # Iterate => request \in Cap /\ Admissible(request)
<1>1. /\ strand \in Seq(StepSet) /\ at \in 1 .. Len(strand) + 1 /\ strand # <<>>
      /\ data \subseteq Urn /\ \A m \in data : Conforms(m, Planned)
  BY DEF FlowInv, Chain, Flowing
<1>2. at \in 1 .. Len(strand) /\ Len(strand) \in Nat
  BY <1>1
<1>3. step \in StepSet /\ Inferred(step)
  BY <1>1, <1>2 DEF step, FlowInv, Chain
<1>4. at < Len(strand) => /\ step.to = strand[at + 1].from
                          /\ strand[at + 1] \in StepSet
                          /\ Inferred(strand[at + 1])
  <2> SUFFICES ASSUME at < Len(strand)
               PROVE  /\ step.to = strand[at + 1].from
                      /\ strand[at + 1] \in StepSet
                      /\ Inferred(strand[at + 1])
    OBVIOUS
  <2>1. at + 1 \in 1 .. Len(strand) /\ at \in 1 .. Len(strand) - 1
    BY <1>2
  <2> QED
    BY <1>1, <2>1 DEF step, FlowInv, Chain
<1>5. at = Len(strand) => step.to = current
  BY <1>1 DEF step, FlowInv, Chain
<1>6. \A m \in data : Conforms(m, step.from)
  BY <1>1, <1>2 DEF Planned, step
<1>7. step.def # Iterate => request \in Cap /\ Admissible(request)
  <2>1. step.def \in Defs \cup {Iterate}
    BY <1>3 DEF StepSet
  <2> QED
    BY <2>1, FlowAssumption DEF request
<1> QED
  BY <1>1, <1>2, <1>3, <1>4, <1>5, <1>6, <1>7

\* Data that conforms to what a step ends with conforms to what is planned
\* for the next.
LEMMA StepsOn ==
    ASSUME FlowInv, phase = "run", at <= Len(strand), at' = at + 1,
           UNCHANGED <<strand, current>>,
           \A m \in data' : Conforms(m, step.to)
    PROVE  /\ at' \in 1 .. Len(strand) + 1
           /\ \A m \in data' : Conforms(m, Planned')
<1>1. /\ at \in 1 .. Len(strand) /\ Len(strand) \in Nat
      /\ at < Len(strand) => step.to = strand[at + 1].from
      /\ at = Len(strand) => step.to = current
  <2>1. strand \in Seq(StepSet)
    BY DEF FlowInv, Chain
  <2> QED
    BY <2>1, StepAt
<1>2. Planned' = step.to
  <2>1. CASE at = Len(strand)
    BY <2>1, <1>1 DEF Planned
  <2>2. CASE at # Len(strand)
    BY <2>2, <1>1 DEF Planned
  <2> QED
    BY <2>1, <2>2
<1> QED
  BY <1>1, <1>2

LEMMA BeginKeeps == FlowInv /\ Begin => FlowInv'
<1> SUFFICES ASSUME FlowInv, Begin PROVE FlowInv'
  OBVIOUS
<1>1. /\ phase = "run" /\ at <= Len(strand) /\ step.def = Iterate /\ at' = at + 1
      /\ UNCHANGED <<sources, target, table, strand, current, isSeq, phase, data, refusal>>
  BY DEF Begin, searchVars
<1>2. step.to = step.from
  BY <1>1, StepAt DEF Inferred
<1>3. \A m \in data' : Conforms(m, step.to)
  BY <1>1, <1>2, StepAt
<1>4. /\ at' \in 1 .. Len(strand) + 1
      /\ \A m \in data' : Conforms(m, Planned')
  BY <1>1, <1>3, StepsOn
<1>5. Chain'
  BY <1>1 DEF FlowInv, Chain, Join
<1> QED
  BY <1>1, <1>4, <1>5 DEF FlowInv, Bound, Flowing, Refused

\* The label of a cap's output is never one the audit refuses, and only the
\* label of a refined type is one the next hop refuses.
LEMMA Labelled ==
    ASSUME FlowInv, phase = "run", at <= Len(strand), step.def # Iterate
    PROVE  /\ Audited(request, DerivedLabel(request))
           /\ request.effect \in {"none", "patch"} \/ NextTakes(DerivedLabel(request))
<1>1. /\ request \in Cap /\ Admissible(request) /\ Inferred(step)
      /\ at < Len(strand) => /\ step.to = strand[at + 1].from
                             /\ Inferred(strand[at + 1])
  BY StepAt
<1>2. request.effect # "any" /\ step.to = RuntimeOut(request, step.from)
  BY <1>1 DEF Inferred, Infers, request
<1>3. Audited(request, DerivedLabel(request))
  BY <1>1, <1>2, DerivedLabelPassesTheAudit DEF Audited, DerivedLabel
<1>4. ASSUME request.effect = "declared" PROVE NextTakes(DerivedLabel(request))
  <2>1. DerivedLabel(request) = step.to
    BY <1>2, <1>4 DEF DerivedLabel, RuntimeOut
  <2> QED
    BY <1>1, <2>1 DEF NextTakes, Inferred, Infers
<1> QED
  BY <1>1, <1>2, <1>3, <1>4 DEF Cap, Effects

LEMMA ExecuteKeeps == FlowInv /\ Execute => FlowInv'
<1> SUFFICES ASSUME FlowInv, Execute PROVE FlowInv'
  OBVIOUS
<1>1. /\ phase = "run" /\ at <= Len(strand) /\ step.def # Iterate
      /\ UNCHANGED <<sources, target, table, strand, current, isSeq>>
  BY DEF Execute, searchVars
<1>2. Chain'
  BY <1>1 DEF FlowInv, Chain, Join
<1>3. at \in 1 .. Len(strand) /\ refusal = "none"
  BY <1>1, StepAt DEF FlowInv, Flowing
<1>4. CASE Closest(DOMAIN table, request) = {}
  <2>1. phase' = "refused" /\ refusal' = "no handler" /\ UNCHANGED at
    BY <1>4 DEF Execute, Refuse
  <2> QED
    BY <1>1, <1>2, <1>3, <1>4, <2>1, SameClosest
    DEF FlowInv, Bound, Flowing, Refused, step, request
<1>5. CASE Closest(DOMAIN table, request) # {}
  <2>1. /\ label' = DerivedLabel(request)
        /\ data' = {RuntimeOut(request, m) : m \in data}
    BY <1>5 DEF Execute, Output
  <2>2. /\ Audited(request, label')
        /\ request.effect \in {"none", "patch"} \/ NextTakes(label')
    BY <1>1, <2>1, Labelled
  <2>3. CASE ~ NextTakes(label')
    <3>1. phase' = "refused" /\ refusal' = "hop" /\ UNCHANGED at
      BY <1>5, <2>2, <2>3 DEF Execute, Refuse
    <3> QED
      BY <1>1, <1>2, <1>3, <2>2, <2>3, <3>1
      DEF FlowInv, Bound, Flowing, Refused, step, request
  <2>4. CASE NextTakes(label')
    <3>1. at' = at + 1 /\ UNCHANGED <<phase, refusal>>
      BY <1>5, <2>2, <2>4 DEF Execute
    <3>2. /\ request \in Cap /\ step \in StepSet /\ Inferred(step)
          /\ data \subseteq Urn /\ \A m \in data : Conforms(m, step.from)
      BY <1>1, StepAt
    <3>3. step.from \in Urn /\ step.to = RuntimeOut(request, step.from)
      BY <1>1, <3>2 DEF StepSet, Inferred, request
    <3>4. data' \subseteq Urn
      BY <2>1, <3>2, RuntimeOutIsMedia
    <3>5. \A m \in data' : Conforms(m, step.to)
      BY <2>1, <3>2, <3>3, EffectsRespectTheOrder
    <3>6. /\ at' \in 1 .. Len(strand) + 1
          /\ \A m \in data' : Conforms(m, Planned')
      BY <1>1, <3>1, <3>5, StepsOn
    <3> QED
      BY <1>1, <1>2, <1>3, <3>1, <3>4, <3>6 DEF FlowInv, Bound, Flowing, Refused
  <2> QED
    BY <2>3, <2>4
<1> QED
  BY <1>4, <1>5

-----------------------------------------------------------------------------
LEMMA ChooseKeeps == FlowInv /\ Choose => FlowInv'
<1> SUFFICES ASSUME FlowInv, Choose PROVE FlowInv'
  OBVIOUS
<1>1. /\ phase = "search" /\ strand # <<>> /\ phase' = "run" /\ at' = 1
      /\ UNCHANGED <<sources, target, table, strand, current, isSeq, data, refusal>>
  BY DEF Choose, Recordable, AtTarget, searchVars
<1>2. Chain'
  BY <1>1 DEF FlowInv, Chain, Join
<1>3. strand \in Seq(StepSet) /\ strand[1].from = Join /\ data = sources /\ refusal = "none"
  BY <1>1 DEF FlowInv, Chain, Bound
<1>4. Len(strand) \in Nat /\ Len(strand) >= 1
  BY <1>1, <1>3
<1>5. Planned' = Join
  BY <1>1, <1>3, <1>4 DEF Planned
<1>6. sources \subseteq Urn /\ \A m \in sources : Conforms(m, Join)
  BY JoinOfSources DEF FlowInv, Join
<1> QED
  BY <1>1, <1>2, <1>3, <1>4, <1>5, <1>6 DEF FlowInv, Bound, Flowing, Refused

LEMMA FlowNext == FlowInv /\ isSeq \in BOOLEAN /\ [Next]_vars => FlowInv'
<1> SUFFICES ASSUME FlowInv, isSeq \in BOOLEAN, [Next]_vars PROVE FlowInv'
  OBVIOUS
<1>1. CASE TakeCap
  <2>1. PICK d \in CapEdges(current, isSeq) : Extend(d, RuntimeOut(d.urn, current), d.outSeq)
    BY <1>1 DEF TakeCap
  <2>2. d \in Defs /\ Infers(d.urn, current) /\ current \in Urn /\ phase = "search"
    BY <1>1 DEF CapEdges, Graph, FlowInv, Chain, TakeCap, MayExtend
  <2>3. d.urn \in Cap /\ d.outSeq \in BOOLEAN /\ d # Iterate
    BY <2>2, FlowAssumption
  <2>4. RuntimeOut(d.urn, current) \in Urn
    BY <2>2, <2>3, RuntimeOutIsMedia
  <2>5. Inferred([def |-> d, from |-> current, seq |-> isSeq,
                  to |-> RuntimeOut(d.urn, current)])
    BY <2>2, <2>3 DEF Inferred
  <2> QED
    BY <2>1, <2>2, <2>3, <2>4, <2>5, ExtendsTheChain
<1>2. CASE TakeForEach
  <2>1. Extend(Iterate, current, FALSE) /\ phase = "search" /\ current \in Urn
    BY <1>2 DEF TakeForEach, MayExtend, FlowInv, Chain
  <2>2. Inferred([def |-> Iterate, from |-> current, seq |-> isSeq, to |-> current])
    BY DEF Inferred
  <2> QED
    BY <2>1, <2>2, ExtendsTheChain
<1>3. CASE Choose
  BY <1>3, ChooseKeeps
<1>4. CASE Begin
  BY <1>4, BeginKeeps
<1>5. CASE Execute
  BY <1>5, ExecuteKeeps
<1>6. CASE Finish
  BY <1>6 DEF Finish, searchVars, runVars, FlowInv, Chain, Join, Bound, Flowing,
              Planned, Refused
<1>7. CASE UNCHANGED vars
  BY <1>7, SameClosest DEF vars, FlowInv, Chain, Join, Bound, Flowing, Planned, Refused
<1> QED
  BY <1>1, <1>2, <1>3, <1>4, <1>5, <1>6, <1>7 DEF Next

LEMMA Shape == Spec => []FlowInv
<1> DEFINE SeqOK == isSeq \in BOOLEAN
<1>1. Init => SeqOK
  BY DEF Init
<1>2. SeqOK /\ [Next]_vars => SeqOK'
  <2> SUFFICES ASSUME SeqOK, [Next]_vars PROVE SeqOK'
    OBVIOUS
  <2>1. CASE TakeCap
    <3>1. PICK d \in Defs : isSeq' = d.outSeq
      BY <2>1 DEF TakeCap, Extend, CapEdges, Graph
    <3> QED
      BY <3>1, FlowAssumption
  <2> QED
    BY <2>1 DEF Next, TakeForEach, Extend, Choose, Begin, Execute, Finish, vars
<1>3. FlowInv /\ SeqOK /\ [Next]_vars => FlowInv'
  BY FlowNext
<1> QED
  BY <1>1, <1>2, <1>3, FlowInit, PTL DEF Spec

-----------------------------------------------------------------------------
LEMMA SpecificityIsAnInteger == \A c : Specificity(c) \in Int
<1> SUFFICES ASSUME NEW c PROVE Specificity(c) \in Int
  OBVIOUS
<1>1. ASSUME NEW m PROVE Score(m) \in Nat
  <2>1. /\ IsFiniteSet({k \in Keys : m[k] \in Values})
        /\ IsFiniteSet({k \in Keys : m[k] = AnyValue})
    BY FlowAssumption, FS_Subset
  <2>2. /\ Cardinality({k \in Keys : m[k] \in Values}) \in Nat
        /\ Cardinality({k \in Keys : m[k] = AnyValue}) \in Nat
    BY <2>1, FS_CardinalityType
  <2> QED
    BY <2>2 DEF Score
<1>2. Score(c.in) \in Nat /\ Score(c.out) \in Nat /\ Score(c.tags) \in Nat
  BY <1>1
<1> QED
  BY <1>2 DEF Specificity

\* A cap that is installed is among the closest to a request that names it.
LEMMA InstalledIsClosest ==
    ASSUME NEW c \in Cap, NEW I, NEW i \in I, table[i].cap = c
    PROVE  i \in Closest(I, c)
<1>1. Specificity(c) \in Int /\ \A j \in I : Specificity(table[j].cap) \in Int
  BY SpecificityIsAnInteger
<1>2. Distance(c, c) = 0 /\ \A j \in I : Distance(table[j].cap, c) \in Int
  BY <1>1 DEF Distance
<1>3. \A j \in I : ~ Closer(Distance(table[j].cap, c), 0)
  BY <1>2 DEF Closer, Size
<1> QED
  BY <1>2, <1>3, DispatchReflexive DEF Closest

\* What the data of every source really is conforms, at every step, to the
\* media the planner inferred for it.
THEOREM PlannedTypesHold == Spec => []DataIsAsPlanned
<1>1. FlowInv => DataIsAsPlanned
  <2> SUFFICES ASSUME FlowInv PROVE DataIsAsPlanned
    OBVIOUS
  <2>1. CASE phase = "search" /\ strand = <<>>
    BY <2>1, JoinOfSources DEF FlowInv, Chain, Join, Bound, DataIsAsPlanned
  <2>2. CASE phase \in {"run", "done"}
    BY <2>2 DEF FlowInv, Flowing, Planned, DataIsAsPlanned, step
  <2> QED
    BY <2>1, <2>2 DEF FlowInv, DataIsAsPlanned
<1> QED
  BY <1>1, Shape, PTL

LEMMA TableKept == Spec => [](table \in Tables)
<1>1. Init => table \in Tables
  BY DEF Init
<1>2. table \in Tables /\ [Next]_vars => (table \in Tables)'
  BY DEF Next, TakeCap, TakeForEach, Extend, Choose, Begin, Execute, Finish,
         searchVars, vars
<1> QED
  BY <1>1, <1>2, PTL DEF Spec

\* A plan that starts is only ever refused because a cap of it is not
\* installed, or at a hop after a cap that keeps or patches its input's type.
THEOREM OnlyRefinedHopsRefused == Spec => []OnlyARefinedHopIsRefused
<1> DEFINE TableOK == table \in Tables
<1>1. Spec => []TableOK
  BY TableKept
<1>2. FlowInv /\ TableOK => OnlyARefinedHopIsRefused
  <2> SUFFICES ASSUME FlowInv, TableOK, phase = "refused"
               PROVE  \/ refusal = "no handler" /\ \A i \in DOMAIN table : table[i].cap # request
                      \/ refusal = "hop" /\ request.effect \in {"none", "patch"}
    BY DEF OnlyARefinedHopIsRefused
  <2>1. /\ at \in 1 .. Len(strand) /\ strand[at].def # Iterate /\ strand \in Seq(StepSet)
        /\ \/ refusal = "no handler" /\ Closest(DOMAIN table, request) = {}
           \/ refusal = "hop" /\ request.effect \in {"none", "patch"}
    BY DEF FlowInv, Refused, Chain, request, step
  <2>2. request \in Cap
    <3>1. strand[at] \in StepSet
      <4>1. strand \in Seq(StepSet) /\ at \in 1 .. Len(strand)
        BY <2>1
      <4> HIDE DEF TableOK
      <4> QED
        BY <4>1, ElementOfSeq
    <3>2. strand[at].def \in Defs
      BY <2>1, <3>1 DEF StepSet
    <3> QED
      BY <3>2, FlowAssumption DEF request, step
  <2> QED
    BY <2>1, <2>2, InstalledIsClosest
<1> QED
  BY <1>1, <1>2, Shape, PTL

(***************************************************************************)
(* The reachability check looks at every strand the search could record.   *)
(* Its waves are a recursive function; that there is one, and that it      *)
(* grows, is by induction on the number of the wave.                       *)
(***************************************************************************)

\* A set that holds 0 and the successor of each of its numbers holds them all:
\* a least number outside it would have a predecessor inside.
LEMMA SetInduction ==
    ASSUME NEW S, 0 \in S, \A n \in Nat : n \in S => n + 1 \in S
    PROVE  \A n \in Nat : n \in S
<1> DEFINE T == Nat \ S
           R == {ss \in Nat \X Nat : ss[1] < ss[2]}
<1>1. IsWellFoundedOn(R, Nat)
  BY NatLessThanWellFounded, Zenon DEF OpToRel
<1> SUFFICES ASSUME T # {} PROVE FALSE
  OBVIOUS
<1>2. PICK x \in T : \A y \in T : ~ (<<y, x>> \in R)
  <2>1. T \subseteq Nat
    OBVIOUS
  <2> HIDE DEF T, R
  <2> QED
    BY <1>1, <2>1, WFMin
<1>3. x # 0 /\ x - 1 \in Nat /\ x = (x - 1) + 1
  OBVIOUS
<1>4. x - 1 \in T /\ <<x - 1, x>> \in R
  BY <1>3
<1> QED
  BY <1>2, <1>4

Iterated(g, X, F, x) ==
    g \in [Nat -> X] /\ g[0] = x /\ \A n \in Nat : g[n + 1] = F[g[n]]

\* A function can be iterated from any point.
LEMMA Iteration ==
    ASSUME NEW X, NEW F \in [X -> X], NEW x \in X
    PROVE  \E g : Iterated(g, X, F, x)
<1> DEFINE Good(n, h) == /\ h \in [0 .. n -> X] /\ h[0] = x
                         /\ \A i \in 0 .. n - 1 : h[i + 1] = F[h[i]]
\* The first n steps can be taken, ...
<1>1. \A n \in Nat : \E h : Good(n, h)
  <2> DEFINE S == {n \in Nat : \E h : Good(n, h)}
  <2>1. 0 \in S
    <3>1. Good(0, [i \in 0 .. 0 |-> x])
      OBVIOUS
    <3> QED
      BY <3>1
  <2>2. ASSUME NEW n \in Nat, n \in S PROVE n + 1 \in S
    <3>1. PICK h : Good(n, h)
      BY <2>2
    <3> DEFINE k == [i \in 0 .. n + 1 |-> IF i = n + 1 THEN F[h[n]] ELSE h[i]]
    <3>2. n \in 0 .. n /\ h[n] \in X /\ F[h[n]] \in X
      BY <3>1
    <3>3. k \in [0 .. n + 1 -> X]
      BY <3>1, <3>2
    <3>4. k[0] = x
      BY <3>1
    <3>5. ASSUME NEW i \in 0 .. n PROVE k[i + 1] = F[k[i]]
      <4>1. CASE i = n
        BY <4>1
      <4>2. CASE i # n
        <5>1. i \in 0 .. n - 1 /\ i + 1 # n + 1 /\ i + 1 \in 0 .. n + 1 /\ i \in 0 .. n + 1
          BY <4>2
        <5>2. k[i + 1] = h[i + 1] /\ k[i] = h[i]
          BY <5>1
        <5> QED
          BY <3>1, <5>1, <5>2
      <4> QED
        BY <4>1, <4>2
    <3> HIDE DEF k
    <3>6. Good(n + 1, k)
      BY <3>3, <3>4, <3>5
    <3> QED
      BY <3>6
  <2> HIDE DEF S
  <2>3. \A n \in Nat : n \in S
    BY <2>1, <2>2, SetInduction
  <2> QED
    BY <2>3 DEF S
\* ... in one way only.
<1>2. ASSUME NEW n \in Nat, NEW m \in Nat, n <= m, NEW h, NEW k, Good(n, h), Good(m, k)
      PROVE  h[n] = k[n]
  <2> DEFINE S == {i \in Nat : i <= n => h[i] = k[i]}
  <2>1. 0 \in S
    BY <1>2
  <2>2. ASSUME NEW i \in Nat, i \in S PROVE i + 1 \in S
    <3> SUFFICES ASSUME i + 1 <= n PROVE h[i + 1] = k[i + 1]
      BY <2>2
    <3>1. i \in 0 .. n - 1 /\ i \in 0 .. m - 1 /\ h[i] = k[i]
      BY <1>2, <2>2
    <3> QED
      BY <1>2, <3>1
  <2> HIDE DEF S
  <2>3. n \in S
    BY <2>1, <2>2, SetInduction
  <2> QED
    BY <2>3 DEF S
<1> DEFINE path(n) == CHOOSE h : Good(n, h)
           g == [n \in Nat |-> path(n)[n]]
<1> HIDE DEF Good
<1>3. \A n \in Nat : Good(n, path(n))
  BY <1>1
<1> HIDE DEF path
<1>4. g \in [Nat -> X]
  BY <1>3 DEF Good
<1>5. g[0] = x
  BY <1>3 DEF Good
<1>6. ASSUME NEW n \in Nat PROVE g[n + 1] = F[g[n]]
  <2>1. path(n)[n] = path(n + 1)[n]
    BY <1>2, <1>3
  <2>2. path(n + 1)[n + 1] = F[path(n + 1)[n]]
    BY <1>3 DEF Good
  <2> QED
    BY <2>1, <2>2
<1>7. Iterated(g, X, F, x)
  <2> HIDE DEF g
  <2> QED
    BY <1>4, <1>5, <1>6 DEF Iterated
<1> QED
  BY <1>7

-----------------------------------------------------------------------------
SearchState == Urn \X BOOLEAN \X BOOLEAN

LEMMA OnwardStays == \A s \in SearchState : Onward(s) \subseteq SearchState
<1> SUFFICES ASSUME NEW s \in SearchState PROVE Onward(s) \subseteq SearchState
  OBVIOUS
<1>1. s[1] \in Urn /\ s[2] \in BOOLEAN
  BY DEF SearchState
<1>2. OnwardByCaps(s) \subseteq SearchState
  <2> SUFFICES ASSUME NEW d \in CapEdges(s[1], s[2])
               PROVE  <<RuntimeOut(d.urn, s[1]), d.outSeq, FALSE>> \in SearchState
    BY DEF OnwardByCaps
  <2>1. d \in Defs
    BY DEF CapEdges, Graph
  <2>2. d.urn \in Cap /\ d.outSeq \in BOOLEAN
    BY <2>1, FlowAssumption
  <2> QED
    BY <1>1, <2>2, RuntimeOutIsMedia DEF SearchState
<1>3. <<s[1], FALSE, TRUE>> \in SearchState
  BY <1>1 DEF SearchState
<1> QED
  BY <1>2, <1>3 DEF Onward

\* The waves start at the one state and each is what the last leads to.
LEMMA WavesStep ==
    ASSUME NEW m \in Urn, NEW seq \in BOOLEAN
    PROVE  /\ Waves(m, seq)[0] = {<<m, seq, FALSE>>}
           /\ \A n \in Nat : Waves(m, seq)[n + 1]
                                = UNION {{s} \cup Onward(s) : s \in Waves(m, seq)[n]}
<1> DEFINE X == SUBSET SearchState
           F == [S \in X |-> UNION {{s} \cup Onward(s) : s \in S}]
           Wave(f) == [n \in Nat |-> IF n = 0 THEN {<<m, seq, FALSE>>}
                                     ELSE UNION {{s} \cup Onward(s) : s \in f[n - 1]}]
<1>1. F \in [X -> X]
  <2> SUFFICES ASSUME NEW S \in X PROVE F[S] \in X
    OBVIOUS
  <2> QED
    BY OnwardStays
<1>2. {<<m, seq, FALSE>>} \in X
  <2>1. <<m, seq, FALSE>> \in SearchState
    BY Zenon DEF SearchState
  <2> QED
    BY <2>1
<1>3. PICK g \in [Nat -> X] : g[0] = {<<m, seq, FALSE>>} /\ \A n \in Nat : g[n + 1] = F[g[n]]
  <2> DEFINE start == {<<m, seq, FALSE>>}
  <2>1. start \in X
    BY <1>2
  <2> HIDE DEF X, F, start
  <2>2. \E g : Iterated(g, X, F, start)
    BY <1>1, <2>1, Iteration
  <2> QED
    BY <2>2, Zenon DEF Iterated, start
<1>4. g = Wave(g)
  <2>1. ASSUME NEW n \in Nat PROVE g[n] = Wave(g)[n]
    <3>1. CASE n = 0
      BY <3>1, <1>3
    <3>2. CASE n # 0
      <4>1. n - 1 \in Nat /\ n = (n - 1) + 1
        BY <3>2
      <4>2. g[n] = F[g[n - 1]] /\ g[n - 1] \in X
        BY <4>1, <1>3
      <4>3. Wave(g)[n] = UNION {{s} \cup Onward(s) : s \in g[n - 1]}
        BY <3>2
      <4> QED
        BY <4>2, <4>3
    <3> QED
      BY <3>1, <3>2
  <2> HIDE DEF X
  <2> QED
    BY <1>3, <2>1
<1> DEFINE W == CHOOSE f : f = Wave(f)
<1>5. Waves(m, seq) = W
  BY DEF Waves
<1> HIDE DEF Wave
<1>6. W = Wave(W)
  BY <1>4
<1> HIDE DEF W
<1>7. W[0] = {<<m, seq, FALSE>>}
  BY <1>6 DEF Wave
<1>8. ASSUME NEW n \in Nat PROVE W[n + 1] = UNION {{s} \cup Onward(s) : s \in W[n]}
  <2>2. (n + 1) - 1 = n /\ n + 1 \in Nat /\ n + 1 # 0
    OBVIOUS
  <2>1. Wave(W)[n + 1] = UNION {{s} \cup Onward(s) : s \in W[(n + 1) - 1]}
    BY <2>2, Zenon DEF Wave
  <2> QED
    BY <1>6, <2>1, <2>2
<1> QED
  BY <1>5, <1>7, <1>8

\* What a wave reaches stays reached.
LEMMA WavesGrow ==
    ASSUME NEW m \in Urn, NEW seq \in BOOLEAN, NEW n \in Nat
    PROVE  \A k \in Nat : Waves(m, seq)[n] \subseteq Waves(m, seq)[n + k]
<1> DEFINE w == Waves(m, seq)
           S == {k \in Nat : w[n] \subseteq w[n + k]}
<1>1. 0 \in S
  <2>1. n + 0 = n
    OBVIOUS
  <2> QED
    BY <2>1
<1>2. ASSUME NEW k \in Nat, k \in S PROVE k + 1 \in S
  <2>0. n + k \in Nat
    OBVIOUS
  <2>1. w[(n + k) + 1] = UNION {{s} \cup Onward(s) : s \in w[n + k]}
    BY <2>0, WavesStep, Zenon
  <2>2. w[n + k] \subseteq w[(n + k) + 1]
    BY <2>1
  <2>3. (n + k) + 1 = n + (k + 1)
    OBVIOUS
  <2> QED
    BY <1>2, <2>2, <2>3
<1> HIDE DEF S
<1>3. \A k \in Nat : k \in S
  BY <1>1, <1>2, SetInduction
<1> QED
  BY <1>3 DEF S

-----------------------------------------------------------------------------
\* The waves the strand is a branch of, and where the search is.
Reach == Waves(strand[1].from, strand[1].seq)
Here == <<current, isSeq, PendingForEach>>

\* The search is where the waves have been after as many steps, and so was
\* it when its last cap was taken.
InReach ==
    /\ Len(strand) <= MaxDepth /\ isSeq \in BOOLEAN
    /\ strand # <<>> =>
          /\ Here \in Reach[Len(strand)]
          /\ ~ PendingForEach =>
                \E s \in Reach[Len(strand) - 1] : \E d \in CapEdges(s[1], s[2]) :
                    MayFollow(s[3], d) /\ current = RuntimeOut(d.urn, s[1])

LEMMA ExtendsTheReach ==
    ASSUME InReach, strand \in Seq(StepSet), current \in Urn, Len(strand) < MaxDepth,
           NEW def, NEW m \in Urn, NEW seq \in BOOLEAN,
           Extend(def, m, seq),
           <<m, seq, def = Iterate>> \in Onward(Here),
           def # Iterate => /\ def \in CapEdges(current, isSeq)
                            /\ MayFollow(PendingForEach, def)
                            /\ m = RuntimeOut(def.urn, current)
    PROVE  InReach'
<1> DEFINE new == [def |-> def, from |-> current, seq |-> isSeq, to |-> m]
           n == Len(strand)
<1>1. strand' = Append(strand, new) /\ current' = m /\ isSeq' = seq
  BY DEF Extend
<1>2. n \in Nat /\ isSeq \in BOOLEAN
  BY DEF InReach
<1>3. strand' # <<>> /\ Len(strand') = n + 1 /\ strand'[n + 1] = new
      /\ (n # 0 => strand'[1] = strand[1])
  BY <1>1
<1>4. /\ strand'[1].from \in Urn /\ strand'[1].seq \in BOOLEAN
      /\ Here \in Reach'[n]
  <2>1. CASE strand = <<>>
    <3>1. n = 0 /\ strand'[1].from = current /\ strand'[1].seq = isSeq
      BY <2>1, <1>3
    <3>2. Here = <<current, isSeq, FALSE>>
      BY <2>1 DEF Here, PendingForEach
    <3>3. Reach'[0] = {<<current, isSeq, FALSE>>}
      <4>1. Waves(current, isSeq)[0] = {<<current, isSeq, FALSE>>}
        BY <1>2, WavesStep
      <4> QED
        BY <3>1, <4>1 DEF Reach
    <3> QED
      BY <1>2, <3>1, <3>2, <3>3
  <2>2. CASE strand # <<>>
    <3>1. n # 0 /\ strand[1] \in StepSet
      BY <2>2
    <3>2. strand'[1] = strand[1]
      BY <3>1, <1>3
    <3> QED
      BY <2>2, <3>1, <3>2 DEF StepSet, InReach, Reach
  <2> QED
    BY <2>1, <2>2
<1>5. Reach'[n + 1] = UNION {{s} \cup Onward(s) : s \in Reach'[n]}
  <2>1. Waves(strand'[1].from, strand'[1].seq)[n + 1]
           = UNION {{s} \cup Onward(s) : s \in Waves(strand'[1].from, strand'[1].seq)[n]}
    <3>1. ASSUME NEW a \in Urn, NEW b \in BOOLEAN
          PROVE  Waves(a, b)[n + 1] = UNION {{s} \cup Onward(s) : s \in Waves(a, b)[n]}
      BY <1>2, WavesStep, Zenon
    <3> QED
      BY <1>4, <3>1, Zenon
  <2> QED
    BY <2>1, Zenon DEF Reach
<1>6. <<m, seq, def = Iterate>> \in Reach'[n + 1]
  BY <1>4, <1>5
<1>7. PendingForEach' = (def = Iterate)
  <2>1. strand'[Len(strand')].def = def
    BY <1>3
  <2> QED
    BY <1>3, <2>1 DEF PendingForEach, Last
<1>8. Here' \in Reach'[n + 1]
  BY <1>1, <1>6, <1>7 DEF Here
<1>9. ASSUME def # Iterate
      PROVE  \E s \in Reach'[n] : \E d \in CapEdges(s[1], s[2]) :
                 MayFollow(s[3], d) /\ current' = RuntimeOut(d.urn, s[1])
  <2>1. Here[1] = current /\ Here[2] = isSeq /\ Here[3] = PendingForEach
    BY DEF Here
  <2> QED
    BY <1>1, <1>4, <1>9, <2>1
<1>10. Len(strand') <= MaxDepth /\ Len(strand') - 1 = n
  BY <1>2, <1>3, FlowAssumption
<1> QED
  BY <1>1, <1>3, <1>7, <1>8, <1>9, <1>10 DEF InReach

LEMMA ReachNext == InReach /\ Chain /\ [Next]_vars => InReach'
<1> SUFFICES ASSUME InReach, Chain, [Next]_vars PROVE InReach'
  OBVIOUS
<1>0. Here[1] = current /\ Here[2] = isSeq /\ Here[3] = PendingForEach
      /\ strand \in Seq(StepSet) /\ current \in Urn
  BY DEF Here, Chain
<1>1. CASE TakeCap
  <2>1. PICK d \in CapEdges(current, isSeq) :
            /\ MayFollow(PendingForEach, d)
            /\ Extend(d, RuntimeOut(d.urn, current), d.outSeq)
    BY <1>1 DEF TakeCap
  <2>2. d \in Defs
    BY DEF CapEdges, Graph
  <2>3. d.urn \in Cap /\ d.outSeq \in BOOLEAN /\ d # Iterate
    BY <2>2, FlowAssumption
  <2>4. RuntimeOut(d.urn, current) \in Urn
    BY <1>0, <2>3, RuntimeOutIsMedia
  <2>5. <<RuntimeOut(d.urn, current), d.outSeq, FALSE>> \in Onward(Here)
    BY <1>0, <2>1 DEF Onward, OnwardByCaps
  <2>6. <<RuntimeOut(d.urn, current), d.outSeq, d = Iterate>> \in Onward(Here)
    BY <2>3, <2>5
  <2>7. Len(strand) < MaxDepth
    BY <1>1 DEF TakeCap, MayExtend
  <2> QED
    BY <1>0, <2>1, <2>3, <2>4, <2>6, <2>7, ExtendsTheReach
<1>2. CASE TakeForEach
  <2>1. /\ ~ PendingForEach /\ Iterates(current, isSeq) /\ Len(strand) < MaxDepth
        /\ Extend(Iterate, current, FALSE)
    BY <1>2 DEF TakeForEach, MayExtend
  <2>2. <<current, FALSE, TRUE>> \in Onward(Here)
    BY <1>0, <2>1 DEF Onward
  <2>3. <<current, FALSE, Iterate = Iterate>> \in Onward(Here)
    BY <2>2
  <2> QED
    BY <1>0, <2>1, <2>3, ExtendsTheReach
<1>3. CASE UNCHANGED <<strand, current, isSeq>>
  BY <1>3 DEF InReach, Here, Reach, PendingForEach
<1> QED
  BY <1>1, <1>2, <1>3 DEF Next, Choose, Begin, Execute, Finish, searchVars, vars

\* The reachability check of the search (has_reachable_exact_target, breadth
\* first and to the search's own depth) never turns away a strand that the
\* search (iddfs_find_paths) would have recorded.
THEOREM NothingIsPruned == Spec => []PruneHidesNothing
<1>1. Init => InReach
  <2> SUFFICES ASSUME Init PROVE InReach
    OBVIOUS
  <2>1. strand = <<>> /\ isSeq \in BOOLEAN
    BY DEF Init
  <2>2. Len(strand) <= MaxDepth
    BY <2>1, FlowAssumption
  <2> QED
    BY <2>1, <2>2 DEF InReach
<1>2. FlowInv => Chain
  BY DEF FlowInv
<1>3. InReach /\ Chain => PruneHidesNothing
  <2> SUFFICES ASSUME InReach, Chain, Recordable
               PROVE  ~ Pruned(strand[1].from, strand[1].seq)
    BY DEF PruneHidesNothing
  <2> DEFINE n == Len(strand)
  <2>1. strand # <<>> /\ ~ PendingForEach /\ SameMedia(current, target)
    BY DEF Recordable, AtTarget
  <2>2. PICK s \in Reach[n - 1] : \E d \in CapEdges(s[1], s[2]) :
            MayFollow(s[3], d) /\ current = RuntimeOut(d.urn, s[1])
    BY <2>1 DEF InReach
  <2>3. /\ n \in Nat /\ n - 1 \in Nat /\ MaxDepth - n \in Nat
        /\ (n - 1) + (MaxDepth - n) = MaxDepth - 1
        /\ strand[1] \in StepSet
    <3>1. strand \in Seq(StepSet) /\ n <= MaxDepth
      BY DEF Chain, InReach
    <3>2. n \in Nat /\ n # 0 /\ strand[1] \in StepSet
      BY <2>1, <3>1
    <3> QED
      BY <3>1, <3>2, FlowAssumption
  <2>4. Reach[n - 1] \subseteq Reach[MaxDepth - 1]
    <3>1. strand[1].from \in Urn /\ strand[1].seq \in BOOLEAN
      BY <2>3 DEF StepSet
    <3>2. Reach[n - 1] \subseteq Reach[(n - 1) + (MaxDepth - n)]
      BY <2>3, <3>1, WavesGrow DEF Reach
    <3> QED
      BY <2>3, <3>2
  <2>5. s \in ReachedWithin(strand[1].from, strand[1].seq)
    BY <2>2, <2>4 DEF ReachedWithin, Reach
  <2> QED
    BY <2>1, <2>2, <2>5 DEF Pruned
<1> QED
  BY <1>1, <1>2, <1>3, ReachNext, Shape, PTL DEF Spec

-----------------------------------------------------------------------------
(* Who serves a step.                                                      *)

LEMMA FirstIsOne ==
    ASSUME NEW I \in SUBSET Nat, I # {}
    PROVE  First(I) \in I
<1> DEFINE R == {ss \in Nat \X Nat : ss[1] < ss[2]}
<1>1. IsWellFoundedOn(R, Nat)
  BY NatLessThanWellFounded, Zenon DEF OpToRel
<1>2. PICK x \in I : \A y \in I : ~ (<<y, x>> \in R)
  <2> HIDE DEF R
  <2> QED
    BY <1>1, WFMin
<1>3. ASSUME NEW y \in I PROVE x <= y
  <2>1. x \in Nat /\ y \in Nat /\ (y < x => <<y, x>> \in R)
    OBVIOUS
  <2> QED
    BY <1>2, <2>1
<1> QED
  BY <1>3 DEF First

\* Where one entry is as specific as the request, all the closest are.
LEMMA ClosestAreExact ==
    ASSUME NEW c \in Cap, NEW I, NEW r \in I,
           IsDispatchable(table[r].cap, c), Specificity(table[r].cap) = Specificity(c)
    PROVE  /\ r \in Closest(I, c)
           /\ \A i \in Closest(I, c) : /\ IsDispatchable(table[i].cap, c)
                                       /\ Specificity(table[i].cap) = Specificity(c)
<1>1. Specificity(c) \in Int /\ \A j \in I : Specificity(table[j].cap) \in Int
  BY SpecificityIsAnInteger
<1>2. Distance(table[r].cap, c) = 0 /\ \A j \in I : Distance(table[j].cap, c) \in Int
  BY <1>1 DEF Distance
<1>3. \A j \in I : ~ Closer(Distance(table[j].cap, c), 0)
  BY <1>2 DEF Closer, Size
<1>4. r \in Closest(I, c)
  BY <1>2, <1>3 DEF Closest
<1>5. ASSUME NEW i \in Closest(I, c)
      PROVE  IsDispatchable(table[i].cap, c) /\ Specificity(table[i].cap) = Specificity(c)
  <2>1. /\ i \in I /\ IsDispatchable(table[i].cap, c)
        /\ ~ Closer(0, Distance(table[i].cap, c))
    BY <1>2 DEF Closest
  <2>2. Distance(table[i].cap, c) = 0
    BY <1>2, <2>1 DEF Closer, Size
  <2> QED
    BY <1>1, <2>1, <2>2 DEF Distance
<1> QED
  BY <1>4, <1>5

\* The cap charged and the cap whose handler runs can both serve the request
\* and are as specific as the request.
AsSpecific(c) == IsDispatchable(c, request) /\ Specificity(c) = Specificity(request)

InstalledStep == /\ phase = "run" /\ at <= Len(strand) /\ step.def # Iterate
                 /\ \E i \in DOMAIN table : table[i].cap = request

LEMMA ServedExactly ==
    ASSUME FlowInv, table \in Tables, InstalledStep, Execute
    PROVE  /\ AsSpecific(charged') /\ AsSpecific(served')
           /\ \E i \in DOMAIN table : table[i].cap = charged'
           /\ \E i \in DOMAIN table : table[i].cap = served'
<1> DEFINE c == request
           Exact(i) == IsDispatchable(table[i].cap, c) /\ Specificity(table[i].cap) = Specificity(c)
           D == DOMAIN table
           r == First(Closest(D, c))
           H == HostTable(Route(c).host)
           q == First(Closest(H, c))
           own == {i \in H : table[i].cartridge = CartridgeFor(Route(c).host, c)}
<1>1. c \in Cap
  BY StepAt DEF InstalledStep
<1>2. D \subseteq Nat
  BY FlowAssumption
<1>3. \A I \in SUBSET D : Closest(I, c) \subseteq I
  BY DEF Closest
<1>4. PICK i0 \in D : table[i0].cap = c
  BY DEF InstalledStep
<1>5. Exact(i0)
  BY <1>1, <1>4, DispatchReflexive
<1>6. i0 \in Closest(D, c) /\ \A i \in Closest(D, c) : Exact(i)
  BY <1>1, <1>4, <1>5, ClosestAreExact
<1>7. r \in Closest(D, c) /\ r \in D /\ Exact(r)
  <2>1. Closest(D, c) \in SUBSET Nat /\ Closest(D, c) # {}
    BY <1>2, <1>3, <1>6
  <2> QED
    BY <1>3, <1>6, <2>1, FirstIsOne
<1>8. H \in SUBSET D /\ r \in H
  BY <1>7 DEF HostTable, Route
<1>9. r \in Closest(H, c) /\ \A i \in Closest(H, c) : Exact(i)
  <2> HIDE DEF H, r, D
  <2> QED
    BY <1>1, <1>7, <1>8, ClosestAreExact
<1>10. q \in Closest(H, c) /\ q \in H /\ Exact(q)
  <2>1. Closest(H, c) \in SUBSET Nat /\ Closest(H, c) # {}
    BY <1>2, <1>3, <1>8, <1>9
  <2> HIDE DEF H
  <2> QED
    BY <1>3, <1>8, <1>9, <2>1, FirstIsOne
<1>11. q \in own /\ own \in SUBSET D
  <2>1. CartridgeFor(Route(c).host, c) = table[q].cartridge
    BY DEF CartridgeFor
  <2> HIDE DEF H, q
  <2> QED
    BY <1>8, <1>10, <2>1
<1>12. \A i \in Closest(own, c) : Exact(i)
  <2> HIDE DEF own, q
  <2> QED
    BY <1>1, <1>10, <1>11, ClosestAreExact
<1>13. charged' = table[r].cap /\ served' \in {table[i].cap : i \in Closest(own, c)}
  <2>1. Closest(D, c) # {}
    BY <1>6
  <2>2. Serve
    BY <2>1 DEF Execute
  <2> QED
    BY <2>2 DEF Serve, Handlers, Route
<1>14. PICK i1 \in Closest(own, c) : served' = table[i1].cap
  BY <1>13
<1>15. Exact(i1) /\ i1 \in D
  BY <1>3, <1>11, <1>12, <1>14
<1> QED
  BY <1>7, <1>13, <1>14, <1>15 DEF AsSpecific

LEMMA OnlyExecute == FlowInv /\ InstalledStep /\ Next => Execute
<1> SUFFICES ASSUME FlowInv, InstalledStep, Next PROVE Execute
  OBVIOUS
<1>1. phase = "run" /\ at <= Len(strand) /\ step.def # Iterate
  BY DEF InstalledStep
<1>2. ~ TakeCap /\ ~ TakeForEach /\ ~ Choose /\ ~ Begin
  BY <1>1 DEF TakeCap, TakeForEach, MayExtend, Choose, Begin
<1>3. ~ Finish
  <2>1. at \in Nat /\ Len(strand) \in Nat
    BY <1>1, StepAt DEF FlowInv, Chain
  <2> QED
    BY <1>1, <2>1 DEF Finish
<1> QED
  BY <1>2, <1>3 DEF Next

\* Of a step whose cap is installed, the cap that is charged and the cap
\* whose handler runs can serve the request and are as specific as it, for
\* all the other caps installed that could: no fallback and no refinement is
\* ever taken in its place.
THEOREM NothingElseIsTaken ==
    Spec => [][InstalledStep => AsSpecific(charged') /\ AsSpecific(served')]_vars
<1>1. FlowInv /\ table \in Tables /\ [Next]_vars
          => [InstalledStep => AsSpecific(charged') /\ AsSpecific(served')]_vars
  BY OnlyExecute, ServedExactly
<1> QED
  BY <1>1, TableKept, Shape, PTL DEF Spec

\* No installed cap that can serve a cap of the registry is exactly as
\* specific as it, save itself.
NoTies ==
    \A t \in Tables : \A i \in DOMAIN t : \A d \in Defs :
        /\ IsDispatchable(t[i].cap, d.urn)
        /\ Specificity(t[i].cap) = Specificity(d.urn)
        => t[i].cap = d.urn

\* When a cap of the path is installed and nothing ties with it, the switch,
\* the host and the cartridge each choose it: its permit is the one charged
\* and its handler is the one that runs, whatever else could serve the
\* request and in whatever order it was installed.
THEOREM TheThreeChoicesAgree == ASSUME NoTies PROVE Spec => ServedByTheCapItself
<1> DEFINE Itself == InstalledStep => charged' = request /\ served' = request
<1>1. FlowInv /\ table \in Tables /\ [Next]_vars => [Itself]_vars
  <2> SUFFICES ASSUME FlowInv, table \in Tables, Next, InstalledStep
               PROVE  charged' = request /\ served' = request
    OBVIOUS
  <2>1. /\ AsSpecific(charged') /\ AsSpecific(served')
        /\ \E i \in DOMAIN table : table[i].cap = charged'
        /\ \E i \in DOMAIN table : table[i].cap = served'
    BY OnlyExecute, ServedExactly
  <2>2. step \in StepSet /\ step.def # Iterate
    BY StepAt DEF InstalledStep
  <2>3. step.def \in Defs
    BY <2>2 DEF StepSet
  <2>4. \A i \in DOMAIN table : AsSpecific(table[i].cap) => table[i].cap = request
    BY <2>3, NoTies DEF NoTies, AsSpecific, request
  <2> QED
    BY <2>1, <2>4
<1>2. Spec => [][Itself]_vars
  BY <1>1, TableKept, Shape, PTL DEF Spec
<1>3. [Itself]_vars => [phase = "run" /\ at <= Len(strand) /\ step.def # Iterate
           /\ (\E i \in DOMAIN table : table[i].cap = request)
       => charged' = request /\ served' = request]_vars
  BY DEF InstalledStep
<1> QED
  BY <1>2, <1>3, PTL DEF ServedByTheCapItself
=============================================================================
