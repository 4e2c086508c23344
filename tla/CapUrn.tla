-------------------------------- MODULE CapUrn -------------------------------
(***************************************************************************)
(* What a cap URN means (urn/cap_urn.rs, urn/media_urn.rs): which caps     *)
(* accept, are equivalent to or can serve which others, which declarations *)
(* are admissible, and what a cap makes of the media type it is given.     *)
(*                                                                         *)
(* A tagged URN is a function from tag keys to the form its value has.     *)
(* The crate that parses and compares them is not part of the repository:  *)
(* its truth table is taken from how the code and its tests use it, for    *)
(* the three forms that occur in type paths (no tag, "key with any value", *)
(* an exact value); the qualified forms (?x, !x, x!=v, x?=v) are left out. *)
(***************************************************************************)

CONSTANTS
    Keys,      \* Tag keys
    Missing,   \* The form of a key that is not in the URN
    AnyValue,  \* The form of a bare key: present, with any value
    Values     \* Exact values

ASSUME FormsAssumption == /\ Missing # AnyValue
                          /\ Missing \notin Values /\ AnyValue \notin Values

Forms == {Missing, AnyValue} \cup Values
Urn == [Keys -> Forms]
Effects == {"declared", "none", "patch", "any"}
Cap == [in : Urn, out : Urn, tags : Urn, effect : Effects]

-----------------------------------------------------------------------------
(* Media URNs.                                                             *)

\* `media:`, the type of everything.
Top == [k \in Keys |-> Missing]

\* TaggedUrn::values_match: an instance that only says "some value" leaves
\* the choice to run time, so it matches an exact pattern too.
ValuesMatch(inst, patt) ==
    \/ patt = Missing
    \/ inst = patt
    \/ inst # Missing /\ (patt = AnyValue \/ inst = AnyValue)

Conforms(inst, patt) == \A k \in Keys : ValuesMatch(inst[k], patt[k])

SameMedia(a, b) == Conforms(a, b) /\ Conforms(b, a)

\* delta_from and apply_delta: what `to` changes of `from` is changed in m,
\* every other tag of m survives.
Patched(m, from, to) == [k \in Keys |-> IF to[k] # from[k] THEN to[k] ELSE m[k]]

\* Mutant: a tag all inputs have is kept with the value of one of them.
KeptFromOne(S) ==
    [k \in Keys |-> IF \E m \in S : m[k] = Missing THEN Missing
                    ELSE (CHOOSE m \in S : TRUE)[k]]

\* A tag all inputs share stays, one they all have with different values
\* becomes "any value", one that some input lacks is dropped.
LeastUpperBound(S) ==
    [k \in Keys |-> IF \E m \in S : m[k] = Missing THEN Missing
                    ELSE IF \E v \in Forms : \A m \in S : m[k] = v
                         THEN CHOOSE v \in Forms : \A m \in S : m[k] = v
                         ELSE AnyValue]

-----------------------------------------------------------------------------
(* Declarations and their effect.                                          *)

\* validate_admissible: what every parse of a cap URN enforces.
Admissible(c) ==
    /\ ~ (c.in = Top /\ c.out = Top /\ c.tags = Top /\ c.effect = "declared")
    /\ c.effect = "none" => Conforms(c.in, c.out)
    /\ c.effect = "patch" => Conforms(Patched(c.in, c.in, c.out), c.out)

\* The runtime type a cap gives its output.  An unconstrained effect is a
\* request's, and nothing can be inferred from it.
RuntimeOut(c, m) == CASE c.effect = "none"  -> m
                      [] c.effect = "patch" -> Patched(m, c.in, c.out)
                      [] OTHER              -> c.out

\* apply_to_runtime_input_media fails unless the input is one the cap
\* declares and the output inferred for it is one the cap declares.
Infers(c, m) == /\ Conforms(m, c.in)
                /\ c.effect # "any"
                /\ Conforms(RuntimeOut(c, m), c.out)

\* is_conformant_runtime_output: the audit of an emitted label.  An effect
\* that computes the type allows no other; a declared output may be refined.
IsConformantOutput(c, m, emitted) ==
    /\ Infers(c, m)
    /\ IF c.effect = "declared" THEN Conforms(emitted, RuntimeOut(c, m))
                                ELSE SameMedia(emitted, RuntimeOut(c, m))

-----------------------------------------------------------------------------
(* One cap against another.                                                *)

\* accepts: an axis on which the pattern says `media:` is not looked at.
Accepts(self, request) ==
    /\ self.in = Top \/ Conforms(request.in, self.in)
    /\ self.out = Top \/ Conforms(self.out, request.out)
    /\ self.effect = "any" \/ self.effect = request.effect
    /\ Conforms(request.tags, self.tags)

IsEquivalent(self, other) == Accepts(self, other) /\ Accepts(other, self)

InputDispatchable(self, request) ==
    request.in = Top \/ self.in = Top \/ Conforms(request.in, self.in)

OutputDispatchable(self, request) ==
    \/ request.out = Top
    \/ self.out # Top /\ Conforms(self.out, request.out)

EffectDispatchable(self, request) ==
    request.effect = "any" \/ self.effect = request.effect

CapTagsDispatchable(self, request) == Conforms(self.tags, request.tags)

\* is_dispatchable: can this cap serve that request?
IsDispatchable(self, request) ==
    /\ InputDispatchable(self, request)
    /\ OutputDispatchable(self, request)
    /\ EffectDispatchable(self, request)
    /\ CapTagsDispatchable(self, request)
=============================================================================
