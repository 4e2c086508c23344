----------------------------- MODULE MCAdmission -----------------------------
(* Small instances of Admission for TLC. *)
EXTENDS Admission, TLC

CONSTANTS c1, c2, c3, k1, k2, m1, m2

ThreeCallers == {c1, c2, c3}
TwoCallers == {c1, c2}
OneMaster == [k \in Keys |-> m1]
MasterPerKey == (k1 :> m1) @@ (k2 :> m2)
CallerSymmetry == Permutations(Callers)
==============================================================================
