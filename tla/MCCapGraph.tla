----------------------------- MODULE MCCapGraph ------------------------------
(***************************************************************************)
(* A cap that names two media definitions, in two snapshots: the second    *)
(* has a new version of one of the media, and of nothing else.             *)
(***************************************************************************)
EXTENDS CapGraph

CONSTANTS c, m, n

BothMedia == [k \in {c} |-> <<m, n>>]
TwoPins == {1, 2}
TwoManifests == [p \in TwoPins |-> [u \in {c, m, n} |-> IF u = m THEN p ELSE 1]]
=============================================================================
