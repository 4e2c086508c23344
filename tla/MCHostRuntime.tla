---------------------------- MODULE MCHostRuntime -----------------------------
(***************************************************************************)
(* The requests TLC runs.                                                  *)
(***************************************************************************)
EXTENDS HostRuntime

CONSTANTS c1, c2, a, b, p

\* a and b are served by c1; in the service of a, c1 calls p.
Served == [r \in Requests |-> IF r = p THEN Elsewhere ELSE c1]
SelfLoop == [r \in Requests |-> IF r = p THEN c2 ELSE c1]
Called == [r \in Requests |-> IF r = p THEN c1 ELSE Elsewhere]
Parents == [r \in Requests |-> IF r = p THEN a ELSE None]
=============================================================================
