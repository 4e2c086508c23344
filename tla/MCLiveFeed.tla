----------------------------- MODULE MCLiveFeed -----------------------------
(* Small instances of LiveFeed: rings of one and two items.                   *)
EXTENDS LiveFeed

Shape(r, p, m, t) ==
  [ring |-> r, policy |-> p, maxItems |-> m, timed |-> t]

EverySelector ==
  {Shape(r, p, m, t) : r \in {1, 2}, p \in {"drop-oldest", "fail"}, m \in {0, 3},
                       t \in BOOLEAN}
DropOldest == {Shape(1, "drop-oldest", 0, FALSE)}
=============================================================================
