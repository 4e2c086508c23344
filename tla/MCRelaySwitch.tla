---------------------------- MODULE MCRelaySwitch ----------------------------
(* Small instances of RelaySwitch: two masters, two callers, two levels of    *)
(* peer calls and a probe, of which each scenario uses some.                  *)
EXTENDS RelaySwitch, TLC

\* The peer call of the first request, and a second level under it.
MCParents == ("p" :> "e") @@ ("q" :> "p")
OnePeer == "p" :> "e"

Both == {"m", "n"}
Quiet == [deaths |-> 0, attach |-> 0, notify |-> [m \in Both |-> 0], stops |-> 0, drops |-> 0,
          made |-> {"e"}, chatty |-> {}, offering |-> Both]

\* A request with a peer call, a death, and a cancellation.
DeathAndStop == [Quiet EXCEPT !.deaths = 1, !.stops = 1, !.made = {"e", "p"}]
\* Two callers for one handler slot, a death and a cancellation of all.
Contention == [Quiet EXCEPT !.deaths = 1, !.stops = 1, !.made = {"e", "f"},
                            !.offering = {"m"}]
\* Cancellations by the engine and by the pump over two levels of peer calls.
Cascade == [Quiet EXCEPT !.stops = 1, !.drops = 1, !.made = {"e", "p", "q"},
                         !.chatty = {"e"}, !.offering = {"m"}]
\* A master that comes by its first caps while a request is under way.
LateCaps == [Quiet EXCEPT !.deaths = 1, !.notify["n"] = 1, !.offering = {"m"}]
\* A master that dies and comes back, and a cancellation.
Reattach == [Quiet EXCEPT !.deaths = 1, !.attach = 1, !.stops = 1]
SafetyScenarios == {DeathAndStop, Contention, Cascade, LateCaps, Reattach}

\* A death anywhere between the steps of a request and its peer call, over two
\* masters with caps, and over one with continuations of the peer call.
LiveScenarios ==
  {[Quiet EXCEPT !.deaths = 1, !.made = {"e", "p"}],
   [Quiet EXCEPT !.deaths = 1, !.made = {"e", "p"}, !.chatty = {"p"}, !.offering = {"m"}]}

\* A master loses its caps and gets new ones, and a death while their probe is
\* pending.
ProbePending == {[Quiet EXCEPT !.deaths = 1, !.notify["m"] = 2]}
\* A death and a reattachment.
Reattached == {[Quiet EXCEPT !.deaths = 1, !.attach = 1]}
\* A death around a peer call.
PeerDeath == {[Quiet EXCEPT !.deaths = 1, !.made = {"e", "p"}]}
=============================================================================
