----------------------------- MODULE PermitLine ------------------------------
(***************************************************************************)
(* What the admission controller promises its callers: per target a line   *)
(* in order of arrival and a set of callers inside.  The head of the line  *)
(* enters while the target is open and below its limit (0 = no limit);     *)
(* nobody enters out of turn, and a head that may enter eventually does,   *)
(* unless it leaves.  How a caller learns that its turn has come, and how  *)
(* long an outage is waited out, are left to the implementation.           *)
(***************************************************************************)
EXTENDS Naturals, Sequences, FiniteSets

CONSTANTS Callers, Keys, MaxCapacity

VARIABLES
  line,    \* per key: callers waiting, in order of arrival
  inside,  \* per key: callers that hold a permit
  limit,   \* per key: how many may be inside, 0 = any number
  open     \* per key: whether the target is available

vars == <<line, inside, limit, open>>

Waiting == UNION {{line[k][i] : i \in 1 .. Len(line[k])} : k \in Keys}
Inside == UNION {inside[k] : k \in Keys}

Join(c, k) ==
  /\ c \notin Waiting \cup Inside
  /\ line' = [line EXCEPT ![k] = Append(@, c)]
  /\ UNCHANGED <<inside, limit, open>>

Enter(c, k) ==
  /\ open[k]
  /\ limit[k] = 0 \/ Cardinality(inside[k]) < limit[k]
  /\ line[k] # <<>>
  /\ c = Head(line[k])
  /\ line' = [line EXCEPT ![k] = Tail(@)]
  /\ inside' = [inside EXCEPT ![k] = @ \cup {c}]
  /\ UNCHANGED <<limit, open>>

\* A caller gives up, wherever it stands in the line; the others keep their order.
GiveUp(c, k) ==
  /\ \E i \in 1 .. Len(line[k]) :
       /\ line[k][i] = c
       /\ line' = [line EXCEPT ![k] = SubSeq(@, 1, i - 1) \o SubSeq(@, i + 1, Len(@))]
  /\ UNCHANGED <<inside, limit, open>>

Leave(c, k) ==
  /\ c \in inside[k]
  /\ inside' = [inside EXCEPT ![k] = @ \ {c}]
  /\ UNCHANGED <<line, limit, open>>

\* The target opens, with whatever limit it advertises; ...
Open(k, n) ==
  /\ limit' = [limit EXCEPT ![k] = n]
  /\ open' = [open EXCEPT ![k] = TRUE]
  /\ UNCHANGED <<line, inside>>

\* ... and targets close together, when what serves them goes.
Close(K) ==
  /\ open' = [k \in Keys |-> open[k] /\ k \notin K]
  /\ UNCHANGED <<line, inside, limit>>

Init ==
  /\ line = [k \in Keys |-> <<>>]
  /\ inside = [k \in Keys |-> {}]
  /\ limit \in [Keys -> 0 .. MaxCapacity]
  /\ open = [k \in Keys |-> TRUE]

Next ==
  \/ \E c \in Callers, k \in Keys : Join(c, k) \/ Enter(c, k) \/ GiveUp(c, k) \/ Leave(c, k)
  \/ \E k \in Keys, n \in 0 .. MaxCapacity : Open(k, n)
  \/ \E K \in SUBSET Keys : Close(K)

Spec == Init /\ [][Next]_vars

FairSpec ==
  /\ Spec
  /\ \A c \in Callers, k \in Keys : WF_vars(Enter(c, k))
==============================================================================
