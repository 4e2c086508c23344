--------------------------- MODULE CapGraphProofs ----------------------------
(***************************************************************************)
(* What the registry keeps for every set of definitions, every sequence of *)
(* snapshots and every number of callers: a cap a fetch caches has its     *)
(* media, nothing cached is of another snapshot, and the queue forgets no  *)
(* key.  The graph uses the registry as RegistrySpec says it may be used, so*)
(* what is proved of the registry holds under the switch; and the graph    *)
(* never misses a definition that has landed.                              *)
(***************************************************************************)
EXTENDS CapGraph, FiniteSetTheorems, TLAPS


(***************************************************************************)
(* The inductive invariant.  Between its awaits a fetch relies on what it  *)
(* saw before them: the media in front of the one it awaits are cached.    *)
(***************************************************************************)
FetchOK(t) ==
    /\ task[t] \in [key : SUBSET Defs, at : Nat]
    /\ Busy(t) => Running
    /\ \A u, v \in task[t].key : u = v
    /\ \A u \in task[t].key :
         /\ task[t].at <= Len(MediaOf(u))
         /\ \A i \in 1 .. task[t].at - 1 : Cached(MediaOf(u)[i])

Inv ==
    /\ pin \in Pins \cup {0} /\ mem \in [Defs -> Nat]
    /\ task \in [Tasks -> [key : SUBSET Defs, at : Nat]]
    /\ \A t \in Tasks : FetchOK(t)
    /\ FetchedCapsHaveMedia
    /\ OfThePinnedSnapshot

LEMMA MediaType ==
    ASSUME NEW u \in Defs
    PROVE  MediaOf(u) \in Seq(Leaves)
<1> QED
  BY RegistryAssumption DEF MediaOf

LEMMA PinnedType ==
    ASSUME pin \in Pins, NEW u \in Defs
    PROVE  Pinned(u) \in Nat
<1> QED
  BY RegistryAssumption DEF Pinned

-----------------------------------------------------------------------------
(* Each operation.                                                         *)

LEMMA InitInv == Init => Inv
<1> QED
  BY RegistryAssumption DEF Init, Inv, FetchOK, Idle, Busy, Nothing, FetchedCapsHaveMedia,
     OfThePinnedSnapshot, Cached, Defs, Tasks

LEMMA StartInv == ASSUME Inv, NEW p \in Pins, Start(p) PROVE Inv'
<1>1. \A u \in Defs : mem'[u] # 0 => mem'[u] = Manifest[p][u]
  BY DEF Start, Retain, Nothing
<1>2. mem' \in [Defs -> Nat]
  <2>1. CASE mem' = Nothing
    BY <2>1 DEF Nothing
  <2>2. ASSUME NEW f \in Walks, mem' = Retain(f, p) PROVE mem' \in [Defs -> Nat]
    BY <2>2, RegistryAssumption DEF Retain, Walks
  <2> QED
    BY <2>1, <2>2 DEF Start
<1>3. Pins \subseteq Nat \ {0} /\ pin' = p /\ pin = 0 /\ UNCHANGED task
  BY RegistryAssumption DEF Start, Running
<1>4. \A t \in Tasks : FetchOK(t)'
  BY <1>3 DEF Inv, FetchOK, Running, Busy
<1>5. FetchedCapsHaveMedia'
  BY DEF Start, FetchedCapsHaveMedia, Cached, Defs
<1>6. OfThePinnedSnapshot'
  BY <1>1, <1>3 DEF OfThePinnedSnapshot, Cached, Running, Pinned
<1> QED
  BY <1>2, <1>3, <1>4, <1>5, <1>6 DEF Inv

LEMMA ExitInv == ASSUME Inv, Exit PROVE Inv'
<1>1. mem' = Nothing /\ pin' = 0 /\ task' = [t \in Tasks |-> Idle]
  BY DEF Exit
<1>2. \A t \in Tasks : FetchOK(t)'
  BY <1>1 DEF FetchOK, Idle, Busy, Defs, Inv
<1>3. FetchedCapsHaveMedia' /\ OfThePinnedSnapshot'
  BY <1>1 DEF FetchedCapsHaveMedia, OfThePinnedSnapshot, Cached, Nothing, Defs
<1> QED
  BY <1>1, <1>2, <1>3 DEF Inv, Idle, Nothing

\* A task that takes up a key, or drops one, disturbs nothing cached.
LEMMA TaskInv ==
    ASSUME Inv, NEW t \in Tasks, NEW new,
           new = Idle \/ (Running /\ \E u \in Defs : new = Fetching(u)),
           task' = [task EXCEPT ![t] = new],
           UNCHANGED <<pin, mem, loaded>>
    PROVE  Inv'
<1>1. new \in [key : SUBSET Defs, at : Nat]
  BY DEF Idle, Fetching
<1>2. ASSUME NEW o \in Tasks PROVE FetchOK(o)'
  <2>1. CASE o # t
    <3>1. task'[o] = task[o]
      BY <2>1 DEF Inv
    <3> QED
      BY <3>1, <1>2 DEF Inv, FetchOK, Busy, Running, Cached
  <2>2. CASE o = t
    <3>1. task'[o] = new /\ new.at = 0
      BY <2>2 DEF Inv, Idle, Fetching
    <3>2. \A u \in new.key : u \in Defs /\ 0 <= Len(MediaOf(u))
      BY <1>1, MediaType
    <3>3. new.key # {} => Running'
      BY DEF Idle, Fetching, Running
    <3>4. \A u, v \in new.key : u = v
      BY DEF Idle, Fetching
    <3> QED
      BY <3>1, <3>2, <3>3, <3>4, <1>1 DEF FetchOK, Busy
  <2> QED
    BY <2>1, <2>2
<1> QED
  BY <1>1, <1>2 DEF Inv, FetchedCapsHaveMedia, OfThePinnedSnapshot, Cached, Running, Pinned

\* What a fetch stores was not cached, or is what was cached already: a store
\* only ever adds.
LEMMA StoreAdds ==
    ASSUME Inv, pin \in Pins, NEW us \in SUBSET Defs, Store(us)
    PROVE  /\ mem' \in [Defs -> Nat]
           /\ \A u \in Defs : mem[u] # 0 => mem'[u] # 0
           /\ \A u \in us : mem'[u] = Pinned(u)
           /\ \A u \in Defs \ us : mem'[u] = mem[u]
<1>1. \A u \in us : mem'[u] = Pinned(u)
  BY DEF Store
<1>2. \A u \in Defs \ us : mem'[u] = mem[u]
  BY DEF Store
<1>3. mem' \in [Defs -> Nat]
  <2>1. \A u \in Defs : Pinned(u) \in Nat
    BY PinnedType
  <2> QED
    BY <2>1 DEF Store, Inv
<1>4. ASSUME NEW u \in Defs, mem[u] # 0 PROVE mem'[u] # 0
  BY <1>1, <1>2, <1>4 DEF Inv, OfThePinnedSnapshot, Cached
<1> QED
  BY <1>1, <1>2, <1>3, <1>4

LEMMA BodyInv == ASSUME Inv, NEW t \in Tasks, Body(t) PROVE Inv'
<1> DEFINE at == task[t].at
           awaited(u) == IF at = 0 THEN u ELSE MediaOf(u)[at]
           leaf(u) == {awaited(u)} \cap Leaves
           known(u) == [v \in Defs |-> IF v \in leaf(u) THEN Pinned(v) ELSE mem[v]]
           stored(u, k) == IF k > Len(MediaOf(u)) THEN leaf(u) \cup {u} ELSE leaf(u)
<1>1. PICK u \in task[t].key : \E k \in at + 1 .. Len(MediaOf(u)) + 1 :
        /\ Pinned(awaited(u)) # 0
        /\ NextMissing(MediaOf(u), known(u), at, k)
        /\ Store(stored(u, k))
        /\ task' = [task EXCEPT ![t] = IF k > Len(MediaOf(u)) THEN Idle ELSE [@ EXCEPT !.at = k]]
        /\ pin' = pin
  BY DEF Body
<1>2. PICK k \in at + 1 .. Len(MediaOf(u)) + 1 :
        /\ Pinned(awaited(u)) # 0
        /\ NextMissing(MediaOf(u), known(u), at, k)
        /\ Store(stored(u, k))
        /\ task' = [task EXCEPT ![t] = IF k > Len(MediaOf(u)) THEN Idle ELSE [@ EXCEPT !.at = k]]
        /\ pin' = pin
  BY <1>1
<1>3. /\ u \in Defs /\ at \in Nat /\ at <= Len(MediaOf(u))
      /\ \A i \in 1 .. at - 1 : mem[MediaOf(u)[i]] # 0
      /\ \A v \in task[t].key : u = v
      /\ pin \in Pins /\ Running
  BY <1>1 DEF Inv, FetchOK, Busy, Running, Cached
<1>4. /\ MediaOf(u) \in Seq(Leaves) /\ Len(MediaOf(u)) \in Nat
      /\ \A i \in 1 .. Len(MediaOf(u)) : MediaOf(u)[i] \in Leaves
  BY <1>3, MediaType
<1>5. leaf(u) \subseteq Leaves /\ stored(u, k) \in SUBSET Defs
  BY <1>3 DEF Defs
<1>6. /\ mem' \in [Defs -> Nat]
      /\ \A v \in Defs : mem[v] # 0 => mem'[v] # 0
      /\ \A v \in stored(u, k) : mem'[v] = Pinned(v)
      /\ \A v \in Defs \ stored(u, k) : mem'[v] = mem[v]
  <2> HIDE DEF stored
  <2> QED
    BY <1>2, <1>3, <1>5, StoreAdds
\* The media up to the k-th are cached.
<1>7. ASSUME NEW i \in 1 .. k - 1 PROVE mem'[MediaOf(u)[i]] # 0
  <2>1. i \in 1 .. Len(MediaOf(u)) /\ MediaOf(u)[i] \in Leaves /\ MediaOf(u)[i] \in Defs
    BY <1>2, <1>3, <1>4, <1>7 DEF Defs
  <2>2. CASE i < at
    BY <2>1, <2>2, <1>3, <1>6
  <2>3. CASE i = at
    <3>1. awaited(u) = MediaOf(u)[i] /\ awaited(u) \in leaf(u)
      BY <2>1, <2>3
    <3>2. mem'[awaited(u)] = Pinned(awaited(u))
      BY <3>1, <1>6
    <3> QED
      BY <3>1, <3>2, <1>2
  <2>4. CASE i > at
    <3>1. known(u)[MediaOf(u)[i]] # 0
      BY <2>1, <2>4, <1>2, <1>3 DEF NextMissing
    <3>2. CASE MediaOf(u)[i] \in leaf(u)
      BY <3>1, <3>2, <2>1, <1>6
    <3>3. CASE MediaOf(u)[i] \notin leaf(u)
      BY <3>1, <3>3, <2>1, <1>6
    <3> QED
      BY <3>2, <3>3
  <2> QED
    BY <2>2, <2>3, <2>4, <1>3, <2>1
<1>8. ASSUME NEW o \in Tasks PROVE FetchOK(o)' /\ task'[o] \in [key : SUBSET Defs, at : Nat]
  <2>1. CASE o # t
    <3>1. task'[o] = task[o] /\ FetchOK(o)
      BY <2>1, <1>2 DEF Inv
    <3>2. ASSUME NEW v \in task[o].key
          PROVE  \A i \in 1 .. task[o].at - 1 : mem'[MediaOf(v)[i]] # 0
      <4>1. v \in Defs /\ task[o].at \in Nat /\ task[o].at <= Len(MediaOf(v))
        BY <3>1, <3>2 DEF FetchOK
      <4>2. \A i \in 1 .. task[o].at - 1 : MediaOf(v)[i] \in Defs /\ mem[MediaOf(v)[i]] # 0
        BY <4>1, <3>1, <3>2, MediaType DEF FetchOK, Cached, Defs
      <4> QED
        BY <4>2, <1>6
    <3> QED
      BY <3>1, <3>2, <1>2 DEF FetchOK, Busy, Running, Cached
  <2>2. CASE o = t /\ k > Len(MediaOf(u))
    BY <2>2, <1>2 DEF Inv, FetchOK, Idle, Busy
  <2>3. CASE o = t /\ ~(k > Len(MediaOf(u)))
    <3>1. task'[o] = [task[t] EXCEPT !.at = k]
      BY <2>3, <1>2 DEF Inv
    <3>2. task'[o].key = task[t].key /\ task'[o].at = k /\ k \in Nat
          /\ task'[o] \in [key : SUBSET Defs, at : Nat]
      <4>1. k \in Nat
        BY <1>2, <1>3, <1>4
      <4>2. task[t] \in [key : SUBSET Defs, at : Nat]
        BY DEF Inv
      <4> QED
        BY <3>1, <4>1, <4>2
    <3>3. k <= Len(MediaOf(u))
      BY <2>3, <1>2, <1>3, <1>4
    <3> QED
      BY <3>2, <3>3, <1>2, <1>3, <1>7 DEF Inv, FetchOK, Busy, Running, Cached
  <2> QED
    BY <2>1, <2>2, <2>3
<1>9. FetchedCapsHaveMedia'
  <2> SUFFICES ASSUME NEW c \in Caps, c \notin loaded', mem'[c] # 0, NEW i \in DOMAIN Refs[c]
               PROVE  mem'[Refs[c][i]] # 0
    BY DEF FetchedCapsHaveMedia, Cached
  <2>1. Refs[c] \in Seq(Leaves) /\ Refs[c][i] \in Defs /\ c \in Defs
    BY RegistryAssumption DEF Defs
  <2>2. CASE c \in stored(u, k)
    <3>1. c = u /\ k = Len(MediaOf(u)) + 1 /\ MediaOf(u) = Refs[c]
      <4>1. c \notin leaf(u)
        BY <1>5, RegistryAssumption
      <4>2. c = u /\ k > Len(MediaOf(u))
        BY <4>1, <2>2
      <4>3. k \in at + 1 .. Len(MediaOf(u)) + 1
        OBVIOUS
      <4> HIDE DEF stored, leaf, known, awaited
      <4> QED
        BY <4>2, <4>3, <1>3, <1>4 DEF MediaOf
    <3> QED
      BY <3>1, <1>7, <2>1
  <2>3. CASE c \notin stored(u, k)
    <3>1. c \notin loaded /\ mem[c] # 0
      BY <2>1, <2>3, <1>2, <1>6 DEF Store
    <3> QED
      BY <3>1, <2>1, <1>6 DEF Inv, FetchedCapsHaveMedia, Cached
  <2> QED
    BY <2>2, <2>3
<1>10. OfThePinnedSnapshot'
  <2> SUFFICES ASSUME NEW v \in Defs, mem'[v] # 0 PROVE mem'[v] = Pinned(v)
    BY <1>2, <1>3 DEF OfThePinnedSnapshot, Cached, Running, Pinned
  <2> QED
    BY <1>6 DEF Inv, OfThePinnedSnapshot, Cached
<1>11. task' \in [Tasks -> [key : SUBSET Defs, at : Nat]]
  <2>1. DOMAIN task' = Tasks /\ task' = [o \in Tasks |-> task'[o]]
    BY <1>2 DEF Inv
  <2> QED
    BY <2>1, <1>8
<1> QED
  BY <1>2, <1>3, <1>6, <1>8, <1>9, <1>10, <1>11 DEF Inv

-----------------------------------------------------------------------------
(* The queue.                                                              *)

QueueInv == queue \in Seq(Defs) /\ QueueTracksKeys

\* What SetToSeqs gives: every element once.
LEMMA EachOnce ==
    ASSUME NEW S, IsFiniteSet(S), NEW s \in SetToSeqs(S)
    PROVE  s \in Seq(S) /\ Range(s) = S /\ IsInjective(s)
<1> DEFINE n == Cardinality(S)
<1>1. n \in Nat /\ s \in [1 .. n -> S] /\ \A i, j \in 1 .. n : i # j => s[i] # s[j]
  BY FS_CardinalityType DEF SetToSeqs
<1>2. s \in Seq(S) /\ IsInjective(s)
  BY <1>1 DEF IsInjective
<1>3. s \in Injection(1 .. n, S)
  BY <1>1 DEF Injection, IsInjective
<1>4. Cardinality(1 .. n) = Cardinality(S)
  BY <1>1, FS_Interval
<1>5. s \in Surjection(1 .. n, S)
  BY <1>3, <1>4, FS_Injection
<1>6. Range(s) = S
  BY <1>1, <1>5 DEF Surjection, Range
<1> QED
  BY <1>2, <1>6

LEMMA Appended ==
    ASSUME NEW S, NEW q \in Seq(S), NEW s \in Seq(S), IsInjective(q), IsInjective(s),
           Range(q) \cap Range(s) = {}
    PROVE  q \o s \in Seq(S) /\ Range(q \o s) = Range(q) \cup Range(s) /\ IsInjective(q \o s)
<1> DEFINE r == q \o s
           m == Len(q)
           n == Len(s)
<1>1. /\ r \in Seq(S) /\ Len(r) = m + n /\ m \in Nat /\ n \in Nat
      /\ DOMAIN r = 1 .. m + n /\ DOMAIN q = 1 .. m /\ DOMAIN s = 1 .. n
      /\ \A i \in 1 .. m + n : r[i] = IF i <= m THEN q[i] ELSE s[i - m]
  OBVIOUS
<1> HIDE DEF r, m, n
<1>2. ASSUME NEW i \in 1 .. m PROVE q[i] \in Range(q) /\ r[i] = q[i]
  <2>1. q[i] \in Range(q)
    BY <1>1 DEF Range
  <2>2. i \in 1 .. m + n /\ i <= m
    BY <1>1
  <2> QED
    BY <2>1, <2>2, <1>1
<1>3. ASSUME NEW i \in 1 .. n PROVE s[i] \in Range(s) /\ r[m + i] = s[i] /\ m + i \in 1 .. m + n
  <2>1. s[i] \in Range(s)
    BY <1>1 DEF Range
  <2>2. m + i \in 1 .. m + n /\ ~(m + i <= m) /\ (m + i) - m = i
    BY <1>1
  <2> QED
    BY <2>1, <2>2, <1>1
<1>4. Range(r) \subseteq Range(q) \cup Range(s)
  <2> SUFFICES ASSUME NEW i \in 1 .. m + n PROVE r[i] \in Range(q) \cup Range(s)
    BY <1>1 DEF Range
  <2>1. CASE i <= m
    BY <2>1, <1>1, <1>2
  <2>2. CASE i > m
    <3>1. i - m \in 1 .. n /\ r[i] = s[i - m]
      BY <2>2, <1>1
    <3> QED
      BY <3>1, <1>3
  <2> QED
    BY <2>1, <2>2, <1>1
<1>5. Range(q) \subseteq Range(r)
  <2> SUFFICES ASSUME NEW i \in 1 .. m PROVE q[i] \in Range(r)
    BY <1>1 DEF Range
  <2>1. i \in 1 .. m + n
    BY <1>1
  <2> QED
    BY <2>1, <1>1, <1>2 DEF Range
<1>6. Range(s) \subseteq Range(r)
  <2> SUFFICES ASSUME NEW i \in 1 .. n PROVE s[i] \in Range(r)
    BY <1>1 DEF Range
  <2> QED
    BY <1>1, <1>3 DEF Range
<1>7. IsInjective(r)
  <2> SUFFICES ASSUME NEW i \in 1 .. m + n, NEW j \in 1 .. m + n, r[i] = r[j] PROVE i = j
    BY <1>1 DEF IsInjective
  <2>1. CASE i <= m /\ j <= m
    BY <2>1, <1>1 DEF IsInjective
  <2>2. CASE i > m /\ j > m
    <3>1. i - m \in 1 .. n /\ j - m \in 1 .. n /\ s[i - m] = s[j - m]
      BY <2>2, <1>1
    <3>2. i - m = j - m
      BY <3>1, <1>1 DEF IsInjective
    <3> QED
      BY <3>2, <1>1
  <2>3. CASE i <= m /\ j > m
    <3>0. i \in 1 .. m /\ j - m \in 1 .. n
      BY <2>3, <1>1
    <3>1. i \in 1 .. m /\ j - m \in 1 .. n /\ r[j] = s[j - m]
      BY <2>3, <3>0, <1>1
    <3>2. r[i] \in Range(q) /\ r[j] \in Range(s)
      BY <3>1, <1>2, <1>3
    <3> QED
      BY <3>2
  <2>4. CASE i > m /\ j <= m
    <3>0. j \in 1 .. m /\ i - m \in 1 .. n
      BY <2>4, <1>1
    <3>1. j \in 1 .. m /\ i - m \in 1 .. n /\ r[i] = s[i - m]
      BY <2>4, <3>0, <1>1
    <3>2. r[j] \in Range(q) /\ r[i] \in Range(s)
      BY <3>1, <1>2, <1>3
    <3> QED
      BY <3>2
  <2> QED
    BY <2>1, <2>2, <2>3, <2>4, <1>1
<1> QED
  BY <1>1, <1>4, <1>5, <1>6, <1>7 DEF r

LEMMA Dequeued ==
    ASSUME NEW S, NEW q \in Seq(S), q # <<>>, IsInjective(q)
    PROVE  /\ Head(q) \in S /\ Head(q) \in Range(q)
           /\ Tail(q) \in Seq(S) /\ Range(Tail(q)) = Range(q) \ {Head(q)} /\ IsInjective(Tail(q))
<1> DEFINE r == Tail(q)
           n == Len(q)
<1>1. /\ n \in Nat \ {0} /\ r \in Seq(S) /\ Len(r) = n - 1 /\ Head(q) = q[1] /\ q[1] \in S
      /\ DOMAIN q = 1 .. n /\ DOMAIN r = 1 .. n - 1
      /\ \A i \in 1 .. n - 1 : r[i] = q[i + 1]
  OBVIOUS
<1> HIDE DEF r, n
<1>2. Head(q) \in Range(q)
  <2>1. 1 \in 1 .. n
    BY <1>1
  <2> QED
    BY <2>1, <1>1 DEF Range
<1>3. Range(r) \subseteq Range(q) \ {Head(q)}
  <2> SUFFICES ASSUME NEW i \in 1 .. n - 1 PROVE r[i] \in Range(q) /\ r[i] # q[1]
    BY <1>1 DEF Range
  <2>1. i + 1 \in 1 .. n /\ 1 \in 1 .. n /\ i + 1 # 1 /\ r[i] = q[i + 1]
    BY <1>1
  <2> QED
    BY <2>1, <1>1 DEF Range, IsInjective
<1>4. Range(q) \ {Head(q)} \subseteq Range(r)
  <2> SUFFICES ASSUME NEW i \in 1 .. n, q[i] # q[1] PROVE q[i] \in Range(r)
    BY <1>1 DEF Range
  <2>1. i # 1
    OBVIOUS
  <2>2. i - 1 \in 1 .. n - 1 /\ r[i - 1] = q[i]
    BY <2>1, <1>1
  <2> QED
    BY <2>2, <1>1 DEF Range
<1>5. IsInjective(r)
  <2> SUFFICES ASSUME NEW i \in 1 .. n - 1, NEW j \in 1 .. n - 1, r[i] = r[j] PROVE i = j
    BY <1>1 DEF IsInjective
  <2>1. i + 1 \in 1 .. n /\ j + 1 \in 1 .. n /\ q[i + 1] = q[j + 1]
    BY <1>1
  <2>2. i + 1 = j + 1
    BY <2>1, <1>1 DEF IsInjective
  <2> QED
    BY <2>2, <1>1
<1> QED
  BY <1>1, <1>2, <1>3, <1>4, <1>5 DEF r

LEMMA EnqueueQueue ==
    ASSUME QueueInv, NEW us \in SUBSET Defs, IsFiniteSet(us), Enqueue(us),
           task'[Consumer].key = task[Consumer].key
    PROVE  QueueInv'
<1> DEFINE new == us \ inQueue
<1>1. PICK s \in SetToSeqs(new) : queue' = queue \o s
  BY DEF Enqueue
<1>2. inQueue' = inQueue \cup new
  BY DEF Enqueue
<1>3. IsFiniteSet(new)
  BY FS_Subset
<1>4. s \in Seq(new) /\ Range(s) = new /\ IsInjective(s)
  <2> HIDE DEF new
  <2> QED
    BY <1>1, <1>3, EachOnce
<1>5. s \in Seq(Defs)
  BY <1>4
<1>6. queue \in Seq(Defs) /\ IsInjective(queue) /\ Range(queue) \cap Range(s) = {}
  BY <1>4 DEF QueueInv, QueueTracksKeys
<1>7. queue' \in Seq(Defs) /\ Range(queue') = Range(queue) \cup new /\ IsInjective(queue')
  BY <1>1, <1>4, <1>5, <1>6, Appended
<1> QED
  BY <1>2, <1>7 DEF QueueInv, QueueTracksKeys

LEMMA QueueStep ==
    ASSUME Inv, QueueInv, [RegistryNext]_registryVars
    PROVE  QueueInv'
<1>1. CASE UNCHANGED registryVars
  BY <1>1 DEF registryVars, QueueInv, QueueTracksKeys
<1>2. ASSUME NEW p \in Pins, Start(p) PROVE QueueInv'
  BY <1>2 DEF Start, QueueInv, QueueTracksKeys
<1>3. CASE Wipe
  BY <1>3 DEF Wipe, QueueInv, QueueTracksKeys
<1>4. CASE Take
  <2>1. task[Consumer].key = {} /\ Consumer \in Tasks
    BY <1>4 DEF Take, Busy, Tasks
  <2>2. /\ queue \in Seq(Defs) /\ queue # <<>> /\ IsInjective(queue)
        /\ queue' = Tail(queue) /\ inQueue = Range(queue)
    BY <1>4, <2>1 DEF Take, QueueInv, QueueTracksKeys
  <2>3. /\ Head(queue) \in Range(queue) /\ queue' \in Seq(Defs)
        /\ Range(queue') = Range(queue) \ {Head(queue)} /\ IsInjective(queue')
    BY <2>2, Dequeued
  <2>4. CASE Cached(Head(queue))
    <3>1. inQueue' = inQueue \ {Head(queue)} /\ task' = task
      BY <1>4, <2>4 DEF Take
    <3> QED
      BY <3>1, <2>1, <2>2, <2>3 DEF QueueInv, QueueTracksKeys
  <2>5. CASE ~Cached(Head(queue))
    <3>1. inQueue' = inQueue /\ task'[Consumer].key = {Head(queue)}
      BY <1>4, <2>1, <2>5 DEF Take, Fetching, Inv
    <3> QED
      BY <3>1, <2>1, <2>2, <2>3 DEF QueueInv, QueueTracksKeys
  <2> QED
    BY <2>4, <2>5
<1>5. ASSUME NEW t \in Tasks, Body(t) PROVE QueueInv'
  <2>1. /\ queue' = queue
        /\ \/ task'[t].key = {} /\ inQueue' = Released(t)
           \/ task'[t].key = task[t].key /\ inQueue' = inQueue
        /\ \A o \in Tasks \ {t} : task'[o] = task[o]
    BY <1>5 DEF Body, Inv, Idle
  <2>2. Consumer \in Tasks
    BY DEF Tasks
  <2>3. CASE t = Consumer
    BY <2>1, <2>3 DEF Released, QueueInv, QueueTracksKeys
  <2>4. CASE t # Consumer
    <3>1. inQueue' = inQueue /\ task'[Consumer] = task[Consumer]
      BY <2>1, <2>2, <2>4 DEF Released
    <3> QED
      BY <2>1, <3>1 DEF QueueInv, QueueTracksKeys
  <2> QED
    BY <2>3, <2>4
<1>6. ASSUME NEW t \in Tasks, Fail(t) PROVE QueueInv'
  <2>1. task' = [task EXCEPT ![t] = Idle] /\ Consumer \in Tasks /\ Consumer \notin Syncers
    BY <1>6, RegistryAssumption DEF Fail, Tasks
  <2>2. CASE t \in Syncers
    <3>1. Enqueue(task[t].key) /\ task'[Consumer] = task[Consumer]
      BY <1>6, <2>1, <2>2 DEF Fail, Inv
    <3>2. task[t].key \in SUBSET Defs /\ \A u, v \in task[t].key : u = v
      BY DEF Inv, FetchOK
    <3>3. IsFiniteSet(task[t].key)
      <4>1. CASE task[t].key = {}
        BY <4>1, FS_EmptySet
      <4>2. ASSUME NEW u \in task[t].key PROVE IsFiniteSet(task[t].key)
        <5>1. task[t].key = {u}
          BY <3>2, <4>2
        <5> QED
          BY <5>1, FS_Singleton
      <4> QED
        BY <4>1, <4>2
    <3> QED
      BY <3>1, <3>2, <3>3, EnqueueQueue
  <2>3. CASE t = Consumer
    <3>1. task'[Consumer].key = {} /\ inQueue' = inQueue \ task[Consumer].key /\ queue' = queue
      BY <1>6, <2>1, <2>3 DEF Fail, Released, Idle, Inv
    <3> QED
      BY <3>1 DEF QueueInv, QueueTracksKeys
  <2>4. CASE t # Consumer /\ t \notin Syncers
    <3>1. task'[Consumer] = task[Consumer] /\ inQueue' = inQueue /\ queue' = queue
      BY <1>6, <2>1, <2>4 DEF Fail, Released, Inv
    <3> QED
      BY <3>1 DEF QueueInv, QueueTracksKeys
  <2> QED
    BY <2>2, <2>3, <2>4
<1>7. ASSUME NEW t \in Tasks, NEW u \in Defs, Lookup(t, u) PROVE QueueInv'
  <2>1. task'[Consumer] = task[Consumer] /\ inQueue' = inQueue /\ queue' = queue
    BY <1>7 DEF Lookup, Inv, Tasks
  <2> QED
    BY <2>1 DEF QueueInv, QueueTracksKeys
<1>8. CASE Exit
  <2>1. queue' = <<>> /\ inQueue' = {} /\ task'[Consumer].key = {}
    BY <1>8 DEF Exit, Idle, Tasks
  <2>2. Range(<<>>) = {} /\ IsInjective(<<>>)
    BY DEF Range, IsInjective
  <2> QED
    BY <2>1, <2>2 DEF QueueInv, QueueTracksKeys
<1>9. CASE Ask
  <2>1. PICK us \in SUBSET Caps : Hydrate(us)
    BY <1>9 DEF Ask
  <2>2. {u \in us : Pinned(u) # 0} \in SUBSET Defs /\ IsFiniteSet({u \in us : Pinned(u) # 0})
    BY <2>1, RegistryAssumption, FS_Subset DEF Defs
  <2>3. Enqueue({u \in us : Pinned(u) # 0}) /\ UNCHANGED task
    BY <1>9, <2>1 DEF Hydrate, Ask
  <2> QED
    BY <2>2, <2>3, EnqueueQueue
<1>10. CASE Look
  BY <1>10 DEF Look, QueueInv, QueueTracksKeys
<1> QED
  BY <1>1, <1>2, <1>3, <1>4, <1>5, <1>6, <1>7, <1>8, <1>9, <1>10 DEF RegistryNext, Works

LEMMA NextInv ==
    ASSUME Inv, QueueInv, [RegistryNext]_registryVars
    PROVE  Inv'
<1> DEFINE Calm == UNCHANGED <<pin, mem, loaded, task>>
<1>1. CASE Calm
  BY <1>1 DEF Inv, FetchOK, Busy, Running, Cached, Pinned, FetchedCapsHaveMedia, OfThePinnedSnapshot
<1>2. ASSUME NEW p \in Pins, Start(p) PROVE Inv'
  BY <1>2, StartInv
<1>3. CASE Take
  <2>1. CASE Cached(Head(queue))
    BY <1>1, <1>3, <2>1 DEF Take
  <2>2. CASE ~Cached(Head(queue))
    <3>1. Head(queue) \in Defs
      BY <1>3 DEF Take, QueueInv
    <3>2. task' = [task EXCEPT ![Consumer] = Fetching(Head(queue))] /\ UNCHANGED <<pin, mem, loaded>>
      BY <1>3, <2>2 DEF Take
    <3>3. Running /\ Consumer \in Tasks
      BY <1>3 DEF Take, Tasks
    <3> QED
      BY <3>1, <3>2, <3>3, TaskInv
  <2> QED
    BY <2>1, <2>2
<1>4. ASSUME NEW t \in Tasks, Body(t) PROVE Inv'
  BY <1>4, BodyInv
<1>5. ASSUME NEW t \in Tasks, Fail(t) PROVE Inv'
  <2>1. task' = [task EXCEPT ![t] = Idle] /\ UNCHANGED <<pin, mem, loaded>>
    BY <1>5 DEF Fail
  <2> QED
    BY <2>1, TaskInv
<1>6. ASSUME NEW t \in Tasks, NEW u \in Defs, Lookup(t, u) PROVE Inv'
  <2>1. task' = [task EXCEPT ![t] = Fetching(u)] /\ UNCHANGED <<pin, mem, loaded>> /\ Running
    BY <1>6 DEF Lookup
  <2> QED
    BY <2>1, TaskInv
<1>7. CASE Exit
  BY <1>7, ExitInv
<1>8. CASE UNCHANGED registryVars \/ Wipe \/ Ask \/ Look
  BY <1>1, <1>8 DEF registryVars, Wipe, Ask, Look
<1> QED
  BY <1>2, <1>3, <1>4, <1>5, <1>6, <1>7, <1>8 DEF RegistryNext, Works

LEMMA InitQueue == Init => QueueInv
<1>1. Range(<<>>) = {} /\ IsInjective(<<>>)
  BY DEF Range, IsInjective
<1> QED
  BY <1>1 DEF Init, QueueInv, QueueTracksKeys, Idle, Tasks

LEMMA Always == RegistrySpec => [](Inv /\ QueueInv)
<1>1. Inv /\ QueueInv /\ [RegistryNext]_registryVars => Inv' /\ QueueInv'
  BY NextInv, QueueStep
<1> QED
  BY InitInv, InitQueue, <1>1, PTL DEF RegistrySpec

-----------------------------------------------------------------------------
(* The directory.  What is in memory has a file, until the directory is     *)
(* cleared for the first time, and a fetch that is past its own body is of  *)
(* a definition in the snapshot.                                            *)

OnDisk(u) == \E e \in disk : e[1] = u

FetchesPinned == \A t \in Tasks : task[t].at # 0 => \A u \in task[t].key : Pinned(u) # 0

CachedOnDisk == wipes = 0 => \A u \in Defs : Cached(u) => OnDisk(u)

FilesInv ==
    /\ loaded \subseteq Defs /\ disk \subseteq Defs \X (Nat \ {0})
    /\ unseen \in BOOLEAN /\ starts \in Nat /\ wipes \in Nat
    /\ FetchesPinned /\ CachedOnDisk
    /\ MediaFilesFirst

LEMMA FoundOnDisk == \A u : Found(u) # {} <=> OnDisk(u)
  BY DEF Found, OnDisk

LEMMA InitFiles == Init => FilesInv
<1> SUFFICES ASSUME Init PROVE FilesInv
  OBVIOUS
<1>1. \A t \in Tasks : task[t].at = 0
  BY DEF Init, Idle
<1>2. \A u \in Defs : ~OnDisk(u) /\ ~Cached(u)
  BY DEF Init, OnDisk, Cached, Nothing
<1>3. MediaFilesFirst
  BY <1>2, FoundOnDisk DEF MediaFilesFirst, Defs
<1> QED
  BY <1>1, <1>2, <1>3 DEF Init, FilesInv, FetchesPinned, CachedOnDisk

\* A step that writes no file and caches nothing new.
LEMMA NoNewFile ==
    ASSUME FilesInv, disk' = disk, wipes' = wipes,
           \A u \in Defs : mem'[u] # 0 => mem[u] # 0
    PROVE  CachedOnDisk' /\ MediaFilesFirst'
<1>1. MediaFilesFirst'
  BY DEF FilesInv, MediaFilesFirst, Found
<1>2. CachedOnDisk'
  BY DEF FilesInv, CachedOnDisk, Cached, OnDisk
<1> QED
  BY <1>1, <1>2

LEMMA StartFiles == ASSUME Inv, FilesInv, NEW p \in Pins, Start(p) PROVE FilesInv'
<1>1. /\ disk' = disk /\ wipes' = wipes /\ task' = task /\ unseen' = unseen
      /\ starts' = starts + 1 /\ ~Running
      /\ loaded' = {u \in Defs : mem'[u] # 0}
  BY DEF Start
<1>2. FetchesPinned'
  <2>1. \A t \in Tasks : task[t].key = {}
    BY <1>1 DEF Inv, FetchOK, Busy
  <2> QED
    BY <1>1, <2>1 DEF FetchesPinned
<1>3. ASSUME NEW u \in Defs, mem'[u] # 0 PROVE OnDisk(u)
  <2>1. mem' # Nothing
    BY <1>3 DEF Nothing
  <2>2. PICK f \in Walks : mem' = Retain(f, p)
    BY <2>1 DEF Start
  <2>3. f[u] # 0
    BY <1>3, <2>2 DEF Retain
  <2>4. Found(u) # {}
    BY <2>3 DEF Walks
  <2> QED
    BY <2>4, FoundOnDisk
<1>4. CachedOnDisk'
  BY <1>1, <1>3 DEF CachedOnDisk, Cached, OnDisk
<1>5. MediaFilesFirst'
  BY <1>1 DEF FilesInv, MediaFilesFirst, Found
<1> QED
  BY <1>1, <1>2, <1>4, <1>5 DEF FilesInv

LEMMA BodyFiles ==
    ASSUME Inv, Inv', FilesInv, NEW t \in Tasks, Body(t)
    PROVE  FilesInv'
<1> DEFINE at == task[t].at
           awaited(u) == IF at = 0 THEN u ELSE MediaOf(u)[at]
           leaf(u) == {awaited(u)} \cap Leaves
           stored(u, k) == IF k > Len(MediaOf(u)) THEN leaf(u) \cup {u} ELSE leaf(u)
<1>1. PICK u \in task[t].key : \E k \in at + 1 .. Len(MediaOf(u)) + 1 :
        /\ Pinned(awaited(u)) # 0
        /\ Store(stored(u, k))
        /\ unseen' = (unseen \/ stored(u, k) # {})
        /\ task' = [task EXCEPT ![t] = IF k > Len(MediaOf(u)) THEN Idle ELSE [@ EXCEPT !.at = k]]
        /\ UNCHANGED <<pin, starts, wipes>>
  BY DEF Body
<1>2. PICK k \in at + 1 .. Len(MediaOf(u)) + 1 :
        /\ Pinned(awaited(u)) # 0
        /\ Store(stored(u, k))
        /\ unseen' = (unseen \/ stored(u, k) # {})
        /\ task' = [task EXCEPT ![t] = IF k > Len(MediaOf(u)) THEN Idle ELSE [@ EXCEPT !.at = k]]
        /\ UNCHANGED <<pin, starts, wipes>>
  BY <1>1
<1>3. /\ u \in Defs /\ pin \in Pins
      /\ \A v \in task[t].key : u = v
  BY <1>1 DEF Inv, FetchOK, Busy, Running
<1>4. Pinned(u) # 0
  <2>1. CASE at = 0
    BY <1>2, <2>1
  <2>2. CASE at # 0
    BY <1>1, <2>2 DEF FilesInv, FetchesPinned
  <2> QED
    BY <2>1, <2>2
<1> DEFINE us == stored(u, k)
<1>5. /\ us \in SUBSET Defs /\ us \cap Caps \subseteq {u}
      /\ \A v \in us : Pinned(v) # 0
  BY <1>2, <1>3, <1>4, RegistryAssumption DEF Defs
<1> HIDE DEF us
<1>6. Store(us) /\ unseen' = (unseen \/ us # {})
  BY <1>2 DEF us
<1>7. /\ disk' = disk \cup {<<v, Pinned(v)>> : v \in us}
      /\ \A v \in us : mem'[v] = Pinned(v)
      /\ \A v \in Defs \ us : mem'[v] = mem[v]
      /\ loaded' = loaded \ us
  BY <1>5, <1>6 DEF Store
<1>8. \A v : OnDisk(v)' <=> OnDisk(v) \/ v \in us
  <2> TAKE v
  <2>1. ASSUME OnDisk(v)' PROVE OnDisk(v) \/ v \in us
    <3>1. PICK e \in disk' : e[1] = v
      BY <2>1 DEF OnDisk
    <3>2. CASE e \in disk
      BY <3>1, <3>2 DEF OnDisk
    <3>3. CASE e \notin disk
      BY <1>7, <3>1, <3>3
    <3> QED
      BY <3>2, <3>3
  <2>2. ASSUME OnDisk(v) PROVE OnDisk(v)'
    BY <1>7, <2>2 DEF OnDisk
  <2>3. ASSUME v \in us PROVE OnDisk(v)'
    <3>1. <<v, Pinned(v)>> \in disk' /\ <<v, Pinned(v)>>[1] = v
      BY <1>7, <2>3
    <3> QED
      BY <3>1 DEF OnDisk
  <2> QED
    BY <2>1, <2>2, <2>3
<1>9. disk' \subseteq Defs \X (Nat \ {0})
  <2>1. \A v \in us : v \in Defs /\ Pinned(v) \in Nat \ {0}
    BY <1>3, <1>5, PinnedType
  <2> QED
    BY <1>7, <2>1 DEF FilesInv
<1>10. CachedOnDisk'
  BY <1>2, <1>7, <1>8 DEF FilesInv, CachedOnDisk, Cached
<1>11. FetchesPinned'
  <2>1. pin' = pin /\ task \in [Tasks -> [key : SUBSET Defs, at : Nat]]
    BY <1>2 DEF Inv
  <2>2. ASSUME NEW o \in Tasks, NEW v \in task'[o].key, task'[o].at # 0 PROVE Pinned(v) # 0
    <3>1. CASE o # t
      BY <1>2, <2>1, <2>2, <3>1 DEF FilesInv, FetchesPinned
    <3>2. CASE o = t
      <4>1. k <= Len(MediaOf(u)) => task'[o] = [task[t] EXCEPT !.at = k]
        BY <1>2, <2>1, <3>2
      <4>2. task'[o] # Idle
        BY <2>2 DEF Idle
      <4>3. ~(k > Len(MediaOf(u)))
        BY <1>2, <2>1, <3>2, <4>2
      <4>4. task'[o] = [task[t] EXCEPT !.at = k]
        BY <1>2, <2>1, <3>2, <4>3
      <4>5. v \in task[t].key
        BY <2>2, <4>4
      <4> QED
        BY <1>3, <1>4, <4>5
    <3> QED
      BY <3>1, <3>2
  <2> QED
    BY <2>1, <2>2 DEF FetchesPinned, Pinned
<1>12. MediaFilesFirst'
  <2> SUFFICES ASSUME wipes' = 0, NEW c \in Caps, OnDisk(c)', NEW i \in DOMAIN Refs[c]
               PROVE  OnDisk(Refs[c][i])'
    BY FoundOnDisk DEF MediaFilesFirst, Found, OnDisk
  <2>1. Refs[c][i] \in Defs /\ c \in Defs
    BY RegistryAssumption DEF Defs
  <2>2. CASE c \in us
    <3>1. c \notin loaded' /\ mem'[c] # 0
      BY <1>5, <1>7, <2>2
    <3>2. Cached(Refs[c][i])'
      BY <3>1 DEF Inv, FetchedCapsHaveMedia, Cached
    <3> QED
      BY <3>2, <2>1, <1>10 DEF CachedOnDisk
  <2>3. CASE c \notin us
    <3>1. OnDisk(c) /\ wipes = 0
      BY <1>2, <1>8, <2>3
    <3>2. OnDisk(Refs[c][i])
      BY <3>1, FoundOnDisk DEF FilesInv, MediaFilesFirst
    <3> QED
      BY <3>2, <1>8
  <2> QED
    BY <2>2, <2>3
<1> QED
  BY <1>2, <1>6, <1>7, <1>9, <1>10, <1>11, <1>12 DEF FilesInv

LEMMA FilesStep ==
    ASSUME Inv, Inv', FilesInv, [RegistryNext]_registryVars
    PROVE  FilesInv'
<1> DEFINE NoFile == UNCHANGED <<pin, disk, mem, loaded, starts, wipes>>
<1>1. ASSUME NoFile, unseen' \in BOOLEAN, FetchesPinned' PROVE FilesInv'
  BY <1>1, NoNewFile DEF FilesInv
\* A task that takes up a key, or drops one, has got past no body yet.
<1>2. ASSUME NoFile, unseen' = unseen, NEW t \in Tasks, NEW new, new.at = 0,
             task' = [task EXCEPT ![t] = new]
      PROVE  FilesInv'
  <2>1. FetchesPinned'
    BY <1>2 DEF FilesInv, FetchesPinned, Inv, Pinned
  <2> QED
    BY <1>1, <1>2, <2>1 DEF FilesInv
<1>3. ASSUME NoFile, unseen' \in BOOLEAN, UNCHANGED task PROVE FilesInv'
  BY <1>1, <1>3 DEF FilesInv, FetchesPinned, Pinned
<1>4. ASSUME NEW p \in Pins, Start(p) PROVE FilesInv'
  BY <1>4, StartFiles
<1>5. CASE Take
  <2>1. CASE Cached(Head(queue))
    BY <1>3, <1>5, <2>1 DEF Take, FilesInv
  <2>2. CASE ~Cached(Head(queue))
    <3>1. PICK new : new = Fetching(Head(queue))
      OBVIOUS
    <3>2. NoFile /\ unseen' = unseen /\ task' = [task EXCEPT ![Consumer] = new] /\ new.at = 0
      BY <1>5, <2>2, <3>1 DEF Take, Fetching
    <3> QED
      BY <1>2, <3>2 DEF Tasks
  <2> QED
    BY <2>1, <2>2
<1>6. ASSUME NEW t \in Tasks, Body(t) PROVE FilesInv'
  BY <1>6, BodyFiles
<1>7. ASSUME NEW t \in Tasks, Fail(t) PROVE FilesInv'
  <2>1. NoFile /\ unseen' = unseen /\ task' = [task EXCEPT ![t] = Idle] /\ Idle.at = 0
    BY <1>7 DEF Fail, Idle
  <2> QED
    BY <1>2, <2>1
<1>8. ASSUME NEW t \in Tasks, NEW u \in Defs, Lookup(t, u) PROVE FilesInv'
  <2>1. /\ NoFile /\ unseen' = unseen /\ task' = [task EXCEPT ![t] = Fetching(u)]
        /\ Fetching(u).at = 0
    BY <1>8 DEF Lookup, Fetching
  <2> QED
    BY <1>2, <2>1
<1>9. CASE Exit
  <2>1. FetchesPinned'
    BY <1>9 DEF Exit, FetchesPinned, Idle
  <2>2. \A u \in Defs : mem'[u] = 0
    BY <1>9 DEF Exit, Nothing
  <2>3. CachedOnDisk' /\ MediaFilesFirst'
    BY <1>9, <2>2, NoNewFile DEF Exit
  <2> QED
    BY <1>9, <2>1, <2>3 DEF Exit, FilesInv
<1>10. CASE Wipe
  <2>1. wipes' # 0 /\ wipes' \in Nat
    BY <1>10 DEF Wipe, FilesInv
  <2> QED
    BY <1>10, <2>1
    DEF Wipe, FilesInv, FetchesPinned, CachedOnDisk, MediaFilesFirst, Pinned
<1>11. CASE Ask
  BY <1>3, <1>11 DEF Ask, FilesInv
<1>12. CASE Look
  BY <1>3, <1>12 DEF Look
<1>13. CASE UNCHANGED registryVars
  BY <1>3, <1>13 DEF registryVars, FilesInv
<1> QED
  BY <1>4, <1>5, <1>6, <1>7, <1>8, <1>9, <1>10, <1>11, <1>12, <1>13 DEF RegistryNext, Works

LEMMA AlwaysFiles == RegistrySpec => []FilesInv
  BY Always, InitFiles, FilesStep, PTL DEF RegistrySpec

-----------------------------------------------------------------------------
(* The theorems.                                                           *)

\* The cap fetch is atomic with respect to its media, for every interleaving
\* of any number of fetches with lookups, failures, deadlines and restarts.
THEOREM FetchesAreAtomic == RegistrySpec => []FetchedCapsHaveMedia
  BY Always, PTL DEF Inv

\* Whatever earlier processes left in the directory, a process serves the
\* snapshot it is pinned to and no other.
THEOREM OneSnapshot == RegistrySpec => []OfThePinnedSnapshot
  BY Always, PTL DEF Inv

\* Every variable keeps its type; in particular every file in the directory is of
\* a published version.
THEOREM RegistryTypeCorrect == RegistrySpec => []RegistryTypeOK
<1>1. Inv /\ QueueInv /\ FilesInv => RegistryTypeOK
  <2> SUFFICES ASSUME Inv, QueueInv, FilesInv PROVE RegistryTypeOK
    OBVIOUS
  <2>1. inQueue \subseteq Defs
    <3>1. Range(queue) \subseteq Defs
      BY DEF QueueInv, Range
    <3>2. task[Consumer].key \subseteq Defs
      BY DEF Inv, Tasks
    <3> QED
      BY <3>1, <3>2 DEF QueueInv, QueueTracksKeys
  <2> QED
    BY <2>1 DEF Inv, QueueInv, FilesInv, RegistryTypeOK
<1> QED
  BY <1>1, Always, AlwaysFiles, PTL

\* A directory that was never cleared holds no cap file without the files of the
\* cap's media, wherever the processes that wrote it were killed.
THEOREM MediaAreWrittenFirst == RegistrySpec => []MediaFilesFirst
  BY AlwaysFiles, PTL DEF FilesInv

\* fetch_in_queue is exact: what it holds back is always on its way.
THEOREM NoKeyForgotten == RegistrySpec => []QueueTracksKeys
  BY Always, PTL DEF QueueInv


Stages == {"idle", "collect", "compare", "put", "read", "sync", "build"}

\* The caps the tasks carry are caps.
CapsOnly ==
    /\ offers \in [Masters -> SUBSET Caps] /\ aggregate \subseteq Caps /\ basis \subseteq Caps
    /\ job \in [Builders -> [pc : Stages, caps : SUBSET Caps,
                             found : SUBSET Caps, changed : BOOLEAN]]

Landed(found, caps) == found = {c \in caps : Cached(c)}

(***************************************************************************)
(* What keeps the graph complete.  One task builds at a time, and what it  *)
(* found is what is cached, unless a definition landed since; then either  *)
(* the revision is still unseen, or the listener has seen it and has not   *)
(* looked its caps up yet.                                                 *)
(***************************************************************************)
OneBuilder == \A a, b \in Builders : job[a].pc = "build" /\ job[b].pc = "build" => a = b

BuildsWhatLanded ==
    \A b \in Builders : job[b].pc = "build" =>
        \/ Landed(job[b].found, job[b].caps)
        \/ unseen
        \/ b # Listener /\ job[Listener].pc \in {"read", "sync"}

GraphOrListener == Landed(graph, basis) \/ unseen \/ job[Listener].pc # "idle"

EmptyWhenDown ==
    ~Running => basis = {} /\ graph = {} /\ \A b \in Builders : job[b].pc # "build"

GraphInv == OneBuilder /\ BuildsWhatLanded /\ GraphOrListener /\ EmptyWhenDown

-----------------------------------------------------------------------------
(* The registry under the switch.                                          *)

LEMMA CapsOnlyInit == GraphInit => CapsOnly
<1> QED
  BY DEF GraphInit, CapsOnly, Resting, Stages

LEMMA Advance ==
    ASSUME CapsOnly, NEW b \in Builders,
           NEW new \in [pc : Stages, caps : SUBSET Caps, found : SUBSET Caps, changed : BOOLEAN],
           job' = [job EXCEPT ![b] = new],
           UNCHANGED <<aggregate, basis>>, offers' \in [Masters -> SUBSET Caps]
    PROVE  CapsOnly'
<1> QED
  BY DEF CapsOnly

LEMMA CapsOnlyNext == CapsOnly /\ [Next]_vars => CapsOnly'
<1> DEFINE J == [pc : Stages, caps : SUBSET Caps, found : SUBSET Caps, changed : BOOLEAN]
<1> SUFFICES ASSUME CapsOnly, [Next]_vars PROVE CapsOnly'
  OBVIOUS
<1>0. /\ \A m \in Masters : m \in Builders
      /\ Listener \in Builders
      /\ \A b \in Builders : job[b] \in J
  BY DEF Builders, CapsOnly
<1>1. CASE UNCHANGED vars
  BY <1>1 DEF vars, graphVars, CapsOnly
<1>2. CASE Works /\ UNCHANGED graphVars
  BY <1>2 DEF graphVars, CapsOnly
<1>3. CASE ProcessExit
  BY <1>3 DEF ProcessExit, CapsOnly, Resting, Stages
<1>4. CASE Wake
  <2>1. [job[Listener] EXCEPT !.pc = "read"] \in J
    BY <1>0 DEF Stages
  <2>2. job' = [job EXCEPT ![Listener] = [job[Listener] EXCEPT !.pc = "read"]]
    BY <1>4 DEF Wake, Goto
  <2> QED
    BY <1>0, <1>4, <2>1, <2>2, Advance DEF Wake, CapsOnly
<1>5. ASSUME NEW m \in Masters, NEW cs \in SUBSET Caps, Offer(m, cs) PROVE CapsOnly'
  <2>1. [job[m] EXCEPT !.pc = "collect"] \in J
    BY <1>0 DEF Stages
  <2>2. job' = [job EXCEPT ![m] = [job[m] EXCEPT !.pc = "collect"]]
    BY <1>5 DEF Offer, Goto
  <2>3. offers' \in [Masters -> SUBSET Caps]
    BY <1>5 DEF Offer, CapsOnly
  <2> QED
    BY <1>0, <1>5, <2>1, <2>2, <2>3, Advance DEF Offer
<1>6. ASSUME NEW m \in Masters, Collect(m) PROVE CapsOnly'
  <2> DEFINE new == [job[m] EXCEPT !.pc = "compare", !.caps = UNION Range(offers)]
  <2>1. UNION Range(offers) \in SUBSET Caps
    BY DEF CapsOnly, Range
  <2>2. new \in J
    BY <1>0, <2>1 DEF Stages
  <2>3. job' = [job EXCEPT ![m] = new]
    BY <1>6 DEF Collect
  <2> QED
    BY <1>0, <1>6, <2>2, <2>3, Advance DEF Collect, CapsOnly
<1>7. ASSUME NEW m \in Masters, Compare(m) PROVE CapsOnly'
  <2> DEFINE new == [job[m] EXCEPT !.pc = "put", !.changed = job[m].caps # aggregate]
  <2>1. new \in J
    BY <1>0 DEF Stages
  <2>2. job' = [job EXCEPT ![m] = new]
    BY <1>7 DEF Compare
  <2> QED
    BY <1>0, <1>7, <2>1, <2>2, Advance DEF Compare, CapsOnly
<1>8. ASSUME NEW m \in Masters, Put(m) PROVE CapsOnly'
  <2>1. \A pc \in {"read", "idle"} : [job[m] EXCEPT !.pc = pc] \in J
    BY <1>0 DEF Stages
  <2>2. \E pc \in {"read", "idle"} : job' = [job EXCEPT ![m] = [job[m] EXCEPT !.pc = pc]]
    BY <1>8 DEF Put, Goto
  <2>3. aggregate' \subseteq Caps /\ UNCHANGED <<offers, basis>>
    BY <1>0, <1>8 DEF Put
  <2> QED
    BY <1>0, <2>1, <2>2, <2>3 DEF CapsOnly
<1>9. ASSUME NEW b \in Builders, Read(b) PROVE CapsOnly'
  <2> DEFINE new == [job[b] EXCEPT !.pc = "sync", !.caps = aggregate]
  <2>1. new \in J
    BY <1>0 DEF Stages, CapsOnly
  <2>2. job' = [job EXCEPT ![b] = new]
    BY <1>9 DEF Read
  <2> QED
    BY <1>9, <2>1, <2>2, Advance DEF Read, CapsOnly
<1>10. ASSUME NEW b \in Builders, Sync(b) PROVE CapsOnly'
  <2> DEFINE found == {c \in job[b].caps : Cached(c)}
             new == [job[b] EXCEPT !.pc = "build", !.found = found]
  <2>1. found \in SUBSET Caps
    BY <1>0
  <2>2. new \in J
    <3> HIDE DEF found
    <3> QED
      BY <1>0, <2>1 DEF Stages
  <2>3. job' = [job EXCEPT ![b] = new]
    BY <1>10 DEF Sync
  <2> QED
    BY <1>10, <2>2, <2>3, Advance DEF Sync, CapsOnly
<1>11. ASSUME NEW b \in Builders, Build(b) PROVE CapsOnly'
  BY <1>0, <1>11 DEF Build, Built, CapsOnly, Resting, Stages
<1> QED
  BY <1>1, <1>2, <1>3, <1>4, <1>5, <1>6, <1>7, <1>8, <1>9, <1>10, <1>11 DEF Next, Changes

LEMMA StepsAreTheRegistrys == CapsOnly /\ [Next]_vars => [RegistryNext]_registryVars
<1> USE DEF RegistryNext
<1> SUFFICES ASSUME CapsOnly, [Next]_vars PROVE [RegistryNext]_registryVars
  OBVIOUS
<1>1. CASE UNCHANGED vars
  BY <1>1 DEF vars
<1>2. CASE Works
  BY <1>2
<1>3. CASE ProcessExit
  BY <1>3 DEF ProcessExit
<1>4. CASE Wake
  BY <1>4 DEF Wake, Look, At
<1>5. ASSUME NEW m \in Masters, Changes(m) PROVE UNCHANGED registryVars
  BY <1>5 DEF Changes, Offer, Collect, Compare, Put
<1>6. ASSUME NEW b \in Builders, Sync(b) PROVE Ask
  <2> DEFINE us == {c \in job[b].caps : ~Cached(c)}
  <2>1. us \in SUBSET Caps
    BY DEF CapsOnly
  <2>2. Hydrate(us) /\ Running /\ UNCHANGED <<pin, disk, mem, loaded, task, unseen, starts, wipes>>
    BY <1>6 DEF Sync, At
  <2> QED
    BY <2>1, <2>2 DEF Ask
<1>7. ASSUME NEW b \in Builders, Read(b) \/ Build(b) PROVE UNCHANGED registryVars
  BY <1>7 DEF Read, Build
<1> QED
  BY <1>1, <1>2, <1>3, <1>4, <1>5, <1>6, <1>7 DEF Next

\* The switch uses the registry as RegistrySpec says it may be used.
THEOREM Refines == Spec => RegistrySpec
<1>1. SwitchInit => CapsOnly /\ Init
  BY CapsOnlyInit DEF SwitchInit
<1> QED
  BY <1>1, CapsOnlyNext, StepsAreTheRegistrys, PTL DEF Spec, RegistrySpec

\* A cap that a fetch put in memory has its media there, under the switch.
THEOREM CapsOfTheSwitchHaveMedia == Spec => []FetchedCapsHaveMedia
<1> QED
  BY Refines, FetchesAreAtomic, PTL

\* ... nothing in memory is of another snapshot than the pinned one ...
THEOREM SwitchKeepsTheSnapshot == Spec => []OfThePinnedSnapshot
<1> QED
  BY Refines, OneSnapshot, PTL

\* ... and no key the switch asks for is forgotten.
THEOREM SwitchForgetsNoKey == Spec => []QueueTracksKeys
<1> QED
  BY Refines, NoKeyForgotten, PTL

\* Under the switch too the media's files come first.
THEOREM SwitchWritesMediaFirst == Spec => []MediaFilesFirst
<1> QED
  BY Refines, MediaAreWrittenFirst, PTL

-----------------------------------------------------------------------------
(* The graph.                                                              *)

\* A step that changes neither the cache nor a builder keeps the rest.
LEMMA OtherSteps ==
    ASSUME GraphInv, CapsOnly, UNCHANGED <<mem, graph, basis, job>>,
           unseen' = unseen, pin' = pin
    PROVE  GraphInv'
<1>1. \A S \in SUBSET Caps : {c \in S : Cached(c)}' = {c \in S : Cached(c)}
  BY DEF Cached
<1> QED
  BY DEF GraphInv, OneBuilder, BuildsWhatLanded, GraphOrListener, EmptyWhenDown, Landed,
     Cached, Running

LEMMA BodyGraph == ASSUME GraphInv, CapsOnly, NEW t \in Tasks, Body(t), UNCHANGED graphVars
                   PROVE  GraphInv'
<1>1. PICK stored : Store(stored) /\ unseen' = (unseen \/ stored # {}) /\ pin' = pin
  BY DEF Body
<1>2. CASE stored # {}
  BY <1>1, <1>2 DEF GraphInv, OneBuilder, BuildsWhatLanded, GraphOrListener, EmptyWhenDown,
     Running, graphVars
<1>3. CASE stored = {}
  <2>1. \A c \in Caps : mem'[c] = mem[c]
    BY <1>1, <1>3 DEF Store, Defs
  <2>2. \A S \in SUBSET Caps : {c \in S : Cached(c)}' = {c \in S : Cached(c)}
    BY <2>1 DEF Cached
  <2>3. Landed(graph, basis)' = Landed(graph, basis)
    BY <2>1 DEF CapsOnly, Landed, Cached, graphVars
  <2>4. \A b \in Builders : Landed(job[b].found, job[b].caps)' = Landed(job[b].found, job[b].caps)
    <3> SUFFICES ASSUME NEW b \in Builders
                 PROVE  Landed(job[b].found, job[b].caps)' = Landed(job[b].found, job[b].caps)
      OBVIOUS
    <3>1. job[b].caps \subseteq Caps /\ job' = job
      BY DEF CapsOnly, graphVars
    <3> QED
      BY <3>1, <2>1 DEF Landed, Cached
  <2> QED
    BY <1>1, <1>3, <2>3, <2>4 DEF GraphInv, OneBuilder, BuildsWhatLanded, GraphOrListener,
       EmptyWhenDown, Running, graphVars
<1> QED
  BY <1>2, <1>3

LEMMA WorksGraph == ASSUME GraphInv, CapsOnly, Works, UNCHANGED graphVars PROVE GraphInv'
<1>1. ASSUME NEW p \in Pins, Start(p) PROVE GraphInv'
  <2>1. graph = {} /\ basis = {} /\ \A b \in Builders : job[b].pc # "build"
    BY <1>1 DEF Start, GraphInv, EmptyWhenDown
  <2> QED
    BY <2>1 DEF graphVars, GraphInv, OneBuilder, BuildsWhatLanded, GraphOrListener,
       EmptyWhenDown, Landed
<1>2. ASSUME Wipe \/ Take \/ (\E t \in Tasks : Fail(t) \/ \E u \in Defs : Lookup(t, u))
      PROVE  GraphInv'
  <2>1. UNCHANGED <<mem, unseen, pin>>
    BY <1>2 DEF Wipe, Take, Fail, Lookup
  <2> QED
    BY <2>1, OtherSteps DEF graphVars
<1>3. ASSUME NEW t \in Tasks, Body(t) PROVE GraphInv'
  BY <1>3, BodyGraph
<1> QED
  BY <1>1, <1>2, <1>3 DEF Works

\* A step of one task's rebuild, before it has looked its caps up.
LEMMA TaskGraph ==
    ASSUME GraphInv, CapsOnly, NEW b \in Builders, job[b].pc # "build", job'[b].pc # "build",
           b = Listener => job'[b].pc # "idle",
           b = Listener => job'[b].pc \in {"read", "sync"} \/ job[b].pc \notin {"read", "sync"},
           \A o \in Builders \ {b} : job'[o] = job[o],
           UNCHANGED <<mem, graph, basis, unseen, pin>>
    PROVE  GraphInv'
<1>1. Listener \in Builders
  BY DEF Builders
<1>2. OneBuilder' /\ EmptyWhenDown'
  BY DEF GraphInv, OneBuilder, EmptyWhenDown, Running
<1>3. \A o \in Builders : job'[o].pc = "build" =>
        Landed(job[o].found, job[o].caps)' = Landed(job[o].found, job[o].caps)
  BY DEF Landed, Cached
<1>4. BuildsWhatLanded'
  BY <1>1, <1>3 DEF GraphInv, BuildsWhatLanded
<1>5. GraphOrListener'
  BY <1>1 DEF GraphInv, GraphOrListener, Landed, Cached
<1> QED
  BY <1>2, <1>4, <1>5 DEF GraphInv

LEMMA GraphInvNext == CapsOnly /\ GraphInv /\ [Next]_vars => GraphInv'
<1> SUFFICES ASSUME CapsOnly, GraphInv, [Next]_vars PROVE GraphInv'
  OBVIOUS
<1>0. /\ \A m \in Masters : m \in Builders /\ m # Listener
      /\ Listener \in Builders
      /\ job \in [Builders -> [pc : Stages, caps : SUBSET Caps, found : SUBSET Caps, changed : BOOLEAN]]
  BY GraphAssumption DEF Builders, CapsOnly
<1>1. CASE UNCHANGED vars
  BY <1>1, OtherSteps DEF vars, graphVars, registryVars
<1>2. CASE Works /\ UNCHANGED graphVars
  BY <1>2, WorksGraph
<1>3. CASE ProcessExit
  <2>1. \A b \in Builders : job'[b] = Resting
    BY <1>3 DEF ProcessExit
  <2> QED
    BY <1>3, <2>1 DEF ProcessExit, Exit, GraphInv, OneBuilder, BuildsWhatLanded,
       GraphOrListener, EmptyWhenDown, Landed, Resting
<1>4. CASE Wake
  <2>1. /\ job[Listener].pc = "idle" /\ job'[Listener].pc = "read" /\ Running
        /\ \A o \in Builders \ {Listener} : job'[o] = job[o]
        /\ UNCHANGED <<mem, graph, basis, pin>>
    BY <1>0, <1>4 DEF Wake, Goto, At
  <2>2. OneBuilder' /\ EmptyWhenDown' /\ BuildsWhatLanded' /\ GraphOrListener'
    BY <1>0, <2>1 DEF GraphInv, OneBuilder, BuildsWhatLanded, GraphOrListener, EmptyWhenDown,
       Running
  <2> QED
    BY <2>2 DEF GraphInv
<1>5. ASSUME NEW m \in Masters, Changes(m) PROVE GraphInv'
  <2>1. /\ job[m].pc # "build" /\ job'[m].pc # "build"
        /\ \A o \in Builders \ {m} : job'[o] = job[o]
        /\ UNCHANGED <<mem, graph, basis, unseen, pin>>
    BY <1>0, <1>5 DEF Changes, Offer, Collect, Compare, Put, At, Goto, registryVars
  <2> QED
    BY <1>0, <2>1, TaskGraph
<1>6. ASSUME NEW b \in Builders, Read(b) PROVE GraphInv'
  <2>1. /\ job[b].pc = "read" /\ job'[b].pc = "sync"
        /\ \A o \in Builders \ {b} : job'[o] = job[o]
        /\ UNCHANGED <<mem, graph, basis, unseen, pin>>
    BY <1>0, <1>6 DEF Read, At, registryVars
  <2> QED
    BY <2>1, TaskGraph
<1>7. ASSUME NEW b \in Builders, Sync(b) PROVE GraphInv'
  <2> DEFINE found == {c \in job[b].caps : Cached(c)}
  <2>1. /\ job[b].pc = "sync" /\ Running /\ \A o \in Builders : job[o].pc # "build"
        /\ job'[b].pc = "build" /\ job'[b].found = found /\ job'[b].caps = job[b].caps
        /\ \A o \in Builders \ {b} : job'[o] = job[o]
        /\ UNCHANGED <<mem, graph, basis, unseen, pin>>
    BY <1>0, <1>7 DEF Sync, At
  <2>2. \A o \in Builders : job'[o].pc = "build" <=> o = b
    BY <2>1
  <2>3. Landed(job[b].found, job[b].caps)'
    BY <2>1 DEF Landed, Cached
  <2>4. OneBuilder' /\ BuildsWhatLanded'
    BY <2>2, <2>3 DEF OneBuilder, BuildsWhatLanded
  <2>5. EmptyWhenDown'
    BY <2>1 DEF EmptyWhenDown, Running
  <2>6. GraphOrListener'
    BY <2>1, <1>0 DEF GraphInv, GraphOrListener, Landed, Cached
  <2> QED
    BY <2>4, <2>5, <2>6 DEF GraphInv
<1>8. ASSUME NEW b \in Builders, Build(b) PROVE GraphInv'
  <2>1. /\ job[b].pc = "build" /\ Running /\ job'[b].pc = "idle"
        /\ graph' = job[b].found /\ basis' = job[b].caps
        /\ \A o \in Builders \ {b} : job'[o] = job[o]
        /\ UNCHANGED <<mem, unseen, pin>>
    BY <1>0, <1>8 DEF Build, Built, At, registryVars, Resting
  <2>2. \A o \in Builders : job'[o].pc # "build"
    BY <2>1 DEF GraphInv, OneBuilder
  <2>3. OneBuilder' /\ BuildsWhatLanded' /\ EmptyWhenDown'
    BY <2>1, <2>2 DEF OneBuilder, BuildsWhatLanded, EmptyWhenDown, Running
  <2>4. GraphOrListener'
    BY <2>1, <1>0 DEF GraphInv, BuildsWhatLanded, GraphOrListener, Landed, Cached
  <2> QED
    BY <2>3, <2>4 DEF GraphInv
<1> QED
  BY <1>1, <1>2, <1>3, <1>4, <1>5, <1>6, <1>7, <1>8 DEF Next

\* At rest the graph misses nothing that landed: whatever masters come, go or
\* change, and wherever definitions arrive between the steps of a rebuild.
THEOREM GraphIsComplete == Spec => []GraphHasWhatLanded
<1>1. SwitchInit => CapsOnly /\ GraphInv
  BY CapsOnlyInit DEF SwitchInit, Init, GraphInit, GraphInv, OneBuilder, BuildsWhatLanded, GraphOrListener,
     EmptyWhenDown, Landed, Resting
<1>2. GraphInv => GraphHasWhatLanded
  BY DEF GraphInv, GraphOrListener, GraphHasWhatLanded, AtRest, Landed, Builders
<1> QED
  BY <1>1, <1>2, CapsOnlyNext, GraphInvNext, PTL DEF Spec
=============================================================================
