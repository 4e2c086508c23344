----------------------- MODULE CartridgeRuntimeProofs ------------------------
(***************************************************************************)
(* Theorems about CartridgeRuntime, for any requests, callers, capacities  *)
(* and windows.  Control says how the loop's bookkeeping (queue, count,    *)
(* active handlers, notices) fits the stages of the handlers; Owed that the*)
(* answer of a request nobody works at any more is on the wire or on its   *)
(* way to it.                                                              *)
(***************************************************************************)
EXTENDS CartridgeRuntime, FiniteSetTheorems, SequenceTheorems, TLAPS

(***************************************************************************)
(* Queues in which nothing is twice.                                       *)
(***************************************************************************)

Distinct(s) == \A i, j \in 1 .. Len(s) : s[i] = s[j] => i = j

LEMMA RangeOf == \A S : \A s \in Seq(S) : Range(s) = {s[i] : i \in 1 .. Len(s)}
  BY DEF Range

LEMMA RangeIn == ASSUME NEW S, NEW s \in Seq(S) PROVE Range(s) \subseteq S
<1>1. \A i \in 1 .. Len(s) : s[i] \in S
  OBVIOUS
<1> QED
  BY <1>1, RangeOf

LEMMA Appended ==
    ASSUME NEW S, NEW s \in Seq(S), NEW e \in S
    PROVE  /\ Append(s, e) \in Seq(S)
           /\ Range(Append(s, e)) = Range(s) \cup {e}
           /\ Distinct(s) /\ e \notin Range(s) => Distinct(Append(s, e))
<1> DEFINE t == Append(s, e)
<1>1. /\ Len(s) \in Nat /\ t \in Seq(S) /\ Len(t) = Len(s) + 1
      /\ \A i \in 1 .. Len(s) : t[i] = s[i]
      /\ t[Len(s) + 1] = e
  BY AppendProperties
<1> HIDE DEF t
<1>2. Range(t) = Range(s) \cup {e}
  <2>1. \A i \in 1 .. Len(t) : t[i] \in {s[j] : j \in 1 .. Len(s)} \cup {e}
    BY <1>1
  <2>2. \A i \in 1 .. Len(s) : i \in 1 .. Len(t) /\ s[i] = t[i]
    BY <1>1
  <2>3. Len(s) + 1 \in 1 .. Len(t)
    BY <1>1
  <2>4. {t[i] : i \in 1 .. Len(t)} = {s[j] : j \in 1 .. Len(s)} \cup {e}
    BY <1>1, <2>1, <2>2, <2>3
  <2> QED
    BY <1>1, <2>4, RangeOf
<1>3. ASSUME Distinct(s), e \notin Range(s) PROVE Distinct(t)
  <2>1. \A i \in 1 .. Len(s) : s[i] # e
    BY <1>3, RangeOf
  <2> QED
    BY <1>1, <1>3, <2>1 DEF Distinct
<1> QED
  BY <1>1, <1>2, <1>3 DEF t

\* VecDeque::remove.
LEMMA Removed ==
    ASSUME NEW S, NEW s \in Seq(S), NEW n \in 1 .. Len(s), Distinct(s)
    PROVE  /\ RemoveAt(s, n) \in Seq(S) /\ Distinct(RemoveAt(s, n))
           /\ Range(RemoveAt(s, n)) = Range(s) \ {s[n]}
<1> DEFINE a == SubSeq(s, 1, n - 1)
           b == SubSeq(s, n + 1, Len(s))
           t == a \o b
<1>1. /\ a \in Seq(S) /\ Len(a) = n - 1
      /\ \A i \in 1 .. n - 1 : a[i] = s[i]
  <2>1. \A i \in 1 .. n - 1 : s[i] \in S
    OBVIOUS
  <2> QED
    BY <2>1, SubSeqProperties
<1>2. /\ b \in Seq(S) /\ Len(b) = Len(s) - n
      /\ \A i \in 1 .. Len(s) - n : b[i] = s[n + i]
  <2>1. \A i \in n + 1 .. Len(s) : s[i] \in S
    OBVIOUS
  <2>2. Len(s) \in Nat /\ n + 1 \in Int
    OBVIOUS
  <2>3. /\ b \in Seq(S) /\ Len(b) = IF n + 1 <= Len(s) THEN Len(s) - (n + 1) + 1 ELSE 0
        /\ \A i \in 1 .. Len(s) - (n + 1) + 1 : b[i] = s[(n + 1) + i - 1]
    BY <2>1, <2>2, SubSeqProperties
  <2> QED
    BY <2>2, <2>3
<1> HIDE DEF a, b
<1>3. /\ t \in Seq(S) /\ Len(s) \in Nat /\ Len(t) = Len(s) - 1
      /\ \A i \in 1 .. Len(s) - 1 : t[i] = IF i < n THEN s[i] ELSE s[i + 1]
  <2>1. /\ t \in Seq(S) /\ Len(t) = Len(a) + Len(b)
        /\ \A i \in 1 .. Len(a) + Len(b) : t[i] = IF i <= Len(a) THEN a[i] ELSE b[i - Len(a)]
    BY <1>1, <1>2, ConcatProperties
  <2> HIDE DEF t
  <2>2. Len(s) \in Nat /\ Len(t) = Len(s) - 1
    BY <1>1, <1>2, <2>1
  <2>3. ASSUME NEW i \in 1 .. Len(s) - 1
        PROVE  t[i] = IF i < n THEN s[i] ELSE s[i + 1]
    <3>0. i \in 1 .. Len(a) + Len(b)
      BY <1>1, <1>2, <2>2
    <3>1. CASE i < n
      <4>1. t[i] = a[i]
        BY <1>1, <2>1, <3>0, <3>1
      <4>2. a[i] = s[i]
        BY <1>1, <3>1
      <4> QED
        BY <3>1, <4>1, <4>2
    <3>2. CASE ~ (i < n)
      <4>1. i - Len(a) \in 1 .. Len(s) - n /\ n + (i - Len(a)) = i + 1
        BY <1>1, <3>2, <2>2
      <4>2. t[i] = b[i - Len(a)]
        BY <1>1, <2>1, <3>0, <3>2
      <4>3. b[i - Len(a)] = s[i + 1]
        BY <1>2, <4>1
      <4> QED
        BY <3>2, <4>2, <4>3
    <3> QED
      BY <3>1, <3>2
  <2> QED
    BY <2>1, <2>2, <2>3
<1> HIDE DEF t
<1>4. Distinct(t)
  BY <1>3 DEF Distinct
<1>5. ASSUME NEW i \in 1 .. Len(t) PROVE t[i] \in Range(s) \ {s[n]}
  <2>1. t[i] \in {s[j] : j \in 1 .. Len(s)} /\ t[i] # s[n]
    BY <1>3 DEF Distinct
  <2> QED
    BY <2>1, RangeOf
<1>6. ASSUME NEW i \in 1 .. Len(s), s[i] # s[n] PROVE \E j \in 1 .. Len(t) : s[i] = t[j]
  <2>1. CASE i < n
    BY <1>3, <2>1
  <2>2. CASE i > n
    <3>1. i - 1 \in 1 .. Len(t) /\ t[i - 1] = s[i]
      BY <1>3, <2>2
    <3> QED
      BY <3>1
  <2> QED
    BY <1>6, <2>1, <2>2
<1>7. Range(t) = Range(s) \ {s[n]}
  <2>1. Range(t) = {t[i] : i \in 1 .. Len(t)} /\ Range(s) = {s[i] : i \in 1 .. Len(s)}
    BY <1>3, RangeOf
  <2> QED
    BY <1>5, <1>6, <2>1
<1> QED
  BY <1>3, <1>4, <1>7 DEF t, RemoveAt, a, b

\* VecDeque::pop_front, n times.
LEMMA CutOff ==
    ASSUME NEW S, NEW s \in Seq(S), NEW n \in 0 .. Len(s), Distinct(s)
    PROVE  /\ SubSeq(s, n + 1, Len(s)) \in Seq(S) /\ Distinct(SubSeq(s, n + 1, Len(s)))
           /\ Len(SubSeq(s, n + 1, Len(s))) = Len(s) - n
           /\ Range(SubSeq(s, n + 1, Len(s))) = Range(s) \ {s[k] : k \in 1 .. n}
           /\ {s[k] : k \in 1 .. n} \subseteq Range(s)
           /\ IsFiniteSet({s[k] : k \in 1 .. n}) /\ Cardinality({s[k] : k \in 1 .. n}) = n
<1> DEFINE t == SubSeq(s, n + 1, Len(s))
           cut == {s[k] : k \in 1 .. n}
<1>1. /\ Len(s) \in Nat /\ t \in Seq(S) /\ Len(t) = Len(s) - n
      /\ \A i \in 1 .. Len(s) - n : t[i] = s[n + i]
  <2>1. \A i \in n + 1 .. Len(s) : s[i] \in S
    OBVIOUS
  <2>2. Len(s) \in Nat /\ n + 1 \in Int
    OBVIOUS
  <2>3. /\ t \in Seq(S) /\ Len(t) = IF n + 1 <= Len(s) THEN Len(s) - (n + 1) + 1 ELSE 0
        /\ \A i \in 1 .. Len(s) - (n + 1) + 1 : t[i] = s[(n + 1) + i - 1]
    BY <2>1, <2>2, SubSeqProperties
  <2> HIDE DEF t
  <2>4. Len(t) = Len(s) - n
    BY <2>2, <2>3
  <2>5. ASSUME NEW i \in 1 .. Len(s) - n PROVE t[i] = s[n + i]
    <3>1. i \in 1 .. Len(s) - (n + 1) + 1 /\ (n + 1) + i - 1 = n + i
      BY <2>2
    <3> QED
      BY <2>3, <3>1
  <2> QED
    BY <2>2, <2>3, <2>4, <2>5
<1> HIDE DEF t
<1>2. Distinct(t)
  <2> SUFFICES ASSUME NEW i \in 1 .. Len(t), NEW j \in 1 .. Len(t), t[i] = t[j] PROVE i = j
    BY DEF Distinct
  <2>1. n + i \in 1 .. Len(s) /\ n + j \in 1 .. Len(s) /\ s[n + i] = s[n + j]
    BY <1>1
  <2>2. n + i = n + j
    BY <2>1 DEF Distinct
  <2> QED
    BY <2>2
<1>3. Range(t) = Range(s) \ cut
  <2>1. Range(t) = {t[i] : i \in 1 .. Len(t)} /\ Range(s) = {s[i] : i \in 1 .. Len(s)}
    BY <1>1, RangeOf
  <2>2. ASSUME NEW i \in 1 .. Len(t)
        PROVE  t[i] \in {s[j] : j \in 1 .. Len(s)} /\ t[i] \notin cut
    BY <1>1 DEF Distinct
  <2>3. ASSUME NEW i \in 1 .. Len(s), s[i] \notin cut
        PROVE  \E j \in 1 .. Len(t) : s[i] = t[j]
    <3>1. i \notin 1 .. n
      BY <2>3
    <3>2. i - n \in 1 .. Len(t) /\ t[i - n] = s[i]
      BY <1>1, <3>1
    <3> QED
      BY <3>2
  <2> QED
    BY <2>1, <2>2, <2>3
<1>4. cut \subseteq Range(s)
  BY <1>1, RangeOf
<1>5. IsFiniteSet(cut) /\ Cardinality(cut) = n
  <2> DEFINE f == [k \in 1 .. n |-> s[k]]
  <2>1. f \in Bijection(1 .. n, cut)
    <3>1. f \in [1 .. n -> cut]
      OBVIOUS
    <3>2. \A i, j \in 1 .. n : f[i] = f[j] => i = j
      BY <1>1 DEF Distinct
    <3>3. \A x \in cut : \E i \in 1 .. n : f[i] = x
      OBVIOUS
    <3>4. DOMAIN f = 1 .. n
      OBVIOUS
    <3> HIDE DEF f, cut
    <3> QED
      BY <3>1, <3>2, <3>3, <3>4, Zenon DEF Bijection, Injection, Surjection, IsInjective
  <2>2. IsFiniteSet(1 .. n) /\ Cardinality(1 .. n) = n
    BY FS_Interval
  <2>3. ExistsBijection(1 .. n, cut)
    BY <2>1 DEF ExistsBijection
  <2> QED
    BY <2>2, <2>3, FS_Bijection
<1> QED
  BY <1>1, <1>2, <1>3, <1>4, <1>5 DEF t

LEMMA Popped ==
    ASSUME NEW S, NEW s \in Seq(S), s # <<>>
    PROVE  /\ Tail(s) \in Seq(S) /\ Head(s) \in Range(s) /\ Head(s) \in S
           /\ Range(Tail(s)) \subseteq Range(s)
           /\ Distinct(s) => Distinct(Tail(s)) /\ Range(Tail(s)) = Range(s) \ {Head(s)}
<1>1. /\ Head(s) = s[1] /\ Head(s) \in S /\ Tail(s) \in Seq(S) /\ Len(Tail(s)) = Len(s) - 1
      /\ \A i \in 1 .. Len(Tail(s)) : Tail(s)[i] = s[i + 1]
      /\ Len(s) \in Nat /\ Len(s) # 0
  BY HeadTailProperties, EmptySeq
<1>2. Range(Tail(s)) = {Tail(s)[i] : i \in 1 .. Len(Tail(s))} /\ Range(s) = {s[i] : i \in 1 .. Len(s)}
  BY <1>1, RangeOf
<1>3. Head(s) \in Range(s)
  BY <1>1, <1>2
<1>4. Range(Tail(s)) \subseteq Range(s)
  BY <1>1, <1>2
<1>5. ASSUME Distinct(s)
      PROVE  Distinct(Tail(s)) /\ Range(Tail(s)) = Range(s) \ {Head(s)}
  <2>1. Distinct(Tail(s))
    BY <1>1, <1>5 DEF Distinct
  <2>2. \A i \in 1 .. Len(Tail(s)) : Tail(s)[i] # s[1]
    BY <1>1, <1>5 DEF Distinct
  <2>3. ASSUME NEW i \in 1 .. Len(s), s[i] # s[1]
        PROVE  \E j \in 1 .. Len(Tail(s)) : s[i] = Tail(s)[j]
    <3>1. i - 1 \in 1 .. Len(Tail(s)) /\ (i - 1) + 1 = i
      BY <1>1, <2>3
    <3> QED
      BY <1>1, <3>1
  <2> QED
    BY <1>1, <1>2, <1>4, <2>1, <2>2, <2>3
<1> QED
  BY <1>1, <1>3, <1>4, <1>5

(***************************************************************************)
(* The bookkeeping of the main loop.                                       *)
(***************************************************************************)

Stages == {"none", "reading", "calling", "arguing", "awaiting", "writing", "returned", "finished"}
Idle == {"none", "finished"}

\* What is queued, what is counted and what is active fit where the handlers
\* are: a queued request has no handler, an active one has a task or a notice
\* of its end, and while the loop sleeps over a queue something is active.
Control ==
    /\ loop \in {"top", "select", "joining", "gone"} /\ capacity \in Nat
    /\ queue \in Seq(Requests) /\ Distinct(queue)
    /\ doneQ \in Seq(Requests) /\ Distinct(doneQ)
    /\ active \subseteq Requests /\ cancelled \subseteq active
    /\ running = Cardinality(active)
    /\ handler \in [Requests -> Stages]
    /\ host \in [Requests -> [req : {"none", "sent", "refused"}, cancels : Nat]]
    /\ \A r \in Requests :
          /\ r \in Range(queue) => handler[r] = "none"
          /\ r \in active => handler[r] # "none"
          /\ handler[r] \notin Idle => r \in active
          /\ r \in Range(doneQ) => handler[r] = "finished" /\ r \in active
          /\ host[r].req = "none" => handler[r] = "none" /\ r \notin Range(queue)
    /\ loop = "select" /\ queue # <<>> => active # {}

LEMMA ActiveFinite ==
    ASSUME NEW S \in SUBSET Requests
    PROVE  IsFiniteSet(S) /\ Cardinality(S) \in Nat /\ Cardinality(S) <= Cardinality(Requests)
           /\ Cardinality(Requests) \in Nat
  BY CartridgeAssumption, FS_Subset, FS_CardinalityType

LEMMA ControlInit == Init => Control
<1> SUFFICES ASSUME Init PROVE Control
  OBVIOUS
<1> USE DEF Init
<1>1. capacity \in Nat
  BY CartridgeAssumption
<1>2. Distinct(queue) /\ Distinct(doneQ) /\ Range(queue) = {} /\ Range(doneQ) = {}
  BY DEF Distinct, Range
<1>3. running = Cardinality(active)
  BY FS_EmptySet
<1>4. host \in [Requests -> [req : {"none", "sent", "refused"}, cancels : Nat]]
  OBVIOUS
<1>5. handler \in [Requests -> Stages]
  BY DEF Stages
<1> QED
  BY <1>1, <1>2, <1>3, <1>4, <1>5 DEF Control, Idle

\* What Control does not look at.
book == <<loop, queue, running, active, cancelled, doneQ, handler, host, capacity>>

LEMMA ControlStutters == Control /\ UNCHANGED book => Control'
  BY DEF Control, book, Distinct

\* The stages between the start of a handler and its end.
LEMMA ControlMoves ==
    ASSUME Control, NEW r \in Requests, NEW stage \in Stages \ Idle, handler[r] \notin Idle,
           Goes(r, stage), UNCHANGED <<loop, queue, running, active, cancelled, doneQ, host, capacity>>
    PROVE  Control'
<1>1. handler' \in [Requests -> Stages]
  BY DEF Goes, Control
<1>2. \A q \in Requests : handler'[q] = IF q = r THEN stage ELSE handler[q]
  BY DEF Goes, Control
<1>3. \A q \in Requests :
          /\ q \in Range(queue') => handler'[q] = "none"
          /\ q \in active' => handler'[q] # "none"
          /\ handler'[q] \notin Idle => q \in active'
          /\ q \in Range(doneQ') => handler'[q] = "finished" /\ q \in active'
          /\ host'[q].req = "none" => handler'[q] = "none" /\ q \notin Range(queue')
  BY <1>2 DEF Control, Idle
<1> QED
  BY <1>1, <1>3 DEF Control, Distinct

LEMMA FittingFits == Control => Fitting \in 0 .. Len(queue)
<1> SUFFICES ASSUME Control PROVE Fitting \in 0 .. Len(queue)
  OBVIOUS
<1>1. Len(queue) \in Nat /\ capacity \in Nat /\ running \in Nat
  BY ActiveFinite DEF Control
<1> QED
  BY <1>1 DEF Fitting

LEMMA ControlDrain == Control /\ Drain => Control'
<1> SUFFICES ASSUME Control, Drain PROVE Control'
  OBVIOUS
<1> DEFINE n == Fitting
           rs == {queue[k] : k \in 1 .. n}
<1>1. /\ queue' = SubSeq(queue, n + 1, Len(queue)) /\ Spawn(rs) /\ loop' = "select"
      /\ UNCHANGED <<cancelled, doneQ, capacity, host>>
  BY DEF Drain, caps
<1>2. n \in 0 .. Len(queue) /\ Len(queue) \in Nat /\ capacity \in Nat /\ running \in Nat
  BY FittingFits, ActiveFinite DEF Control
<1>3. /\ queue' \in Seq(Requests) /\ Distinct(queue') /\ Len(queue') = Len(queue) - n
      /\ Range(queue') = Range(queue) \ rs /\ rs \subseteq Range(queue)
      /\ IsFiniteSet(rs) /\ Cardinality(rs) = n
  <2> HIDE DEF n
  <2> QED
    BY <1>1, <1>2, CutOff DEF Control
<1>4. rs \subseteq Requests /\ rs \cap active = {}
  <2>1. Range(queue) \subseteq Requests
    BY RangeOf DEF Control
  <2> HIDE DEF rs
  <2> QED
    BY <1>3, <2>1 DEF Control
<1> HIDE DEF rs
<1>5. /\ active' = active \cup rs /\ running' = running + n
      /\ handler' = [q \in Requests |-> IF q \in rs THEN "reading" ELSE handler[q]]
  BY <1>1, <1>3 DEF Spawn
<1>6. running' = Cardinality(active')
  <2>1. IsFiniteSet(active) /\ running = Cardinality(active) /\ Cardinality(active) \in Nat
    BY ActiveFinite DEF Control
  <2>2. Cardinality(active \cap rs) = 0
    BY <1>4, FS_EmptySet
  <2>3. Cardinality(active \cup rs) = Cardinality(active) + Cardinality(rs) - Cardinality(active \cap rs)
    BY <1>3, <2>1, FS_Union
  <2> QED
    BY <1>2, <1>3, <1>5, <2>1, <2>2, <2>3
<1>7. handler' \in [Requests -> Stages]
  BY <1>5 DEF Control, Stages
<1>8. ASSUME NEW q \in Requests
      PROVE  /\ q \in Range(queue') => handler'[q] = "none"
             /\ q \in active' => handler'[q] # "none"
             /\ handler'[q] \notin Idle => q \in active'
             /\ q \in Range(doneQ') => handler'[q] = "finished" /\ q \in active'
             /\ host'[q].req = "none" => handler'[q] = "none" /\ q \notin Range(queue')
  <2>1. /\ handler'[q] = IF q \in rs THEN "reading" ELSE handler[q]
        /\ doneQ' = doneQ /\ host' = host
        /\ q \in rs => q \in Range(queue)
    BY <1>1, <1>3, <1>5
  <2> QED
    BY <1>3, <1>5, <2>1 DEF Control, Idle
<1>9. queue' # <<>> => active' # {}
  <2> SUFFICES ASSUME queue' # <<>> PROVE active' # {}
    OBVIOUS
  <2>1. n < Len(queue)
    BY <1>2, <1>3
  <2>2. capacity # 0 /\ (running >= capacity \/ (n = capacity - running /\ n > 0))
    <3>1. CASE capacity = 0
      BY <2>1, <3>1 DEF Fitting
    <3>2. CASE capacity # 0 /\ running >= capacity
      BY <3>2
    <3>3. CASE capacity # 0 /\ ~ (running >= capacity)
      <4>1. Fitting = IF Len(queue) < capacity - running THEN Len(queue) ELSE capacity - running
        BY <3>3 DEF Fitting
      <4>2. capacity - running > 0
        BY <1>2, <3>3
      <4>3. n = capacity - running
        BY <1>2, <2>1, <4>1
      <4> QED
        BY <3>3, <4>2, <4>3
    <3> QED
      BY <1>2, <3>1, <3>2, <3>3
  <2>3. running' > 0
    BY <1>2, <1>5, <2>2
  <2> QED
    BY <1>6, <2>3, FS_EmptySet
<1>10. active' \subseteq Requests /\ cancelled' \subseteq active'
  BY <1>1, <1>4, <1>5 DEF Control
<1> QED
  BY <1>1, <1>3, <1>6, <1>7, <1>8, <1>9, <1>10 DEF Control, Distinct

LEMMA ControlHandlerDone == Control /\ HandlerDone => Control'
<1> SUFFICES ASSUME Control, HandlerDone PROVE Control'
  OBVIOUS
<1> DEFINE r == Head(doneQ)
<1>1. /\ doneQ # <<>> /\ doneQ' = Tail(doneQ) /\ loop' = "top"
      /\ active' = active \ {r} /\ cancelled' = cancelled \ {r}
      /\ running' = IF running = 0 THEN 0 ELSE running - 1
      /\ UNCHANGED <<queue, handler, capacity, host>>
  BY DEF HandlerDone, task, caps
<1>2. /\ doneQ' \in Seq(Requests) /\ Distinct(doneQ') /\ r \in Requests
      /\ Range(doneQ') = Range(doneQ) \ {r} /\ r \in Range(doneQ)
  BY <1>1, Popped DEF Control
<1> HIDE DEF r
<1>3. r \in active /\ handler[r] = "finished"
  BY <1>2 DEF Control
<1>4. running' = Cardinality(active')
  <2>1. IsFiniteSet(active) /\ running = Cardinality(active) /\ running \in Nat
    BY ActiveFinite DEF Control
  <2>2. running # 0
    BY <1>3, <2>1, FS_EmptySet
  <2>3. Cardinality(active \ {r}) = Cardinality(active) - 1
    BY <1>3, <2>1, FS_RemoveElement
  <2> QED
    BY <1>1, <2>1, <2>2, <2>3
<1>5. ASSUME NEW q \in Requests
      PROVE  /\ q \in Range(queue') => handler'[q] = "none"
             /\ q \in active' => handler'[q] # "none"
             /\ handler'[q] \notin Idle => q \in active'
             /\ q \in Range(doneQ') => handler'[q] = "finished" /\ q \in active'
             /\ host'[q].req = "none" => handler'[q] = "none" /\ q \notin Range(queue')
  BY <1>1, <1>2, <1>3 DEF Control, Idle
<1> QED
  BY <1>1, <1>2, <1>4, <1>5 DEF Control, Distinct

LEMMA ControlReq == ASSUME NEW r \in Requests, Control, Req(r) PROVE Control'
<1>1. /\ loop' = "top" /\ host[r].req = "none" /\ host' = [host EXCEPT ![r].req = "sent"]
      /\ Admit(r) /\ UNCHANGED <<cancelled, doneQ, capacity>>
  BY DEF Req, FrameArrives, caps
<1>2. handler[r] = "none" /\ r \notin Range(queue) /\ r \notin active
  BY <1>1 DEF Control
<1>3. /\ host' \in [Requests -> [req : {"none", "sent", "refused"}, cancels : Nat]]
      /\ \A q \in Requests : host'[q].req = IF q = r THEN "sent" ELSE host[q].req
  BY <1>1 DEF Control
<1>4. CASE Room(running)
  <2>1. /\ active' = active \cup {r} /\ running' = running + 1 /\ queue' = queue
        /\ handler' = [q \in Requests |-> IF q \in {r} THEN "reading" ELSE handler[q]]
    BY <1>1, <1>4, FS_Singleton DEF Admit, Spawn
  <2>2. running' = Cardinality(active')
    <3>1. IsFiniteSet(active) /\ running = Cardinality(active)
      BY ActiveFinite DEF Control
    <3> QED
      BY <1>2, <2>1, <3>1, FS_AddElement
  <2>3. handler' \in [Requests -> Stages]
    BY <2>1 DEF Control, Stages
  <2>4. ASSUME NEW q \in Requests
        PROVE  /\ q \in Range(queue') => handler'[q] = "none"
               /\ q \in active' => handler'[q] # "none"
               /\ handler'[q] \notin Idle => q \in active'
               /\ q \in Range(doneQ') => handler'[q] = "finished" /\ q \in active'
               /\ host'[q].req = "none" => handler'[q] = "none" /\ q \notin Range(queue')
    BY <1>1, <1>2, <1>3, <2>1 DEF Control, Idle
  <2> QED
    BY <1>1, <1>3, <2>1, <2>2, <2>3, <2>4 DEF Control, Distinct
<1>5. CASE ~ Room(running)
  <2>1. queue' = Append(queue, r) /\ UNCHANGED <<handler, active, running>>
    BY <1>1, <1>5 DEF Admit
  <2>2. /\ queue' \in Seq(Requests) /\ Distinct(queue')
        /\ Range(queue') = Range(queue) \cup {r}
    BY <1>2, <2>1, Appended DEF Control
  <2>3. ASSUME NEW q \in Requests
        PROVE  /\ q \in Range(queue') => handler'[q] = "none"
               /\ q \in active' => handler'[q] # "none"
               /\ handler'[q] \notin Idle => q \in active'
               /\ q \in Range(doneQ') => handler'[q] = "finished" /\ q \in active'
               /\ host'[q].req = "none" => handler'[q] = "none" /\ q \notin Range(queue')
    BY <1>1, <1>2, <1>3, <2>1, <2>2 DEF Control, Idle
  <2> QED
    BY <1>1, <1>3, <2>1, <2>2, <2>3 DEF Control, Distinct
<1> QED
  BY <1>4, <1>5

LEMMA ControlRefuse == ASSUME NEW r \in Requests, Control, Refuse(r) PROVE Control'
<1>1. /\ loop' = "top" /\ host' = [host EXCEPT ![r].req = "refused"]
      /\ UNCHANGED <<queue, running, active, cancelled, doneQ, handler, capacity>>
  BY DEF Refuse, FrameArrives, caps, task
<1>2. /\ host' \in [Requests -> [req : {"none", "sent", "refused"}, cancels : Nat]]
      /\ \A q \in Requests : host'[q].req = IF q = r THEN "refused" ELSE host[q].req
  BY <1>1 DEF Control
<1>3. ASSUME NEW q \in Requests
      PROVE  host'[q].req = "none" => handler'[q] = "none" /\ q \notin Range(queue')
  BY <1>1, <1>2 DEF Control
<1> QED
  BY <1>1, <1>2, <1>3 DEF Control, Distinct

LEMMA ControlCancel == ASSUME NEW r \in Requests, Control, Cancel(r) PROVE Control'
<1>1. /\ loop' = "top" /\ host' = [host EXCEPT ![r].cancels = @ + 1]
      /\ UNCHANGED <<running, active, doneQ, handler, capacity>>
      /\ \/ CancelQueued(r)
         \/ r \in active /\ CancelActive(r)
         \/ UNCHANGED <<queue, cancelled>>
  BY DEF Cancel, FrameArrives, caps, task
<1>2. /\ host' \in [Requests -> [req : {"none", "sent", "refused"}, cancels : Nat]]
      /\ \A q \in Requests : host'[q].req = host[q].req
  <2>1. \A q \in Requests : host[q] \in [req : {"none", "sent", "refused"}, cancels : Nat]
    BY DEF Control
  <2>2. [host[r] EXCEPT !.cancels = @ + 1] \in [req : {"none", "sent", "refused"}, cancels : Nat]
        /\ [host[r] EXCEPT !.cancels = @ + 1].req = host[r].req
    BY <2>1
  <2>3. host' = [host EXCEPT ![r] = [host[r] EXCEPT !.cancels = @ + 1]]
    BY <1>1
  <2> QED
    BY <2>1, <2>2, <2>3 DEF Control
<1>3. /\ queue' \in Seq(Requests) /\ Distinct(queue')
      /\ Range(queue') \subseteq Range(queue)
      /\ cancelled' \subseteq active
  <2>1. CASE CancelQueued(r)
    <3>1. PICK i \in 1 .. Len(queue) : queue' = RemoveAt(queue, i) /\ cancelled' = cancelled
      BY <2>1 DEF CancelQueued
    <3> QED
      BY <3>1, Removed DEF Control
  <2>2. CASE r \in active /\ CancelActive(r)
    BY <2>2 DEF CancelActive, Control, Distinct
  <2>3. CASE UNCHANGED <<queue, cancelled>>
    BY <2>3 DEF Control, Distinct
  <2> QED
    BY <1>1, <2>1, <2>2, <2>3
<1>4. ASSUME NEW q \in Requests
      PROVE  /\ q \in Range(queue') => handler'[q] = "none"
             /\ q \in active' => handler'[q] # "none"
             /\ handler'[q] \notin Idle => q \in active'
             /\ q \in Range(doneQ') => handler'[q] = "finished" /\ q \in active'
             /\ host'[q].req = "none" => handler'[q] = "none" /\ q \notin Range(queue')
  BY <1>1, <1>2, <1>3 DEF Control
<1> QED
  BY <1>1, <1>2, <1>3, <1>4 DEF Control, Distinct

LEMMA ControlNotify == ASSUME NEW r \in Requests, Control, NotifyDone(r) PROVE Control'
<1>1. /\ handler[r] = "returned" /\ handler' = [handler EXCEPT ![r] = "finished"]
      /\ doneQ' = Append(doneQ, r)
      /\ UNCHANGED <<loop, queue, running, active, cancelled, capacity, host>>
  BY DEF NotifyDone, At, Goes, caps
<1>2. r \in active /\ r \notin Range(doneQ)
  BY <1>1 DEF Control, Idle
<1>3. /\ doneQ' \in Seq(Requests) /\ Distinct(doneQ') /\ Range(doneQ') = Range(doneQ) \cup {r}
  BY <1>1, <1>2, Appended DEF Control
<1>4. handler' \in [Requests -> Stages]
  BY <1>1 DEF Control, Stages
<1>5. \A q \in Requests : handler'[q] = IF q = r THEN "finished" ELSE handler[q]
  BY <1>1 DEF Control
<1>6. ASSUME NEW q \in Requests
      PROVE  /\ q \in Range(queue') => handler'[q] = "none"
             /\ q \in active' => handler'[q] # "none"
             /\ handler'[q] \notin Idle => q \in active'
             /\ q \in Range(doneQ') => handler'[q] = "finished" /\ q \in active'
             /\ host'[q].req = "none" => handler'[q] = "none" /\ q \notin Range(queue')
  BY <1>1, <1>2, <1>3, <1>5 DEF Control, Idle
<1> QED
  BY <1>1, <1>3, <1>4, <1>6 DEF Control, Distinct

LEMMA ControlNext == Control /\ [Next]_vars => Control'
<1> SUFFICES ASSUME Control, [Next]_vars PROVE Control'
  OBVIOUS
<1>1. CASE Drain
  BY <1>1, ControlDrain
<1>2. CASE HandlerDone
  BY <1>2, ControlHandlerDone
<1>3. CASE Eof \/ Abort
  BY <1>3 DEF Eof, Abort, Control, Distinct, task, caps
<1>4. ASSUME NEW r \in Requests, Req(r) \/ Refuse(r) \/ Cancel(r) PROVE Control'
  BY <1>4, ControlReq, ControlRefuse, ControlCancel
<1>5. ASSUME NEW r \in Requests,
             Body(r) \/ CreditOutput(r) \/ CreditArgument(r) \/ PeerAnswer(r)
      PROVE  Control'
  <2>1. loop' = "top" /\ UNCHANGED <<queue, running, active, cancelled, doneQ, handler, host, capacity>>
    BY <1>5 DEF Body, CreditOutput, CreditArgument, PeerAnswer, FrameArrives, task, caps
  <2> QED
    BY <2>1 DEF Control, Distinct
<1>6. CASE Resize
  <2>1. capacity' \in Nat
    BY <1>6, CartridgeAssumption DEF Resize
  <2> QED
    BY <1>6, <2>1 DEF Resize, main, task, Control, Distinct
<1>7. CASE Write
  <2>1. UNCHANGED book
    BY <1>7 DEF Write, main, task, caps, book
  <2> QED
    BY <2>1, ControlStutters
<1>8. ASSUME NEW r \in Requests, HandlerStep(r) PROVE Control'
  <2>1. CASE NotifyDone(r)
    BY <2>1, ControlNotify
  <2>2. CASE Tick(r) \/ WriteChunk(r)
    <3>1. UNCHANGED book
      BY <2>2 DEF Tick, WriteChunk, main, caps, book
    <3> QED
      BY <3>1, ControlStutters
  <2>3. CASE ReadInput(r) \/ SendPeerReq(r) \/ ReadResponse(r) \/ Succeed(r) \/ Released(r) \/ Fail(r)
    <3>1. PICK stage \in {"calling", "writing", "arguing", "returned"} : Goes(r, stage)
      BY <2>3 DEF ReadInput, StartOutput, SendPeerReq, ReadResponse, Succeed, Released, Fail, Return
    <3>2. handler[r] \in {"reading", "calling", "awaiting", "writing"}
      BY <2>3 DEF ReadInput, SendPeerReq, ReadResponse, Succeed, Released, Fail, At
    <3>3. UNCHANGED <<loop, queue, running, active, cancelled, doneQ, host, capacity>>
      BY <2>3 DEF ReadInput, SendPeerReq, ReadResponse, Succeed, Released, Fail, Return, main, caps
    <3> QED
      BY <3>1, <3>2, <3>3, ControlMoves DEF Stages, Idle
  <2>4. CASE WriteArgument(r)
    <3>1. UNCHANGED <<loop, queue, running, active, cancelled, doneQ, host, capacity>>
      BY <2>4 DEF WriteArgument, main, caps
    <3>2. CASE Goes(r, "awaiting")
      <4>1. handler[r] = "arguing"
        BY <2>4 DEF WriteArgument, At
      <4> QED
        BY <3>1, <3>2, <4>1, ControlMoves DEF Stages, Idle
    <3>3. CASE UNCHANGED handler
      <4>1. UNCHANGED book
        BY <3>1, <3>3 DEF book
      <4> QED
        BY <4>1, ControlStutters
    <3> QED
      BY <2>4, <3>2, <3>3 DEF WriteArgument
  <2> QED
    BY <1>8, <2>1, <2>2, <2>3, <2>4 DEF HandlerStep
<1>9. CASE UNCHANGED vars
  <2>1. UNCHANGED book
    BY <1>9 DEF vars, main, task, caps, book
  <2> QED
    BY <2>1, ControlStutters
<1> QED
  BY <1>1, <1>2, <1>3, <1>4, <1>5, <1>6, <1>7, <1>8, <1>9 DEF Next, MainStep

LEMMA ControlAlways == Spec => []Control
  BY ControlInit, ControlNext, PTL DEF Spec

\* While a request waits in the queue and the loop sleeps, some handler is
\* there to wake it, for any capacities and however they are changed
\* meanwhile: the loop looks at the capacity at its top, and goes back there
\* with every frame.
THEOREM QueueWatched == Spec => []QueueIsWatched
<1>1. Control => QueueIsWatched
  BY DEF Control, QueueIsWatched
<1> QED
  BY <1>1, ControlAlways, PTL

(***************************************************************************)
(* Frames, from the senders to the wire.                                   *)
(***************************************************************************)

FrameTypes == {"err", "cancelled", "peerCancel", "peerReq", "chunk", "end", "log"}
FrameSet == [rid : Requests, type : FrameTypes]

Flows ==
    /\ outbox \in Seq(FrameSet) /\ terminated \in Seq(Requests)
    /\ wire \in [Requests -> Seq(FrameTypes)]
    /\ peerWire \in [Requests -> Seq({"peerReq", "peerCancel", "answer"})]

LEMMA FramesAreFrames ==
    \A r \in Requests : \A t \in FrameTypes :
        Frame(r, t) \in FrameSet /\ Frame(r, t).rid = r /\ Frame(r, t).type = t
  BY DEF Frame, FrameSet

\* The host sent it, and no handler works at it or will: refused, cancelled
\* before it was started, or its handler has returned.
Due(r) == /\ host[r].req # "none" /\ r \notin Range(queue)
          /\ handler[r] \in {"none", "returned", "finished"}

\* Every step but the writer's and the peer's answer leaves what is written
\* and sends at most one frame; the step that makes an answer due sends it.
Quiet == /\ UNCHANGED <<terminated, wire>>
         /\ peerWire' = peerWire \/ \E r \in Requests : peerWire' = [peerWire EXCEPT ![r] = Append(@, "answer")]
         /\ outbox' = outbox \/ \E r \in Requests : \E t \in FrameTypes : outbox' = Append(outbox, Frame(r, t))
         /\ \A r \in Requests :
               Due(r)' => Due(r) \/ \E t \in Terminals : outbox' = Append(outbox, Frame(r, t))

LEMMA SameStage ==
    ASSUME UNCHANGED <<handler, queue, host>>
    PROVE  \A r \in Requests : Due(r)' => Due(r) \/ \E t \in Terminals : outbox' = Append(outbox, Frame(r, t))
  BY DEF Due

\* A handler that goes on, or returns with its answer.
LEMMA Steps ==
    ASSUME Control, NEW r \in Requests, NEW stage, Goes(r, stage), UNCHANGED <<queue, host>>,
           \/ stage \notin {"none", "returned", "finished"}
           \/ handler[r] = "returned"
           \/ \E t \in Terminals : outbox' = Append(outbox, Frame(r, t))
    PROVE  \A q \in Requests : Due(q)' => Due(q) \/ \E t \in Terminals : outbox' = Append(outbox, Frame(q, t))
<1>1. \A q \in Requests : handler'[q] = IF q = r THEN stage ELSE handler[q]
  BY DEF Goes, Control
<1>2. handler[r] = "returned" => Due(r)
  BY DEF Due, Control
<1> QED
  BY <1>1, <1>2 DEF Due

LEMMA QuietSteps == Control /\ [Next]_vars => Quiet \/ Write
<1> SUFFICES ASSUME Control, [Next]_vars, ~ Write PROVE Quiet
  OBVIOUS
<1> DEFINE Stay == \A q \in Requests :
                      Due(q)' => Due(q) \/ \E t \in Terminals : outbox' = Append(outbox, Frame(q, t))
<1>0. handler \in [Requests -> Stages]
  BY DEF Control
<1>1. CASE Drain
  <2>1. UNCHANGED <<outbox, terminated, wire, peerWire, host>>
    BY <1>1 DEF Drain, writer
  <2> DEFINE n == Fitting
             rs == {queue[k] : k \in 1 .. n}
  <2>2. n \in 0 .. Len(queue) /\ queue' = SubSeq(queue, n + 1, Len(queue)) /\ Spawn(rs)
    BY <1>1, FittingFits DEF Drain
  <2>3. Range(queue') = Range(queue) \ rs
    <3> HIDE DEF n
    <3> QED
      BY <2>2, CutOff DEF Control
  <2>4. \A q \in Requests : handler'[q] = IF q \in rs THEN "reading" ELSE handler[q]
    BY <2>2 DEF Spawn
  <2> HIDE DEF rs
  <2>5. Stay
    BY <2>1, <2>3, <2>4 DEF Due
  <2> QED
    BY <2>1, <2>5 DEF Quiet
<1>2. CASE HandlerDone
  <2>1. UNCHANGED <<terminated, wire, peerWire, handler, queue, host>>
    BY <1>2 DEF HandlerDone, writer, task
  <2>2. Head(doneQ) \in Requests /\ DeferredErr(Head(doneQ))
    BY <1>2, Popped DEF HandlerDone, Control
  <2>3. outbox' = outbox \/ \E r \in Requests : \E t \in FrameTypes : outbox' = Append(outbox, Frame(r, t))
    BY <2>2 DEF DeferredErr, FrameTypes
  <2> QED
    BY <2>1, <2>3, SameStage DEF Quiet
<1>3. CASE Eof \/ Abort \/ Resize
  <2>1. UNCHANGED <<outbox, terminated, wire, peerWire, handler, queue, host>>
    BY <1>3 DEF Eof, Abort, Resize, writer, task, main
  <2> QED
    BY <2>1, SameStage DEF Quiet
<1>4. ASSUME NEW r \in Requests, Req(r) PROVE Quiet
  <2>1. UNCHANGED <<outbox, terminated, wire, peerWire>>
    BY <1>4 DEF Req, writer
  <2>2. Admit(r) /\ \A q \in Requests \ {r} : host'[q] = host[q]
    BY <1>4 DEF Req, Control
  <2>3. CASE Room(running)
    <3>1. queue' = queue /\ \A q \in Requests : handler'[q] = IF q \in {r} THEN "reading" ELSE handler[q]
      BY <2>2, <2>3 DEF Admit, Spawn
    <3>2. Stay
      BY <2>2, <3>1 DEF Due
    <3> QED
      BY <2>1, <3>2 DEF Quiet
  <2>4. CASE ~ Room(running)
    <3>1. queue' = Append(queue, r) /\ handler' = handler
      BY <2>2, <2>4 DEF Admit
    <3>2. Range(queue') = Range(queue) \cup {r}
      BY <3>1, Appended DEF Control
    <3>3. Stay
      BY <2>2, <3>1, <3>2 DEF Due
    <3> QED
      BY <2>1, <3>3 DEF Quiet
  <2> QED
    BY <2>3, <2>4
<1>5. ASSUME NEW r \in Requests, Body(r) \/ CreditOutput(r) \/ CreditArgument(r) \/ PeerAnswer(r)
      PROVE  Quiet
  <2>1. UNCHANGED <<outbox, terminated, wire, handler, queue, host>>
    BY <1>5 DEF Body, CreditOutput, CreditArgument, PeerAnswer, writer, task
  <2>2. peerWire' = peerWire \/ peerWire' = [peerWire EXCEPT ![r] = Append(@, "answer")]
    BY <1>5 DEF Body, CreditOutput, CreditArgument, PeerAnswer, writer
  <2> QED
    BY <2>1, <2>2, SameStage DEF Quiet
<1>6. ASSUME NEW r \in Requests, Refuse(r) PROVE Quiet
  <2>1. UNCHANGED <<terminated, wire, peerWire, handler, queue>> /\ outbox' = Append(outbox, Frame(r, "err"))
    BY <1>6 DEF Refuse, writer, task
  <2>2. \A q \in Requests \ {r} : host'[q] = host[q]
    BY <1>6 DEF Refuse, Control
  <2>3. Stay
    BY <2>1, <2>2 DEF Due, Terminals
  <2> QED
    BY <2>1, <2>3 DEF Quiet, FrameTypes
<1>7. ASSUME NEW r \in Requests, Cancel(r) PROVE Quiet
  <2>1. UNCHANGED <<terminated, wire, peerWire, handler>>
    BY <1>7 DEF Cancel, writer, task
  <2>2. outbox' = outbox \/ \E t \in FrameTypes : outbox' = Append(outbox, Frame(r, t))
    BY <1>7 DEF Cancel, CancelQueued, CancelActive, FrameTypes
  <2>3. \A q \in Requests : host[q].req = "none" => host'[q].req = "none"
    BY <1>7 DEF Cancel, Control
  <2>4. CASE CancelQueued(r)
    <3>1. PICK i \in 1 .. Len(queue) : queue[i] = r /\ queue' = RemoveAt(queue, i)
      BY <2>4 DEF CancelQueued
    <3>2. Range(queue') = Range(queue) \ {r}
      BY <3>1, Removed DEF Control
    <3>3. outbox' = Append(outbox, Frame(r, "cancelled"))
      BY <2>4 DEF CancelQueued
    <3>4. Stay
      BY <2>1, <2>3, <3>2, <3>3 DEF Due, Terminals
    <3> QED
      BY <2>1, <2>2, <3>4 DEF Quiet
  <2>5. CASE queue' = queue
    <3>1. Stay
      BY <2>1, <2>3, <2>5 DEF Due
    <3> QED
      BY <2>1, <2>2, <3>1 DEF Quiet
  <2> QED
    BY <1>7, <2>4, <2>5 DEF Cancel, CancelActive
<1>8. ASSUME NEW r \in Requests, HandlerStep(r) PROVE Quiet
  <2>0. UNCHANGED <<terminated, wire, peerWire, queue, host>>
    BY <1>8 DEF HandlerStep, ReadInput, SendPeerReq, WriteArgument, ReadResponse, WriteChunk,
                Succeed, Released, Fail, Return, NotifyDone, Tick, writer, main
  <2>1. CASE \E t \in {"end", "err"} : Return(r, t)
    <3>1. PICK t \in {"end", "err"} : Goes(r, "returned") /\ outbox' = Append(outbox, Frame(r, t))
      BY <2>1 DEF Return, Says
    <3>2. t \in FrameTypes /\ t \in Terminals
      BY DEF FrameTypes, Terminals
    <3>3. Stay
      BY <2>0, <3>1, <3>2, Steps
    <3> QED
      BY <2>0, <3>1, <3>2, <3>3 DEF Quiet
  <2>2. CASE NotifyDone(r)
    <3>1. handler[r] = "returned" /\ Goes(r, "finished") /\ UNCHANGED outbox
      BY <2>2 DEF NotifyDone, At
    <3>2. Stay
      BY <2>0, <3>1, Steps
    <3> QED
      BY <2>0, <3>1, <3>2 DEF Quiet
  <2>3. CASE SendPeerReq(r) \/ WriteChunk(r) \/ Tick(r)
    <3>1. \E t \in FrameTypes : outbox' = Append(outbox, Frame(r, t))
      BY <2>3 DEF SendPeerReq, WriteChunk, Tick, Says, FrameTypes
    <3>2. UNCHANGED handler \/ Goes(r, "arguing")
      BY <2>3 DEF SendPeerReq, WriteChunk, Tick
    <3>3. Stay
      BY <2>0, <3>2, Steps, SameStage
    <3> QED
      BY <2>0, <3>1, <3>3 DEF Quiet
  <2>4. CASE ReadInput(r) \/ WriteArgument(r) \/ ReadResponse(r)
    <3>1. UNCHANGED outbox
      BY <2>4 DEF ReadInput, WriteArgument, ReadResponse
    <3>2. UNCHANGED handler \/ Goes(r, "calling") \/ Goes(r, "writing") \/ Goes(r, "awaiting")
      BY <2>4 DEF ReadInput, WriteArgument, ReadResponse, StartOutput
    <3>3. Stay
      BY <2>0, <3>2, Steps, SameStage
    <3> QED
      BY <2>0, <3>1, <3>3 DEF Quiet
  <2> QED
    BY <1>8, <2>1, <2>2, <2>3, <2>4 DEF HandlerStep, Succeed, Released, Fail
<1>9. CASE UNCHANGED vars
  <2>1. UNCHANGED <<outbox, terminated, wire, peerWire, handler, queue, host>>
    BY <1>9 DEF vars, writer, task, main
  <2> QED
    BY <2>1, SameStage DEF Quiet
<1> QED
  BY <1>1, <1>2, <1>3, <1>4, <1>5, <1>6, <1>7, <1>8, <1>9 DEF Next, MainStep

\* What the writer does with a frame.
LEMMA WriterStep ==
    ASSUME Flows, Write
    PROVE  \E r \in Requests : \E t \in FrameTypes :
              /\ outbox # <<>> /\ Head(outbox) = Frame(r, t) /\ outbox' = Tail(outbox)
              /\ outbox' \in Seq(FrameSet)
              /\ IF t \in {"peerReq", "peerCancel"}
                   THEN /\ peerWire' = [peerWire EXCEPT ![r] = Append(@, t)]
                        /\ UNCHANGED <<terminated, wire>>
                   ELSE Gated(Frame(r, t)) /\ UNCHANGED peerWire
<1>1. outbox # <<>> /\ Head(outbox) \in FrameSet /\ Tail(outbox) \in Seq(FrameSet)
  BY Popped DEF Write, Flows
<1> DEFINE r == Head(outbox).rid
           t == Head(outbox).type
<1>2. r \in Requests /\ t \in FrameTypes /\ Head(outbox) = Frame(r, t)
  BY <1>1 DEF FrameSet, Frame
<1>3. /\ outbox' = Tail(outbox)
      /\ IF t \in {"peerReq", "peerCancel"}
           THEN /\ peerWire' = [peerWire EXCEPT ![r] = Append(@, t)]
                /\ UNCHANGED <<terminated, wire>>
           ELSE Gated(Head(outbox)) /\ UNCHANGED peerWire
  BY DEF Write
<1> HIDE DEF r, t
<1> QED
  BY <1>1, <1>2, <1>3

LEMMA Remembered ==
    ASSUME terminated \in Seq(Requests), NEW r \in Requests, Remember(r)
    PROVE  /\ terminated' \in Seq(Requests)
           /\ Range(terminated') \subseteq Range(terminated) \cup {r}
<1>1. CASE Len(terminated) = Ring
  <2>1. terminated # <<>>
    BY <1>1, CartridgeAssumption, EmptySeq
  <2>2. Tail(terminated) \in Seq(Requests) /\ Range(Tail(terminated)) \subseteq Range(terminated)
    BY <2>1, Popped
  <2>3. terminated' = Append(Tail(terminated), r)
    BY <1>1 DEF Remember
  <2> DEFINE u == Tail(terminated)
  <2> HIDE DEF u
  <2>4. u \in Seq(Requests) => Append(u, r) \in Seq(Requests) /\ Range(Append(u, r)) = Range(u) \cup {r}
    BY Appended
  <2> USE DEF u
  <2> QED
    BY <2>2, <2>3, <2>4
<1>2. CASE Len(terminated) # Ring
  <2>1. terminated' = Append(terminated, r)
    BY <1>2 DEF Remember
  <2>2. Append(terminated, r) \in Seq(Requests) /\ Range(Append(terminated, r)) = Range(terminated) \cup {r}
    BY Appended
  <2> QED
    BY <2>1, <2>2
<1> QED
  BY <1>1, <1>2

LEMMA PeerAppended ==
    ASSUME peerWire \in [Requests -> Seq({"peerReq", "peerCancel", "answer"})],
           NEW r \in Requests, NEW t \in {"peerReq", "peerCancel", "answer"},
           peerWire' = [peerWire EXCEPT ![r] = Append(@, t)]
    PROVE  peerWire' \in [Requests -> Seq({"peerReq", "peerCancel", "answer"})]
<1>1. peerWire[r] \in Seq({"peerReq", "peerCancel", "answer"})
  OBVIOUS
<1>2. Append(peerWire[r], t) \in Seq({"peerReq", "peerCancel", "answer"})
  BY <1>1
<1> QED
  BY <1>2

LEMMA FlowsNext == Control /\ Flows /\ [Next]_vars => Flows'
<1> SUFFICES ASSUME Control, Flows, [Next]_vars PROVE Flows'
  OBVIOUS
<1>1. CASE Quiet
  <2>1. outbox' \in Seq(FrameSet)
    <3>1. ASSUME NEW r \in Requests, NEW t \in FrameTypes, outbox' = Append(outbox, Frame(r, t))
          PROVE  outbox' \in Seq(FrameSet)
      BY <3>1, FramesAreFrames, Appended DEF Flows
    <3> QED
      BY <1>1, <3>1 DEF Quiet, Flows
  <2>2. peerWire' \in [Requests -> Seq({"peerReq", "peerCancel", "answer"})]
    <3>1. ASSUME NEW r \in Requests, peerWire' = [peerWire EXCEPT ![r] = Append(@, "answer")]
          PROVE  peerWire' \in [Requests -> Seq({"peerReq", "peerCancel", "answer"})]
      BY <3>1, PeerAppended DEF Flows
    <3> QED
      BY <1>1, <3>1 DEF Quiet, Flows
  <2> QED
    BY <1>1, <2>1, <2>2 DEF Quiet, Flows
<1>2. CASE Write
  <2>1. PICK r \in Requests, t \in FrameTypes :
              /\ outbox' \in Seq(FrameSet)
              /\ IF t \in {"peerReq", "peerCancel"}
                   THEN /\ peerWire' = [peerWire EXCEPT ![r] = Append(@, t)]
                        /\ UNCHANGED <<terminated, wire>>
                   ELSE Gated(Frame(r, t)) /\ UNCHANGED peerWire
    BY <1>2, WriterStep
  <2>2. CASE t \in {"peerReq", "peerCancel"}
    <3>1. peerWire' = [peerWire EXCEPT ![r] = Append(@, t)] /\ UNCHANGED <<terminated, wire>>
      BY <2>1, <2>2
    <3>2. peerWire' \in [Requests -> Seq({"peerReq", "peerCancel", "answer"})]
      BY <2>2, <3>1, PeerAppended DEF Flows
    <3> QED
      BY <2>1, <3>1, <3>2 DEF Flows
  <2>3. CASE t \notin {"peerReq", "peerCancel"}
    <3>1. Gated(Frame(r, t)) /\ UNCHANGED peerWire
      BY <2>1, <2>3
    <3>2. wire' = wire \/ wire' = [wire EXCEPT ![r] = Append(@, t)]
      BY <3>1, FramesAreFrames DEF Gated
    <3>3. terminated' = terminated \/ Remember(r)
      BY <3>1, FramesAreFrames DEF Gated
    <3>4. wire' \in [Requests -> Seq(FrameTypes)]
      <4>1. wire \in [Requests -> Seq(FrameTypes)]
        BY DEF Flows
      <4>2. wire[r] \in Seq(FrameTypes) /\ Append(wire[r], t) \in Seq(FrameTypes)
        BY <4>1
      <4> QED
        BY <3>2, <4>1, <4>2
    <3>5. terminated' \in Seq(Requests)
      BY <3>3, Remembered DEF Flows
    <3> QED
      BY <2>1, <3>1, <3>4, <3>5 DEF Flows
  <2> QED
    BY <2>2, <2>3
<1> QED
  BY <1>1, <1>2, QuietSteps

-----------------------------------------------------------------------------
(* No answer is lost on the way.                                           *)

Sent(r) == \E k \in 1 .. Len(outbox) : outbox[k].rid = r /\ outbox[k].type \in Terminals

\* An answer that is due is on the wire or on its way, and what the writer
\* remembers is on the wire.
Owed == /\ \A r \in Requests : Due(r) => Sent(r) \/ Answered(r)
        /\ \A r \in Range(terminated) : Answered(r)

LEMMA SaidIsSent ==
    ASSUME outbox \in Seq(FrameSet), NEW r \in Requests, NEW t \in FrameTypes,
           outbox' = Append(outbox, Frame(r, t))
    PROVE  /\ \A q \in Requests : Sent(q) => Sent(q)'
           /\ t \in Terminals => Sent(r)'
<1>1. /\ Len(outbox) \in Nat /\ Len(outbox') = Len(outbox) + 1
      /\ \A k \in 1 .. Len(outbox) : outbox'[k] = outbox[k]
      /\ outbox'[Len(outbox) + 1] = Frame(r, t)
  BY FramesAreFrames, AppendProperties
<1>2. ASSUME NEW q \in Requests, Sent(q) PROVE Sent(q)'
  <2>1. PICK k \in 1 .. Len(outbox) : outbox[k].rid = q /\ outbox[k].type \in Terminals
    BY <1>2 DEF Sent
  <2>2. k \in 1 .. Len(outbox') /\ outbox'[k] = outbox[k]
    BY <1>1
  <2> QED
    BY <2>1, <2>2 DEF Sent
<1>3. ASSUME t \in Terminals PROVE Sent(r)'
  <2>1. Len(outbox) + 1 \in 1 .. Len(outbox')
    BY <1>1
  <2> QED
    BY <1>1, <1>3, <2>1, FramesAreFrames DEF Sent
<1> QED
  BY <1>2, <1>3

LEMMA WrittenIsAnswered ==
    ASSUME Flows, NEW r \in Requests, NEW t \in FrameTypes,
           wire' = [wire EXCEPT ![r] = Append(@, t)]
    PROVE  /\ \A q \in Requests : Answered(q) => Answered(q)'
           /\ t \in Terminals => Answered(r)'
<1>1. wire[r] \in Seq(FrameTypes) /\ wire'[r] = Append(wire[r], t)
      /\ \A q \in Requests \ {r} : wire'[q] = wire[q]
  BY DEF Flows
<1>2. /\ Len(wire[r]) \in Nat /\ Len(wire'[r]) = Len(wire[r]) + 1
      /\ \A k \in 1 .. Len(wire[r]) : wire'[r][k] = wire[r][k]
      /\ wire'[r][Len(wire[r]) + 1] = t
  BY <1>1, AppendProperties
<1>3. ASSUME NEW q \in Requests, Answered(q) PROVE Answered(q)'
  <2>1. PICK u \in Terminals, k \in 1 .. Len(wire[q]) : wire[q][k] = u
    BY <1>3 DEF Answered, Contains
  <2>2. k \in 1 .. Len(wire'[q]) /\ wire'[q][k] = u
    BY <1>1, <1>2, <2>1
  <2> QED
    BY <2>2 DEF Answered, Contains
<1>4. ASSUME t \in Terminals PROVE Answered(r)'
  <2>1. Len(wire[r]) + 1 \in 1 .. Len(wire'[r])
    BY <1>2
  <2> QED
    BY <1>2, <1>4, <2>1 DEF Answered, Contains
<1> QED
  BY <1>3, <1>4

LEMMA OwedNext == Control /\ Flows /\ Owed /\ [Next]_vars => Owed'
<1> SUFFICES ASSUME Control, Flows, Owed, [Next]_vars PROVE Owed'
  OBVIOUS
<1>0. Range(terminated) \subseteq Requests
  BY RangeIn DEF Flows
<1>1. CASE Quiet
  <2>1. \A r : Answered(r)' = Answered(r)
    BY <1>1 DEF Quiet, Answered
  <2>2. \A q \in Requests : Sent(q) => Sent(q)'
    <3>1. CASE outbox' = outbox
      BY <3>1 DEF Sent
    <3>2. ASSUME NEW r \in Requests, NEW t \in FrameTypes, outbox' = Append(outbox, Frame(r, t))
          PROVE  \A q \in Requests : Sent(q) => Sent(q)'
      BY <3>2, SaidIsSent DEF Flows
    <3> QED
      BY <1>1, <3>1, <3>2 DEF Quiet
  <2>3. ASSUME NEW r \in Requests, Due(r)'
        PROVE  Sent(r)' \/ Answered(r)'
    <3>1. CASE Due(r)
      BY <2>1, <2>2, <3>1 DEF Owed
    <3>2. ASSUME NEW t \in Terminals, outbox' = Append(outbox, Frame(r, t)) PROVE Sent(r)'
      <4>1. t \in FrameTypes /\ t \in Terminals
        BY DEF FrameTypes, Terminals
      <4> QED
        BY <3>2, <4>1, SaidIsSent DEF Flows
    <3> QED
      BY <1>1, <2>3, <3>1, <3>2 DEF Quiet
  <2>4. terminated' = terminated
    BY <1>1 DEF Quiet
  <2>5. \A r \in Range(terminated') : Answered(r)'
    BY <2>1, <2>4 DEF Owed
  <2> QED
    BY <2>3, <2>5 DEF Owed
<1>2. CASE Write
  <2>1. PICK r \in Requests, t \in FrameTypes :
              /\ outbox # <<>> /\ Head(outbox) = Frame(r, t) /\ outbox' = Tail(outbox)
              /\ IF t \in {"peerReq", "peerCancel"}
                   THEN UNCHANGED <<terminated, wire>>
                   ELSE Gated(Frame(r, t))
    BY <1>2, WriterStep
  <2>2. \A q \in Requests : Answered(q) => Answered(q)'
    <3>1. CASE wire' = wire
      BY <3>1 DEF Answered
    <3>2. CASE wire' = [wire EXCEPT ![r] = Append(@, t)]
      BY <3>2, WrittenIsAnswered
    <3> QED
      BY <2>1, <3>1, <3>2, FramesAreFrames DEF Gated
  <2>3. t \in Terminals => Answered(r)'
    <3> SUFFICES ASSUME t \in Terminals PROVE Answered(r)'
      OBVIOUS
    <3>1. Gated(Frame(r, t))
      BY <2>1 DEF Terminals
    <3>2. CASE Contains(terminated, r)
      <4>1. r \in Range(terminated)
        BY <3>2, RangeOf DEF Contains, Flows
      <4> QED
        BY <4>1, <2>2 DEF Owed
    <3>3. CASE ~ Contains(terminated, r)
      <4>1. wire' = [wire EXCEPT ![r] = Append(@, t)]
        BY <3>1, <3>3, FramesAreFrames DEF Gated
      <4> QED
        BY <4>1, WrittenIsAnswered
    <3> QED
      BY <3>2, <3>3
  <2>4. \A q \in Requests : Sent(q) => Sent(q)' \/ (q = r /\ t \in Terminals)
    <3> SUFFICES ASSUME NEW q \in Requests, Sent(q), ~ (q = r /\ t \in Terminals) PROVE Sent(q)'
      OBVIOUS
    <3>1. PICK k \in 1 .. Len(outbox) : outbox[k].rid = q /\ outbox[k].type \in Terminals
      BY DEF Sent
    <3>2. /\ Head(outbox) = outbox[1] /\ Len(Tail(outbox)) = Len(outbox) - 1
          /\ \A i \in 1 .. Len(Tail(outbox)) : Tail(outbox)[i] = outbox[i + 1]
          /\ Len(outbox) \in Nat
      BY <2>1, HeadTailProperties, EmptySeq DEF Flows
    <3>3. k # 1
      BY <2>1, <3>1, <3>2, FramesAreFrames
    <3>4. k - 1 \in 1 .. Len(outbox') /\ outbox'[k - 1] = outbox[k]
      BY <2>1, <3>2, <3>3
    <3> QED
      BY <3>1, <3>4 DEF Sent
  <2>5. \A q : Due(q)' = Due(q)
    BY <1>2 DEF Write, task, main, Due
  <2>6. ASSUME NEW q \in Range(terminated') PROVE Answered(q)'
    <3>1. CASE terminated' = terminated
      BY <1>0, <2>2, <2>6, <3>1 DEF Owed
    <3>2. CASE t \in Terminals /\ Remember(r)
      <4>1. q \in Range(terminated) \/ q = r
        BY <2>6, <3>2, Remembered DEF Flows
      <4> QED
        BY <1>0, <2>2, <2>3, <3>2, <4>1 DEF Owed
    <3> QED
      BY <2>1, <3>1, <3>2, FramesAreFrames DEF Gated
  <2>7. ASSUME NEW q \in Requests, Due(q)'
        PROVE  Sent(q)' \/ Answered(q)'
    BY <2>2, <2>3, <2>4, <2>5, <2>7 DEF Owed
  <2> QED
    BY <2>6, <2>7 DEF Owed
<1> QED
  BY <1>1, <1>2, QuietSteps

LEMMA FramesInit == Init => Flows /\ Owed
<1> SUFFICES ASSUME Init PROVE Flows /\ Owed
  OBVIOUS
<1>1. Range(terminated) = {}
  BY DEF Init, Range
<1>2. Flows
  BY EmptySeq DEF Init, Flows
<1> QED
  BY <1>1, <1>2 DEF Init, Owed, Due

LEMMA FramesAlways == Spec => [](Control /\ Flows /\ Owed)
  BY ControlInit, ControlNext, FramesInit, FlowsNext, OwedNext, PTL DEF Spec

\* After the end of the input, once the writer has caught up, every request
\* the host sent is answered, or its handler still runs, or the end of the
\* input has left it in the queue, for any requests, capacities and windows:
\* a refusal, a cancellation and the end of a handler each leave a frame in
\* the step that makes the answer due, and the writer drops none of them but
\* for an answer already on the wire.
THEOREM ShutdownLosesNothing == Spec => []ShutdownAnswersAll
<1>1. Control /\ Flows /\ Owed => ShutdownAnswersAll
  <2> SUFFICES ASSUME Control, Flows, Owed, outbox = <<>>, NEW r \in Requests,
                      host[r].req # "none", r \notin Tasks \cup Range(queue)
               PROVE  Answered(r)
    BY DEF ShutdownAnswersAll
  <2>1. Due(r) /\ ~ Sent(r)
    BY EmptySeq DEF Due, Tasks, Sent
  <2> QED
    BY <2>1 DEF Owed
<1> QED
  BY <1>1, FramesAlways, PTL

-----------------------------------------------------------------------------
(* Nothing follows a terminal frame.                                       *)

\* The writer remembers every terminal it wrote, as long as it has the room;
\* then no frame of a request is written after its terminal one.
Sealed(r) == \A k \in 1 .. Len(wire[r]) : wire[r][k] \in Terminals =>
                 k = Len(wire[r]) /\ r \in Range(terminated)
Gate == Distinct(terminated) /\ \A r \in Requests : Sealed(r)

\* Ring is 1024 in the code (run_cbor_mode): the process lives for no more
\* requests than that.
RingSuffices == Cardinality(Requests) <= Ring

LEMMA RoomInTheRing ==
    ASSUME RingSuffices, terminated \in Seq(Requests), Distinct(terminated),
           NEW r \in Requests, r \notin Range(terminated)
    PROVE  Len(terminated) # Ring
<1> DEFINE n == Len(terminated)
           cut == {terminated[k] : k \in 1 .. n}
<1>1. n \in Nat /\ n \in 0 .. n
  OBVIOUS
<1>2. IsFiniteSet(cut) /\ Cardinality(cut) = n /\ cut \subseteq Range(terminated)
  BY <1>1, CutOff
<1>3. cut \subseteq Requests \ {r}
  BY <1>2, RangeIn
<1>4. IsFiniteSet(Requests \ {r}) /\ Cardinality(Requests \ {r}) = Cardinality(Requests) - 1
  BY CartridgeAssumption, FS_RemoveElement
<1> HIDE DEF cut
<1>5. n <= Cardinality(Requests) - 1
  BY <1>2, <1>3, <1>4, FS_Subset
<1>6. Cardinality(Requests) \in Nat
  BY ActiveFinite
<1> QED
  BY <1>1, <1>5, <1>6, CartridgeAssumption DEF RingSuffices

LEMMA GateNext ==
    ASSUME RingSuffices, Control, Flows, Gate, [Next]_vars
    PROVE  Gate'
<1>1. CASE UNCHANGED <<terminated, wire>>
  BY <1>1 DEF Gate, Sealed, Distinct
<1>2. CASE Write
  <2>1. PICK r \in Requests, t \in FrameTypes :
            UNCHANGED <<terminated, wire>> \/ Gated(Frame(r, t))
    BY <1>2, WriterStep
  <2>2. CASE Contains(terminated, r) \/ UNCHANGED <<terminated, wire>>
    <3>1. UNCHANGED <<terminated, wire>>
      BY <2>1, <2>2, FramesAreFrames DEF Gated
    <3> QED
      BY <1>1, <3>1
  <2>3. CASE ~ Contains(terminated, r) /\ ~ UNCHANGED <<terminated, wire>>
    <3>1. /\ wire' = [wire EXCEPT ![r] = Append(@, t)]
          /\ IF t \in Terminals THEN Remember(r) ELSE UNCHANGED terminated
      BY <2>1, <2>3, FramesAreFrames DEF Gated
    <3>2. r \notin Range(terminated)
      BY <2>3, RangeOf DEF Contains, Flows
    <3>3. /\ Distinct(terminated') /\ terminated' \in Seq(Requests)
          /\ Range(terminated) \subseteq Range(terminated')
          /\ t \in Terminals => r \in Range(terminated')
      <4>1. CASE t \in Terminals
        <5>1. terminated' = Append(terminated, r)
          BY <3>1, <3>2, <4>1, RoomInTheRing DEF Remember, Gate, Flows
        <5> QED
          BY <3>2, <5>1, Appended DEF Gate, Flows
      <4>2. CASE t \notin Terminals
        BY <3>1, <4>2 DEF Gate, Flows, Distinct
      <4> QED
        BY <4>1, <4>2
    <3>4. /\ wire[r] \in Seq(FrameTypes) /\ wire'[r] = Append(wire[r], t)
          /\ \A q \in Requests \ {r} : wire'[q] = wire[q]
      BY <3>1 DEF Flows
    <3>5. /\ Len(wire[r]) \in Nat /\ Len(wire'[r]) = Len(wire[r]) + 1
          /\ \A k \in 1 .. Len(wire[r]) : wire'[r][k] = wire[r][k]
          /\ wire'[r][Len(wire[r]) + 1] = t
      BY <3>4, AppendProperties
    <3>6. \A k \in 1 .. Len(wire[r]) : wire[r][k] \notin Terminals
      BY <3>2 DEF Gate, Sealed
    <3>7. Sealed(r)'
      BY <3>3, <3>5, <3>6 DEF Sealed
    <3>8. \A q \in Requests \ {r} : Sealed(q)'
      BY <3>3, <3>4 DEF Gate, Sealed
    <3> QED
      BY <3>3, <3>7, <3>8 DEF Gate
  <2> QED
    BY <2>2, <2>3
<1> QED
  BY <1>1, <1>2, QuietSteps DEF Quiet

\* A request has one terminal frame on the wire and nothing of it follows,
\* for any requests the writer's memory has room for: handlers, their
\* detached senders, the deferred CANCELLED and the main loop's own answers
\* may send in any order.
THEOREM NothingFollowsTheTerminal ==
    ASSUME RingSuffices PROVE Spec => []TerminalIsLast
<1>1. Init => Gate
  BY DEF Init, Gate, Sealed, Distinct
<1>2. Control /\ Flows /\ Gate /\ [Next]_vars => Gate'
  BY GateNext
<1>3. Flows /\ Gate => TerminalIsLast
  <2> SUFFICES ASSUME Flows, Gate, NEW r \in Requests, NEW k \in 1 .. Len(wire[r]) - 1
               PROVE  wire[r][k] \notin Terminals
    BY DEF TerminalIsLast
  <2>1. Len(wire[r]) \in Nat
    BY DEF Flows
  <2>2. k \in 1 .. Len(wire[r]) /\ k # Len(wire[r])
    BY <2>1
  <2> QED
    BY <2>2 DEF Gate, Sealed
<1> QED
  BY <1>1, <1>2, <1>3, FramesAlways, PTL DEF Spec
=============================================================================
