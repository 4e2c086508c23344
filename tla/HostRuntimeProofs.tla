-------------------------- MODULE HostRuntimeProofs --------------------------
(***************************************************************************)
(* What a host keeps whatever its processes do, for any cartridges,        *)
(* requests, faults and rosters: entries are of processes that run, frames *)
(* reach the process they are meant for, the frames of a flow leave the    *)
(* host numbered without a gap, and a process that leaves the roster is    *)
(* not killed while it serves.                                             *)
(*                                                                         *)
(* Kept is the invariant that holds for all constants.  Numbered is the    *)
(* one about the flows; it, and with it the last two properties, needs     *)
(* that the host does not answer for a live process, which it does for a   *)
(* call between two of its own processes when the caller's pipe breaks.    *)
(***************************************************************************)
EXTENDS HostRuntime, FiniteSetTheorems, SequenceTheorems, TLAPS

(***************************************************************************)
(* Types                                                                   *)
(***************************************************************************)
Kinds == {"req", "data", "end", "err", "grant", "cancel"}
Frames == [type : Kinds, r : Requests, to : {"handler", "caller"}, force : BOOLEAN]
Events == [c : Cartridges, gen : Nat, type : {"req", "data", "end"}, flow : Flows, seq : Nat]
          \cup [c : Cartridges, gen : Nat, type : {"death"}]
Carts == [running : BOOLEAN, alive : BOOLEAN, reader : BOOLEAN, writer : BOOLEAN, gen : Nat,
          failed : BOOLEAN, retiring : BOOLEAN, reason : {"none", "retired", "overdue"}]
Knowledge == {"req", "call", "data", "end", "grant", "cancel", "answered"}

NetType == /\ call \in [Requests -> {"new", "open", "over"}]
           /\ toHost \in Seq(Frames)
           /\ expect \in [Flows -> Nat] /\ gap \in BOOLEAN
           /\ sent \subseteq Requests
HostType == /\ cart \in [Cartridges -> Carts] /\ up \in BOOLEAN
            /\ troubles \in Nat
TablesType == /\ incoming \in [Requests -> Cartridges \cup {None}]
              /\ outgoing \in [Requests -> Cartridges \cup {None}]
              /\ bodyDone \subseteq Requests /\ respDone \subseteq Requests
              /\ peers \in [Requests -> SUBSET Requests]
              /\ maxSeq \in [Flows -> Nat \cup {-1}]
              /\ unrouted \subseteq Requests
ProcessType == /\ atHandler \in [Requests -> SUBSET Knowledge]
               /\ atCaller \in [Requests -> SUBSET Knowledge]
               /\ wrote \in [Flows -> Nat] /\ astray \subseteq Requests
EventsType == events \in Seq(Events)
Types == NetType /\ HostType /\ TablesType /\ ProcessType /\ EventsType

(***************************************************************************)
(* What holds for all constants                                            *)
(***************************************************************************)

\* A process that lives is one the host runs; its writer works, and nobody
\* has a reason to kill it.
Upright == \A c \in Cartridges :
  LET p == cart[c] IN
  /\ p.alive => p.running /\ p.reader /\ p.writer /\ p.reason = "none"
  /\ p.reason # "none" \/ p.reader => p.running
  /\ p.running /\ ~p.writer => BrokenPipes
  /\ p.retiring => p.failed

\* Only a living process knows anything.
Minds == \A r \in Requests :
  /\ atHandler[r] # {} => Here(Handler[r]) /\ cart[Handler[r]].alive
  /\ atCaller[r] # {} => Here(Caller[r]) /\ cart[Caller[r]].alive

\* The entries of the two tables.
EntryOK(r) ==
  /\ incoming[r] # None => incoming[r] = Handler[r] /\ cart[Handler[r]].running
  /\ outgoing[r] # None => outgoing[r] = Caller[r] /\ cart[Caller[r]].running
  /\ incoming[r] # None /\ cart[Handler[r]].alive => "req" \in atHandler[r]
  /\ outgoing[r] # None /\ cart[Caller[r]].alive => "call" \in atCaller[r]
Entries == /\ \A r \in Requests : EntryOK(r)
           /\ \A r \in bodyDone \cup respDone : incoming[r] # None
           /\ bodyDone \cap respDone = {}

\* The switch knows what the host knows, and that is never without end.
Opened == {r \in Requests : call[r] # "new"}
Known == /\ \A r \in Requests : incoming[r] # None \/ outgoing[r] # None => call[r] # "new"
         /\ \A r \in Requests : peers[r] \subseteq Opened
         /\ IsFiniteSet(Opened)

\* Frames for the host are of known requests, and addressed to somebody here.
FrameOK(m) == /\ call[m.r] # "new"
              /\ m.to = "handler" => Here(Handler[m.r])
              /\ m.to = "caller" => Here(Caller[m.r])
              /\ m.type \in {"req", "cancel"} => m.to = "handler"
Addressed == \A i \in DOMAIN toHost : FrameOK(toHost[i])

\* Events of the running process, and of earlier ones.
Writer(flow) == IF flow[2] = "call" THEN Caller[flow[1]] ELSE Handler[flow[1]]
Fresh(i) == Current(events[i])
EventOK(e) ==
  /\ e.gen <= cart[e.c].gen
  /\ Current(e) => cart[e.c].running
  /\ e.type # "death" => e.c = Writer(e.flow)
  /\ e.type = "req" => /\ e.flow[2] = "call"
                       /\ Current(e) /\ cart[e.c].alive => "call" \in atCaller[e.flow[1]]
Queued == \A i \in DOMAIN events : EventOK(events[i])

Kept == Types /\ Upright /\ Minds /\ Entries /\ Known /\ Addressed /\ Queued

(***************************************************************************)
(* What numbers the frames of a flow                                       *)
(***************************************************************************)
OneEndHere == \A r \in Requests : ~Here(Handler[r]) \/ ~Here(Caller[r])
NeverForTheLiving == OneEndHere \/ ~BrokenPipes

\* A request that is served and not answered yet.
Busy(r) == "req" \in atHandler[r] /\ "answered" \notin atHandler[r]
\* A flow its process may still write to.
Open(flow) == IF flow[2] = "answer" THEN Busy(flow[1])
              ELSE "call" \in atCaller[flow[1]] /\ wrote[flow] = 1

\* A REQ is on its way to its handler once.
Once == /\ \A i \in DOMAIN toHost : toHost[i].type = "req" =>
             /\ wrote[<<toHost[i].r, "answer">>] = 0 /\ "req" \notin atHandler[toHost[i].r]
             /\ \A j \in DOMAIN toHost : toHost[j].type = "req" /\ toHost[j].r = toHost[i].r => i = j
        /\ \A r \in Requests : call[r] = "new" =>
             /\ wrote[<<r, "answer">>] = 0 /\ "req" \notin atHandler[r]
        /\ \A r \in Requests : Here(Caller[r]) /\ wrote[<<r, "call">>] = 0 => call[r] = "new"

\* What waits in the queue, by flow, in the order it was written.
EventNumber(e) ==
  /\ e.seq < wrote[e.flow]
  /\ Current(e) => maxSeq[e.flow] < e.seq
  /\ e.type = "req" => e.seq = 0 /\ call[e.flow[1]] = "new"
  /\ e.type = "end" => e.seq + 1 = wrote[e.flow] /\ ~Open(e.flow)
Numbers ==
  /\ \A i \in DOMAIN events : events[i].type # "death" => EventNumber(events[i])
  /\ \A i, j \in DOMAIN events : /\ i < j /\ events[i].type # "death" /\ events[j].type # "death"
                                 /\ events[i].flow = events[j].flow
                                 => events[i].seq < events[j].seq

\* A frame of this number waits, before position k.
Waits(flow, s, k) == \E j \in DOMAIN events : /\ j < k /\ Fresh(j) /\ events[j].type # "death"
                                              /\ events[j].flow = flow /\ events[j].seq = s
Unbroken ==
  /\ \A k \in DOMAIN events : Fresh(k) /\ events[k].type # "death" =>
       \A s \in Nat : maxSeq[events[k].flow] < s /\ s < events[k].seq => Waits(events[k].flow, s, k)
  /\ \A f \in Flows : Open(f) =>
       \A s \in Nat : maxSeq[f] < s /\ s < wrote[f] => Waits(f, s, Len(events) + 1)

\* The slave's number and the host's.
Agreed == /\ \A f \in Flows : expect[f] = maxSeq[f] + 1 /\ maxSeq[f] < wrote[f]
          /\ ~gap

\* Whoever serves a request has an entry.
Served == /\ \A r \in Requests : Busy(r) => incoming[r] = Handler[r]
          /\ \A r \in respDone : wrote[<<r, "answer">>] > 0 /\ ~Busy(r)

Numbered == Once /\ Numbers /\ Unbroken /\ Agreed /\ Served
------------------------------------------------------------------------------
(***************************************************************************)
(* Sequences of frames                                                     *)
(***************************************************************************)
LEMMA Ordered ==
  ASSUME NEW S, IsFiniteSet(S)
  PROVE  SetToSeq(S) \in Seq(S)
<1>1. Cardinality(S) \in Nat /\ ExistsBijection(1..Cardinality(S), S)
  BY FS_CardinalityType
<1>2. \E f \in [1..Cardinality(S) -> S] : IsInjective(f)
  BY <1>1 DEF ExistsBijection, Bijection, Injection
<1>3. SetToSeq(S) \in [1..Cardinality(S) -> S]
  BY <1>2 DEF SetToSeq
<1> QED
  BY <1>1, <1>3

\* The frames of a notice go to those of rs that are live and have this end here.
LEMMA Noticed ==
  ASSUME Types, IsFiniteSet(Opened), NEW type \in Kinds, NEW rs, rs \subseteq Requests,
         NEW to \in {"handler", "caller"}
  PROVE  /\ Notices(type, rs, to) \in Seq(Frames)
         /\ \A i \in DOMAIN Notices(type, rs, to) :
              LET m == Notices(type, rs, to)[i] IN
              /\ m.type = type /\ m.to = to /\ m.r \in rs /\ Live(m.r)
              /\ to = "handler" => Here(Handler[m.r])
              /\ to = "caller" => Here(Caller[m.r])
<1> DEFINE end == IF to = "handler" THEN Handler ELSE Caller
           ends == {r \in rs : Live(r) /\ Here(end[r])}
           order == SetToSeq(ends)
<1>1. ends \subseteq Opened
  BY DEF Opened, Live
<1>2. order \in Seq(ends)
  BY <1>1, FS_Subset, Ordered
<1>3. Notices(type, rs, to) = [i \in DOMAIN order |-> Frame(type, order[i], to)]
  BY DEF Notices
<1> HIDE DEF order
<1>4. \A i \in DOMAIN order : order[i] \in ends
  BY <1>2
<1>5. \A r \in ends : Frame(type, r, to) \in Frames
  BY DEF Frame, Frames
<1>6. Notices(type, rs, to) \in Seq(Frames)
  BY <1>2, <1>3, <1>4, <1>5
<1>7. ASSUME NEW i \in DOMAIN Notices(type, rs, to)
      PROVE  /\ Notices(type, rs, to)[i] = Frame(type, order[i], to)
             /\ order[i] \in ends
  BY <1>3, <1>4
<1> QED
  BY <1>6, <1>7 DEF Frame

\* One frame more, or none.
Arrived(m, queue, type, r, kind) ==
  /\ toHost' = Append(queue, m)
  /\ m.type = type /\ m.r = r
  /\ Live(r) \/ (type = "req" /\ kind = "call")
  /\ m.to = "handler" => Here(Handler[r]) /\ kind = "call"
  /\ m.to = "caller" => Here(Caller[r]) /\ kind = "answer"
SentOK(queue, type, r, kind, seq) ==
  /\ call' \in [Requests -> {"new", "open", "over"}] /\ toHost' \in Seq(Frames)
  /\ expect' \in [Flows -> Nat] /\ gap' \in BOOLEAN
  /\ \A p \in Requests : p # r => call'[p] = call[p]
  /\ call[r] # "new" => call'[r] # "new"
  /\ type = "req" /\ kind = "call" => call'[r] = "open"
  /\ type # "req" => (call[r] = "new" <=> call'[r] = "new")
  /\ expect' = [expect EXCEPT ![<<r, kind>>] = IF Terminal(type) THEN 0 ELSE @ + 1]
  /\ gap' <=> gap \/ seq # expect[<<r, kind>>]
  /\ toHost' = queue \/ \E m \in Frames : Arrived(m, queue, type, r, kind)

LEMMA Sent ==
  ASSUME Types, NEW queue \in Seq(Frames), NEW type \in Kinds, NEW r \in Requests,
         NEW kind \in {"call", "answer"}, NEW seq \in Nat,
         Send(queue, Out(type, r, kind, seq))
  PROVE  SentOK(queue, type, r, kind, seq)
<1> DEFINE f == Out(type, r, kind, seq)
<1>1. f.type = type /\ f.flow = <<r, kind>> /\ f.flow[1] = r /\ f.flow[2] = kind /\ f.seq = seq
  BY DEF Out
<1>2. <<r, kind>> \in Flows
  BY DEF Flows
<1> HIDE DEF f
<1>3. Expected(f) /\ Routed(queue, f)
  BY DEF Send, f
<1>4. /\ expect' = [expect EXCEPT ![<<r, kind>>] = IF Terminal(type) THEN 0 ELSE @ + 1]
      /\ gap' <=> gap \/ seq # expect[<<r, kind>>]
      /\ gap' \in BOOLEAN
  BY <1>1, <1>3 DEF Expected
<1>5. expect' \in [Flows -> Nat]
  BY <1>2, <1>4 DEF Types, NetType
<1>6. \A to \in {"handler", "caller"} : /\ Frame(type, r, to) \in Frames
                                        /\ Frame(type, r, to).type = type
                                        /\ Frame(type, r, to).r = r
                                        /\ Frame(type, r, to).to = to
  BY DEF Frame, Frames
<1>7. CASE kind = "answer"
  <2>1. /\ call' = [call EXCEPT ![r] = IF Live(r) /\ Terminal(type) THEN "over" ELSE @]
        /\ toHost' = IF Live(r) /\ Here(Caller[r]) THEN Append(queue, Frame(type, r, "caller"))
                     ELSE queue
    BY <1>1, <1>3, <1>7 DEF Routed, Forward
  <2>2. /\ call' \in [Requests -> {"new", "open", "over"}]
        /\ \A p \in Requests : p # r => call'[p] = call[p]
        /\ call[r] = "new" <=> call'[r] = "new"
    BY <2>1 DEF Types, NetType, Live
  <2>3. toHost' \in Seq(Frames)
    BY <2>1, <1>6, AppendProperties
  <2>4. toHost' # queue => /\ Live(r) /\ Here(Caller[r])
                           /\ toHost' = Append(queue, Frame(type, r, "caller"))
    BY <2>1
  <2>5. Frame(type, r, "caller").to # "handler"
    BY <1>6
  <2> QED
    BY <1>4, <1>5, <1>6, <1>7, <2>2, <2>3, <2>4, <2>5 DEF SentOK, Arrived
<1>8. CASE kind = "call"
  <2>1. /\ call' = [call EXCEPT ![r] = IF type = "req" THEN "open" ELSE @]
        /\ toHost' = IF (type = "req" \/ Live(r)) /\ Here(Handler[r])
                       THEN Append(queue, Frame(type, r, "handler")) ELSE queue
    BY <1>1, <1>3, <1>8 DEF Routed, Forward
  <2>2. /\ call' \in [Requests -> {"new", "open", "over"}]
        /\ \A p \in Requests : p # r => call'[p] = call[p]
        /\ call[r] # "new" => call'[r] # "new"
        /\ type = "req" => call'[r] = "open"
        /\ type # "req" => (call[r] = "new" <=> call'[r] = "new")
    BY <2>1 DEF Types, NetType
  <2>3. toHost' \in Seq(Frames)
    BY <2>1, <1>6, AppendProperties
  <2> QED
    BY <1>4, <1>5, <1>6, <1>8, <2>1, <2>2, <2>3 DEF SentOK, Arrived
<1> QED
  BY <1>7, <1>8

\* A request the switch knows stays known.
Remembered == \A r \in Requests : call[r] # "new" => call'[r] # "new"
NetStep == Remembered /\ NetType' /\ Addressed' /\ IsFiniteSet(Opened')

LEMMA Opening ==
  ASSUME IsFiniteSet(Opened), NEW r \in Requests,
         \A p \in Requests : p # r /\ call[p] = "new" => call'[p] = "new"
  PROVE  IsFiniteSet(Opened')
<1>1. Opened' \subseteq Opened \cup {r}
  BY DEF Opened
<1>2. IsFiniteSet(Opened \cup {r})
  BY FS_AddElement
<1> QED
  BY <1>1, <1>2, FS_Subset

LEMMA Queues ==
  ASSUME Types, NEW q \in Seq(Frames), NEW s \in Seq(Frames), Remembered,
         \A i \in DOMAIN q : FrameOK(q[i]), \A i \in DOMAIN s : FrameOK(s[i])',
         toHost' = q \o s
  PROVE  toHost' \in Seq(Frames) /\ Addressed'
<1>1. \A m \in Frames : m.r \in Requests
  BY DEF Frames
<1>2. \A i \in DOMAIN q : q[i] \in Frames
  OBVIOUS
<1>3. \A i \in DOMAIN q : FrameOK(q[i])'
  BY <1>1, <1>2 DEF FrameOK, Remembered
<1> DEFINE h == q \o s
<1>4. /\ h \in Seq(Frames)
      /\ \A i \in DOMAIN h : /\ h[i] = IF i <= Len(q) THEN q[i] ELSE s[i - Len(q)]
                           /\ IF i <= Len(q) THEN i \in DOMAIN q ELSE i - Len(q) \in DOMAIN s
  BY ConcatProperties
<1> HIDE DEF h
<1>5. \A i \in DOMAIN h : FrameOK(h[i])'
  BY <1>3, <1>4
<1>6. toHost' = h
  BY DEF h
<1> QED
  BY <1>4, <1>5, <1>6 DEF Addressed, FrameOK

\* What is left once the host has taken a frame.
LEMMA TailOK ==
  ASSUME Types, Addressed, toHost # <<>>
  PROVE  /\ Tail(toHost) \in Seq(Frames) /\ \A i \in DOMAIN Tail(toHost) : FrameOK(Tail(toHost)[i])
         /\ Head(toHost) \in Frames /\ FrameOK(Head(toHost))
         /\ \A i \in DOMAIN Tail(toHost) : Tail(toHost)[i] = toHost[i + 1] /\ i + 1 \in DOMAIN toHost
<1>1. toHost \in Seq(Frames)
  BY DEF Types, NetType
<1>2. /\ Tail(toHost) \in Seq(Frames) /\ Head(toHost) = toHost[1] /\ 1 \in DOMAIN toHost
      /\ \A i \in DOMAIN Tail(toHost) : Tail(toHost)[i] = toHost[i + 1] /\ i + 1 \in DOMAIN toHost
  BY <1>1, HeadTailProperties
<1> QED
  BY <1>1, <1>2 DEF Addressed

LEMMA SendStep ==
  ASSUME Types, Addressed, IsFiniteSet(Opened), UNCHANGED sent,
         NEW queue \in Seq(Frames), \A i \in DOMAIN queue : FrameOK(queue[i]),
         NEW type \in Kinds, NEW r \in Requests,
         NEW kind \in {"call", "answer"}, NEW seq \in Nat, kind = "answer" => type # "req",
         type # "cancel",
         Send(queue, Out(type, r, kind, seq))
  PROVE  NetStep
<1>0. SentOK(queue, type, r, kind, seq)
  BY Sent
<1>1. NetType'
  BY <1>0 DEF SentOK, Types, NetType
<1>2. Remembered
  BY <1>0 DEF SentOK, Remembered
<1>3. IsFiniteSet(Opened')
  <2>1. \A p \in Requests : p # r /\ call[p] = "new" => call'[p] = "new"
    BY <1>0 DEF SentOK
  <2> QED
    BY <2>1, Opening
<1>4. CASE toHost' = queue
  <2>1. toHost' = queue \o <<>>
    BY <1>4, ConcatEmptySeq
  <2>2. <<>> \in Seq(Frames) /\ DOMAIN <<>> = {}
    OBVIOUS
  <2>3. Addressed'
    BY <1>2, <2>1, <2>2, Queues
  <2> QED
    BY <1>1, <1>2, <1>3, <2>3 DEF NetStep
<1>5. CASE toHost' # queue
  <2>1. PICK m \in Frames : Arrived(m, queue, type, r, kind)
    BY <1>0, <1>5 DEF SentOK
  <2>2. call'[r] # "new"
    BY <1>0, <2>1 DEF SentOK, Arrived, Live
  <2>3. m.to \in {"handler", "caller"}
    BY DEF Frames
  <2>4. FrameOK(m)'
    BY <2>1, <2>2, <2>3 DEF FrameOK, Arrived
  <2>5. /\ toHost' = queue \o <<m>> /\ <<m>> \in Seq(Frames)
        /\ \A i \in DOMAIN <<m>> : <<m>>[i] = m
    BY <2>1, AppendIsConcat DEF Arrived
  <2>6. \A i \in DOMAIN <<m>> : FrameOK(<<m>>[i])'
    BY <2>4, <2>5
  <2>7. Addressed'
    BY <1>2, <2>5, <2>6, Queues
  <2> QED
    BY <1>1, <1>2, <1>3, <2>7 DEF NetStep
<1> QED
  BY <1>4, <1>5

\* One frame from whoever is elsewhere.
LEMMA OneMore ==
  ASSUME Types, Addressed, Remembered, NEW m \in Frames, FrameOK(m)',
         toHost' = Append(toHost, m)
  PROVE  toHost' \in Seq(Frames) /\ Addressed'
<1>1. toHost \in Seq(Frames) /\ \A i \in DOMAIN toHost : FrameOK(toHost[i])
  BY DEF Types, NetType, Addressed
<1>2. PICK q \in Seq(Frames) : q = toHost
  BY <1>1
<1>3. /\ toHost' = q \o <<m>> /\ <<m>> \in Seq(Frames) /\ \A i \in DOMAIN <<m>> : <<m>>[i] = m
      /\ \A i \in DOMAIN q : FrameOK(q[i])
  BY <1>1, <1>2, AppendIsConcat
<1>4. \A i \in DOMAIN <<m>> : FrameOK(<<m>>[i])'
  BY <1>3
<1> QED
  BY <1>3, <1>4, Queues

LEMMA OutsideNet ==
  ASSUME Types, Addressed, Known, HostAssumption, NEW r \in Requests,
         Others(r) \/ \E force \in BOOLEAN : Cancel(r, force)
  PROVE  NetStep
<1> USE HostAssumption DEF HostAssumption
<1>1. CASE Request(r)
  <2>1. call' = [call EXCEPT ![r] = "open"] /\ toHost' = Append(toHost, Frame("req", r, "handler"))
    BY <1>1 DEF Request
  <2>2. Remembered /\ call'[r] = "open" /\ \A p \in Requests : p # r => call'[p] = call[p]
    BY <2>1 DEF Remembered, Types, NetType
  <2>3. PICK m \in Frames : m = Frame("req", r, "handler")
    BY DEF Frames, Frame, Kinds
  <2>4. FrameOK(m)'
    BY <1>1, <2>2, <2>3 DEF FrameOK, Frame, Request
  <2>5. IsFiniteSet(Opened')
    BY <2>2, Opening DEF Known
  <2> QED
    BY <1>1, <2>1, <2>2, <2>3, <2>4, <2>5, OneMore DEF NetStep, NetType, Request, Types
<1>2. CASE Body(r)
  <2>1. UNCHANGED call /\ toHost' = Append(toHost, Frame("end", r, "handler")) /\ Live(r)
    BY <1>2 DEF Body
  <2>2. Remembered
    BY <2>1 DEF Remembered
  <2>3. PICK m \in Frames : m = Frame("end", r, "handler")
    BY DEF Frames, Frame, Kinds
  <2>4. FrameOK(m)'
    BY <1>2, <2>1, <2>3 DEF FrameOK, Frame, Body, Live
  <2>5. IsFiniteSet(Opened')
    BY <2>1 DEF Known, Opened
  <2> QED
    BY <1>2, <2>1, <2>2, <2>3, <2>4, <2>5, OneMore DEF NetStep, NetType, Body, Types
<1>3. CASE Grant(r)
  <2> DEFINE to == IF Here(Handler[r]) THEN "handler" ELSE "caller"
  <2>1. UNCHANGED call /\ toHost' = Append(toHost, Frame("grant", r, to)) /\ Live(r)
    BY <1>3 DEF Grant
  <2>2. Remembered
    BY <2>1 DEF Remembered
  <2>3. PICK m \in Frames : m = Frame("grant", r, to)
    <3>1. \A x \in {"handler", "caller"} : Frame("grant", r, x) \in Frames
      BY DEF Frames, Frame, Kinds
    <3> QED
      BY <3>1
  <2>4. FrameOK(m)'
    BY <1>3, <2>1, <2>3 DEF FrameOK, Frame, Grant, Live
  <2>5. IsFiniteSet(Opened')
    BY <2>1 DEF Known, Opened
  <2> QED
    BY <1>3, <2>1, <2>2, <2>3, <2>4, <2>5, OneMore DEF NetStep, NetType, Grant, Types
<1>4. CASE Answered(r)
  <2>1. /\ call' = [call EXCEPT ![r] = "over"] /\ toHost' = Append(toHost, Frame("end", r, "caller"))
        /\ Live(r)
    BY <1>4 DEF Answered
  <2>2. Remembered /\ call'[r] = "over" /\ \A p \in Requests : p # r => call'[p] = call[p]
    BY <2>1 DEF Remembered, Types, NetType
  <2>3. PICK m \in Frames : m = Frame("end", r, "caller")
    BY DEF Frames, Frame, Kinds
  <2>4. FrameOK(m)'
    BY <1>4, <2>2, <2>3 DEF FrameOK, Frame, Answered
  <2>5. IsFiniteSet(Opened')
    BY <2>2, Opening DEF Known
  <2> QED
    BY <1>4, <2>1, <2>2, <2>3, <2>4, <2>5, OneMore DEF NetStep, NetType, Answered, Types
<1>5. ASSUME NEW force \in BOOLEAN, Cancel(r, force)
      PROVE  NetStep
  <2> DEFINE all == {r} \cup {p \in Requests : Parent[p] = r /\ Live(p)}
             ends == {p \in all : Here(Handler[p])}
             order == SetToSeq(ends)
             frames == [i \in DOMAIN order |-> CancelFrame(order[i], force)]
  <2>1. /\ call' = [p \in Requests |-> IF p \in all THEN "over" ELSE call[p]]
        /\ toHost' = toHost \o frames
        /\ Live(r) /\ UNCHANGED <<sent, expect, gap>>
    BY <1>5 DEF Cancel
  <2>2. \A p \in all : p \in Requests /\ Live(p)
    BY <2>1
  <2>3. Remembered /\ Opened' = Opened /\ call' \in [Requests -> {"new", "open", "over"}]
    BY <2>1, <2>2 DEF Remembered, Types, NetType, Opened, Live
  <2>4. ends \subseteq Opened
    BY <2>2 DEF Opened, Live
  <2>5. order \in Seq(ends)
    BY <2>4, FS_Subset, Ordered DEF Known
  <2> HIDE DEF order
  <2>6. \A p \in ends : CancelFrame(p, force) \in Frames
    BY <2>2 DEF CancelFrame, Frames, Kinds
  <2>7. frames \in Seq(Frames) /\ \A i \in DOMAIN frames : frames[i] = CancelFrame(order[i], force) /\ order[i] \in ends
    BY <2>5, <2>6
  <2>8. \A i \in DOMAIN frames : frames[i].r \in ends /\ frames[i].to = "handler"
    BY <2>7 DEF CancelFrame
  <2> HIDE DEF frames
  <2>9. PICK s \in Seq(Frames) : s = frames
    BY <2>7
  <2>10. \A i \in DOMAIN s : s[i].r \in Opened /\ s[i].r \in Requests /\ s[i].to = "handler" /\ Here(Handler[s[i].r])
    BY <2>2, <2>4, <2>8, <2>9
  <2>11. \A i \in DOMAIN s : FrameOK(s[i])'
    BY <2>3, <2>10 DEF FrameOK, Remembered, Opened
  <2>12. PICK q \in Seq(Frames) : q = toHost
    BY DEF Types, NetType
  <2>13. \A i \in DOMAIN q : FrameOK(q[i])
    BY <2>12 DEF Addressed
  <2>14. toHost' \in Seq(Frames) /\ Addressed'
    BY <2>1, <2>3, <2>9, <2>11, <2>12, <2>13, Queues
  <2> QED
    BY <2>1, <2>3, <2>14 DEF NetStep, NetType, Types, Known
<1> QED
  BY <1>1, <1>2, <1>3, <1>4, <1>5 DEF Others

\* A frame taken and nothing sent.
LEMMA Taken ==
  ASSUME Types, Addressed, Known, toHost # <<>>, toHost' = Tail(toHost),
         UNCHANGED <<call, sent, expect, gap>>
  PROVE  NetStep
<1>1. PICK q \in Seq(Frames) : q = Tail(toHost) /\ \A i \in DOMAIN q : FrameOK(q[i])
  BY TailOK
<1>2. toHost' = q \o <<>> /\ <<>> \in Seq(Frames) /\ DOMAIN <<>> = {}
  BY <1>1, ConcatEmptySeq
<1>3. Remembered
  BY DEF Remembered
<1>4. \A i \in DOMAIN <<>> : FrameOK(<<>>[i])'
  BY <1>2
<1>5. toHost' \in Seq(Frames) /\ Addressed'
  BY <1>1, <1>2, <1>3, <1>4, Queues
<1>6. IsFiniteSet(Opened')
  BY DEF Known, Opened
<1> QED
  BY <1>3, <1>5, <1>6 DEF NetStep, NetType, Types

LEMMA NetAside ==
  ASSUME Types, Addressed, Known, UNCHANGED <<call, sent, toHost, expect, gap>>
  PROVE  NetStep
  BY DEF NetStep, NetType, Types, Addressed, FrameOK, Remembered, Known, Opened

LEMMA RelayNet ==
  ASSUME Types, Addressed, Known, HandleRelay
  PROVE  NetStep
<1>1. toHost # <<>>
  BY DEF HandleRelay, RelayReq, RelayReqFails, RelayUnrouted, RelayToDead, RelayContinuation,
         RelayCancel, FromRelay
<1>2. /\ Tail(toHost) \in Seq(Frames) /\ \A i \in DOMAIN Tail(toHost) : FrameOK(Tail(toHost)[i])
      /\ Head(toHost) \in Frames /\ FrameOK(Head(toHost)) /\ Head(toHost).r \in Requests
  BY <1>1, TailOK DEF Frames
<1>3. CASE /\ UNCHANGED sent
           /\ \E r \in Requests, seq \in Nat : Send(Tail(toHost), Out("err", r, "answer", seq))
  BY <1>2, <1>3, SendStep DEF Kinds, Known
<1>4. CASE toHost' = Tail(toHost) /\ UNCHANGED <<call, sent, expect, gap>>
  BY <1>1, <1>4, Taken
<1>5. CASE RelayReq
  BY <1>2, <1>3, <1>4, <1>5 DEF RelayReq, Silent
<1>6. CASE RelayReqFails
  BY <1>4, <1>6 DEF RelayReqFails, Stop
<1>7. CASE RelayUnrouted
  BY <1>4, <1>7 DEF RelayUnrouted, Silent
<1>8. CASE RelayToDead
  <2> DEFINE flow == <<Head(toHost).r, "answer">>
  <2>1. NextSeq(flow) \in Nat
    BY <1>2 DEF NextSeq, Types, TablesType, Flows
  <2>2. UNCHANGED sent /\ Send(Tail(toHost), Out("err", Head(toHost).r, "answer", NextSeq(flow)))
    BY <1>8 DEF RelayToDead
  <2> QED
    BY <1>2, <1>3, <2>1, <2>2
<1>9. CASE RelayContinuation
  BY <1>4, <1>9 DEF RelayContinuation, Silent
<1>10. CASE RelayCancel
  <2> DEFINE m == Head(toHost)
  <2>1. UNCHANGED sent
    BY <1>10 DEF RelayCancel
  <2>2. CASE Silent
    BY <1>4, <2>1, <2>2 DEF Silent
  <2>3. CASE /\ toHost' = Tail(toHost) \o Notices("cancel", peers[m.r], "handler")
             /\ UNCHANGED <<call, expect, gap>>
    <3>1. peers[m.r] \subseteq Requests /\ "cancel" \in Kinds
      BY <1>2 DEF Types, TablesType, Kinds
    <3>2. PICK s \in Seq(Frames) :
            /\ s = Notices("cancel", peers[m.r], "handler")
            /\ \A i \in DOMAIN s : /\ s[i].type = "cancel" /\ s[i].to = "handler" /\ s[i].r \in peers[m.r]
                                   /\ Live(s[i].r) /\ Here(Handler[s[i].r])
      BY <3>1, Noticed DEF Known
    <3>3. \A i \in DOMAIN s : s[i].to = "handler" /\ call[s[i].r] # "new" /\ Here(Handler[s[i].r])
      BY <3>2 DEF Live
    <3>4. Remembered
      BY <2>3 DEF Remembered
    <3>5. \A i \in DOMAIN s : FrameOK(s[i])'
      BY <2>3, <3>3 DEF FrameOK
    <3>6. PICK q \in Seq(Frames) : q = Tail(toHost) /\ \A i \in DOMAIN q : FrameOK(q[i])
      BY <1>2
    <3>7. toHost' \in Seq(Frames) /\ Addressed'
      BY <2>3, <3>2, <3>4, <3>5, <3>6, Queues
    <3> QED
      BY <2>1, <2>3, <3>4, <3>7 DEF NetStep, NetType, Types, Known, Opened
  <2> QED
    BY <1>10, <2>2, <2>3 DEF RelayCancel
<1> QED
  BY <1>5, <1>6, <1>7, <1>8, <1>9, <1>10 DEF HandleRelay

LEMMA BuryNet ==
  ASSUME Types, Addressed, Known, NEW c \in Cartridges, Bury(c)
  PROVE  NetStep
<1> DEFINE calls == Calls(c)
           jobs == Jobs(c)
           flows == (calls \X {"call"}) \cup (jobs \X {"answer"})
<1>1. calls \subseteq Requests /\ jobs \subseteq Requests
  BY DEF Calls, Jobs
<1> HIDE DEF calls, jobs
<1>2. /\ call' = [r \in Requests |-> IF r \in jobs /\ Live(r) THEN "over" ELSE call[r]]
      /\ toHost' = toHost \o Notices("err", calls, "handler") \o Notices("err", jobs, "caller")
      /\ expect' = [f \in Flows |-> IF f \in flows THEN 0 ELSE expect[f]]
      /\ gap' = (gap \/ \E f \in flows : NextSeq(f) # expect[f])
      /\ UNCHANGED sent
  BY DEF Bury, calls, jobs
<1>3. Remembered /\ Opened' = Opened /\ call' \in [Requests -> {"new", "open", "over"}]
  BY <1>2 DEF Remembered, Opened, Live, Types, NetType
<1>4. expect' \in [Flows -> Nat] /\ gap' \in BOOLEAN
  BY <1>2 DEF Types, NetType
<1>5. PICK s1 \in Seq(Frames) :
        /\ s1 = Notices("err", calls, "handler")
        /\ \A i \in DOMAIN s1 : /\ s1[i].type = "err" /\ s1[i].to = "handler" /\ Live(s1[i].r)
                                /\ Here(Handler[s1[i].r]) /\ s1[i].r \in calls
  BY <1>1, Noticed DEF Known, Kinds
<1>6. PICK s2 \in Seq(Frames) :
        /\ s2 = Notices("err", jobs, "caller")
        /\ \A i \in DOMAIN s2 : /\ s2[i].type = "err" /\ s2[i].to = "caller" /\ Live(s2[i].r)
                                /\ Here(Caller[s2[i].r]) /\ s2[i].r \in jobs
  BY <1>1, Noticed DEF Known, Kinds
<1>7. PICK q \in Seq(Frames) : q = toHost /\ \A i \in DOMAIN q : FrameOK(q[i])
  BY DEF Types, NetType, Addressed
<1>8. toHost' = q \o (s1 \o s2) /\ s1 \o s2 \in Seq(Frames)
  BY <1>2, <1>5, <1>6, <1>7, ConcatAssociative, ConcatProperties
<1>9. \A i \in DOMAIN s1 : FrameOK(s1[i])'
  BY <1>1, <1>3, <1>5 DEF FrameOK, Remembered, Live
<1>10. \A i \in DOMAIN s2 : FrameOK(s2[i])'
  BY <1>1, <1>3, <1>6 DEF FrameOK, Remembered, Live
<1>11. \A i \in DOMAIN (s1 \o s2) :
         /\ (s1 \o s2)[i] = IF i <= Len(s1) THEN s1[i] ELSE s2[i - Len(s1)]
         /\ IF i <= Len(s1) THEN i \in DOMAIN s1 ELSE i - Len(s1) \in DOMAIN s2
  BY ConcatProperties
<1>12. \A i \in DOMAIN (s1 \o s2) : FrameOK((s1 \o s2)[i])'
  BY <1>9, <1>10, <1>11
<1>13. toHost' \in Seq(Frames) /\ Addressed'
  BY <1>3, <1>7, <1>8, <1>12, Queues
<1> QED
  BY <1>2, <1>3, <1>4, <1>13 DEF NetStep, NetType, Types, Known

\* The event the loop handles.
LEMMA HeadEvent ==
  ASSUME Types, events # <<>>
  PROVE  /\ Tail(events) \in Seq(Events) /\ Head(events) \in Events
         /\ Head(events) = events[1] /\ 1 \in DOMAIN events
         /\ \A i \in DOMAIN Tail(events) : Tail(events)[i] = events[i + 1] /\ i + 1 \in DOMAIN events
         /\ Head(events).c \in Cartridges
         /\ Head(events).type \in {"req", "data", "end"} =>
              /\ Head(events).flow \in Flows /\ Head(events).seq \in Nat
              /\ Head(events).flow[1] \in Requests
              /\ Head(events).flow = <<Head(events).flow[1], Head(events).flow[2]>>
              /\ Head(events).flow[2] \in {"call", "answer"}
<1>1. events \in Seq(Events)
  BY DEF Types, EventsType
<1>2. /\ Tail(events) \in Seq(Events) /\ Head(events) = events[1] /\ 1 \in DOMAIN events
      /\ \A i \in DOMAIN Tail(events) : Tail(events)[i] = events[i + 1] /\ i + 1 \in DOMAIN events
  BY <1>1, HeadTailProperties
<1>3. Head(events) \in Events
  BY <1>1, <1>2
<1>4. Head(events).c \in Cartridges
  BY <1>3 DEF Events
<1>5. Head(events).type \in {"req", "data", "end"} =>
        Head(events).flow \in Flows /\ Head(events).seq \in Nat
  BY <1>3 DEF Events
<1>6. \A f \in Flows : f[1] \in Requests /\ f = <<f[1], f[2]>> /\ f[2] \in {"call", "answer"}
  BY DEF Flows
<1> QED
  BY <1>2, <1>3, <1>4, <1>5, <1>6

LEMMA EventNet ==
  ASSUME Types, Addressed, Known, Queued, HandleEvent
  PROVE  NetStep
<1>1. events # <<>>
  BY DEF HandleEvent, StaleEvent, CartridgeReq, CartridgeFrame, Death, FromCartridge
<1> DEFINE e == Head(events)
<1>2. toHost \in Seq(Frames) /\ \A i \in DOMAIN toHost : FrameOK(toHost[i])
  BY DEF Types, NetType, Addressed
<1>3. CASE StaleEvent
  BY <1>3, NetAside DEF StaleEvent, net
<1>4. CASE CartridgeReq
  <2>1. e.type = "req" /\ EventOK(e)
    BY <1>1, <1>4, HeadEvent DEF CartridgeReq, FromCartridge, Queued
  <2>2. e.flow[1] \in Requests /\ e.seq \in Nat
    BY <1>1, <2>1, HeadEvent
  <2>3. UNCHANGED sent /\ Send(toHost, Out("req", e.flow[1], "call", e.seq))
    BY <1>4 DEF CartridgeReq
  <2> QED
    BY <1>2, <2>2, <2>3, SendStep DEF Kinds, Known
<1>5. CASE CartridgeFrame
  <2>1. e.type \in {"data", "end"}
    BY <1>5 DEF CartridgeFrame, FromCartridge
  <2>2. e.flow[1] \in Requests /\ e.seq \in Nat /\ e.flow[2] \in {"call", "answer"}
    BY <1>1, <2>1, HeadEvent
  <2>3. UNCHANGED sent /\ Send(toHost, Out(e.type, e.flow[1], e.flow[2], e.seq))
    BY <1>5 DEF CartridgeFrame
  <2>4. e.type \in Kinds /\ e.type # "cancel" /\ e.type # "req"
    BY <2>1 DEF Kinds
  <2> QED
    BY <1>2, <2>2, <2>3, <2>4, SendStep DEF Known
<1>6. CASE Death
  <2>1. Bury(e.c) /\ e.c \in Cartridges
    BY <1>1, <1>6, HeadEvent DEF Death
  <2> QED
    BY <2>1, BuryNet
<1> QED
  BY <1>3, <1>4, <1>5, <1>6 DEF HandleEvent

\* Whatever happens, the queue holds frames for somebody here, of known requests.
LEMMA NetNext ==
  ASSUME Types, Addressed, Known, Queued, [Next]_vars
  PROVE  NetStep
<1>1. CASE UNCHANGED vars
  BY <1>1, NetAside DEF vars, net
<1>2. CASE HandleEvent
  BY <1>2, EventNet
<1>3. CASE HandleRelay
  BY <1>3, RelayNet
<1>4. ASSUME NEW r \in Requests, Others(r) \/ \E force \in BOOLEAN : Cancel(r, force)
      PROVE  NetStep
  BY <1>4, OutsideNet, HostAssumption
<1>5. ASSUME NEW r \in Requests, CallPeer(r) \/ CallEnd(r) \/ Answer(r) \/ AnswerEnd(r)
      PROVE  NetStep
  BY <1>5, NetAside DEF CallPeer, CallEnd, Answer, AnswerEnd, net
<1>6. ASSUME NEW c \in Cartridges, Crash(c) \/ ReaderEnds(c) \/ Retire(c) \/ Restore(c) \/ Reap(c)
      PROVE  NetStep
  BY <1>6, NetAside DEF Crash, ReaderEnds, Retire, Restore, Reap, net
<1>7. ASSUME NEW c \in Cartridges, HeartbeatTimeout(c)
      PROVE  NetStep
  BY <1>7, BuryNet DEF HeartbeatTimeout
<1> QED
  BY <1>1, <1>2, <1>3, <1>4, <1>5, <1>6, <1>7 DEF Next
------------------------------------------------------------------------------
(***************************************************************************)
(* The processes, the tables and the queue                                 *)
(***************************************************************************)
LocalType == HostType /\ TablesType /\ ProcessType /\ EventsType
TablesKnown == /\ \A r \in Requests : incoming[r] # None \/ outgoing[r] # None => call[r] # "new"
               /\ \A r \in Requests : peers[r] \subseteq Opened
Local == LocalType /\ Upright /\ Minds /\ Entries /\ TablesKnown /\ Queued

\* No process comes or goes for the host, though one may die; what lives on
\* remembers.
Steady ==
  /\ \A c \in Cartridges : /\ cart'[c].running = cart[c].running /\ cart'[c].gen = cart[c].gen
                           /\ cart'[c].alive => cart[c].alive
  /\ \A r \in Requests : /\ Here(Handler[r]) /\ cart'[Handler[r]].alive /\ "req" \in atHandler[r]
                              => "req" \in atHandler'[r]
                         /\ Here(Caller[r]) /\ cart'[Caller[r]].alive /\ "call" \in atCaller[r]
                              => "call" \in atCaller'[r]

\* An entry that is new.
NewIncoming(r) == /\ incoming'[r] = Handler[r] /\ Here(Handler[r]) /\ cart[Handler[r]].running
                  /\ cart'[Handler[r]].alive => "req" \in atHandler'[r]
NewOutgoing(r) == /\ outgoing'[r] = Caller[r] /\ Here(Caller[r]) /\ cart[Caller[r]].running
                  /\ cart'[Caller[r]].alive => "call" \in atCaller'[r]

LEMMA SteadyEntries ==
  ASSUME Types, Entries, Steady,
         \A r \in Requests : incoming'[r] = incoming[r] \/ incoming'[r] = None \/ NewIncoming(r),
         \A r \in Requests : outgoing'[r] = outgoing[r] \/ outgoing'[r] = None \/ NewOutgoing(r),
         \A r \in bodyDone' \cup respDone' : incoming'[r] # None,
         bodyDone' \cap respDone' = {}
  PROVE  Entries'
<1>1. ASSUME NEW r \in Requests
      PROVE  EntryOK(r)'
  <2>1. incoming[r] # None => /\ incoming[r] = Handler[r] /\ Handler[r] \in Cartridges
                              /\ cart[Handler[r]].running
                              /\ cart[Handler[r]].alive => "req" \in atHandler[r]
    BY DEF Entries, EntryOK, Types, TablesType
  <2>2. outgoing[r] # None => /\ outgoing[r] = Caller[r] /\ Caller[r] \in Cartridges
                              /\ cart[Caller[r]].running
                              /\ cart[Caller[r]].alive => "call" \in atCaller[r]
    BY DEF Entries, EntryOK, Types, TablesType
  <2>3. incoming'[r] # None => /\ incoming'[r] = Handler[r] /\ cart'[Handler[r]].running
                               /\ cart'[Handler[r]].alive => "req" \in atHandler'[r]
    BY <2>1 DEF Steady, Here, NewIncoming
  <2>4. outgoing'[r] # None => /\ outgoing'[r] = Caller[r] /\ cart'[Caller[r]].running
                               /\ cart'[Caller[r]].alive => "call" \in atCaller'[r]
    BY <2>2 DEF Steady, Here, NewOutgoing
  <2> QED
    BY <2>3, <2>4 DEF EntryOK
<1> QED
  BY <1>1 DEF Entries

LEMMA SteadyEvent ==
  ASSUME Steady, NEW e \in Events, EventOK(e)
  PROVE  EventOK(e)'
<1>1. e.c \in Cartridges
  BY DEF Events
<1>2. Current(e)' <=> Current(e)
  BY <1>1 DEF Steady, Current
<1>3. e.type = "req" => e.flow[1] \in Requests /\ e.c = Caller[e.flow[1]]
  BY DEF Events, Flows, EventOK, Writer
<1> QED
  BY <1>1, <1>2, <1>3 DEF EventOK, Steady, Here, Writer

LEMMA SteadyQueued ==
  ASSUME Types, Queued, Steady, NEW s \in Seq(Events), events' = s,
         \A i \in DOMAIN s : (\E j \in DOMAIN events : s[i] = events[j]) \/ EventOK(s[i])'
  PROVE  Queued'
<1>1. \A j \in DOMAIN events : events[j] \in Events /\ EventOK(events[j])
  BY DEF Types, EventsType, Queued
<1>2. \A i \in DOMAIN s : s[i] \in Events
  OBVIOUS
<1>3. \A i \in DOMAIN s : EventOK(s[i])'
  BY <1>1, <1>2, SteadyEvent
<1> QED
  BY <1>3 DEF Queued, EventOK, Current, Writer

LEMMA TailQueued ==
  ASSUME Types, Queued, Steady, events # <<>>, events' = Tail(events)
  PROVE  Queued' /\ EventsType'
<1>1. PICK s \in Seq(Events) : s = Tail(events)
  BY HeadEvent
<1>2. \A i \in DOMAIN s : \E j \in DOMAIN events : s[i] = events[j]
  BY <1>1, HeadEvent
<1> QED
  BY <1>1, <1>2, SteadyQueued DEF EventsType

LEMMA SameQueued ==
  ASSUME Types, Queued, Steady, UNCHANGED events
  PROVE  Queued' /\ EventsType'
<1>1. PICK s \in Seq(Events) : s = events
  BY DEF Types, EventsType
<1> QED
  BY <1>1, SteadyQueued DEF EventsType

LEMMA AppendQueued ==
  ASSUME Types, Queued, Steady, NEW e \in Events, EventOK(e)', events' = Append(events, e)
  PROVE  Queued' /\ EventsType'
<1>1. events \in Seq(Events)
  BY DEF Types, EventsType
<1>2. PICK s \in Seq(Events) : s = Append(events, e)
  BY <1>1
<1>3. \A i \in DOMAIN s : (i \in DOMAIN events /\ s[i] = events[i]) \/ s[i] = e
  BY <1>1, <1>2
<1>4. \A i \in DOMAIN s : (\E j \in DOMAIN events : s[i] = events[j]) \/ EventOK(s[i])'
  BY <1>3
<1> QED
  BY <1>2, <1>4, SteadyQueued DEF EventsType

LEMMA SteadyKnown ==
  ASSUME TablesKnown, Remembered, TablesType, 
         \A r \in Requests : incoming'[r] = incoming[r] \/ incoming'[r] = None,
         \A r \in Requests : outgoing'[r] = outgoing[r] \/ outgoing'[r] = None,
         \A r \in Requests : peers'[r] \subseteq peers[r]
  PROVE  TablesKnown'
<1>1. Opened \subseteq Opened'
  BY DEF Opened, Remembered
<1> QED
  BY <1>1 DEF TablesKnown, Remembered

\* What a process takes from a frame.
GiveOK(c, m) ==
  /\ UNCHANGED wrote
  /\ \A r \in Requests : atHandler[r] \subseteq atHandler'[r] /\ atCaller[r] \subseteq atCaller'[r]
  /\ \A r \in Requests : /\ "answered" \in atHandler'[r] => "answered" \in atHandler[r]
                         /\ "call" \in atCaller'[r] => "call" \in atCaller[r]
                         /\ "req" \in atHandler'[r] => "req" \in atHandler[r] \/ (m.type = "req" /\ r = m.r)
  /\ \A r \in Requests : /\ atHandler'[r] # {} => atHandler[r] # {} \/ (c = Handler[r] /\ cart[c].alive)
                         /\ atCaller'[r] # {} => atCaller[r] # {}
  /\ m.type = "req" /\ c = Handler[m.r] /\ cart[c].alive => "req" \in atHandler'[m.r]

LEMMA Given ==
  ASSUME Types, NEW c \in Cartridges, NEW m \in Frames, Give(c, m)
  PROVE  ProcessType' /\ GiveOK(c, m)
<1>1. m.r \in Requests /\ m.type \in Kinds
  BY DEF Frames
<1>2. CASE ~cart[c].alive
  BY <1>2 DEF Give, process, GiveOK, ProcessType, Types
<1>3. CASE cart[c].alive
  <2> DEFINE side == IF Handler[m.r] = c THEN "handler" ELSE "caller"
             what == IF Terminal(m.type) THEN "end" ELSE m.type
             known == \/ side = "handler" /\ (m.type = "req" \/ "req" \in atHandler[m.r])
                      \/ side = "caller" /\ "call" \in atCaller[m.r]
  <2>1. /\ atHandler' = IF known /\ side = "handler"
                          THEN [atHandler EXCEPT ![m.r] = @ \cup {what}] ELSE atHandler
        /\ atCaller' = IF known /\ side = "caller"
                         THEN [atCaller EXCEPT ![m.r] = @ \cup {what}] ELSE atCaller
        /\ astray' = IF known /\ side = m.to THEN astray ELSE astray \cup {m.r}
        /\ UNCHANGED wrote
    BY <1>3 DEF Give
  <2>2. what \in {"req", "data", "end", "grant", "cancel"} /\ what \in Knowledge
    BY <1>1 DEF Kinds, Terminal, Knowledge
  <2>3. what = "req" <=> m.type = "req"
    BY <1>1 DEF Kinds, Terminal
  <2>4. side = "handler" <=> c = Handler[m.r]
    OBVIOUS
  <2>5. known => (side = "handler" /\ (m.type = "req" \/ "req" \in atHandler[m.r]))
                 \/ (side = "caller" /\ "call" \in atCaller[m.r])
    OBVIOUS
  <2>6. m.type = "req" /\ side = "handler" => known
    OBVIOUS
  <2> HIDE DEF side, what, known
  <2>7. ProcessType'
    BY <1>1, <2>1, <2>2 DEF ProcessType, Types
  <2>8. CASE known /\ side = "handler"
    <3>1. atHandler' = [atHandler EXCEPT ![m.r] = @ \cup {what}] /\ UNCHANGED <<atCaller, wrote>>
      BY <2>1, <2>8
    <3>2. /\ \A r \in Requests : r # m.r => atHandler'[r] = atHandler[r]
          /\ atHandler'[m.r] = atHandler[m.r] \cup {what}
      BY <1>1, <3>1 DEF Types, ProcessType
    <3> QED
      BY <1>1, <1>3, <2>2, <2>3, <2>4, <2>7, <2>8, <3>1, <3>2 DEF GiveOK
  <2>9. CASE known /\ side = "caller"
    <3>1. atCaller' = [atCaller EXCEPT ![m.r] = @ \cup {what}] /\ UNCHANGED <<atHandler, wrote>>
      BY <2>1, <2>9
    <3>2. /\ \A r \in Requests : r # m.r => atCaller'[r] = atCaller[r]
          /\ atCaller'[m.r] = atCaller[m.r] \cup {what} /\ "call" \in atCaller[m.r]
      BY <1>1, <2>5, <2>9, <3>1 DEF Types, ProcessType
    <3> QED
      BY <1>1, <1>3, <2>2, <2>3, <2>4, <2>7, <2>9, <3>1, <3>2 DEF GiveOK
  <2>10. CASE ~known
    <3>1. UNCHANGED <<atHandler, atCaller, wrote>>
      BY <2>1, <2>10
    <3> QED
      BY <2>4, <2>6, <2>7, <2>10, <3>1 DEF GiveOK
  <2>11. side \in {"handler", "caller"}
    BY DEF side
  <2> QED
    BY <2>8, <2>9, <2>10, <2>11
<1> QED
  BY <1>2, <1>3

LEMMA GivenMinds ==
  ASSUME Types, Minds, NEW c \in Cartridges, NEW m \in Frames, Give(c, m),
         \A d \in Cartridges : cart[d].alive => cart'[d].alive
  PROVE  Minds'
  BY Given DEF GiveOK, Minds, Here

\* A process dies, and with it what it knew.
LEMMA Forgotten ==
  ASSUME Types, Minds, NEW c \in Cartridges, Forget(c), ~cart'[c].alive,
         \A d \in Cartridges : d # c => cart'[d].alive = cart[d].alive
  PROVE  /\ ProcessType' /\ Minds'
         /\ \A r \in Requests : /\ Here(Handler[r]) /\ cart'[Handler[r]].alive => atHandler'[r] = atHandler[r]
                                /\ Here(Caller[r]) /\ cart'[Caller[r]].alive => atCaller'[r] = atCaller[r]
                                /\ atHandler'[r] = {} \/ atHandler'[r] = atHandler[r]
                                /\ atCaller'[r] = {} \/ atCaller'[r] = atCaller[r]
<1>1. /\ atHandler' = [r \in Requests |-> IF Handler[r] = c THEN {} ELSE atHandler[r]]
      /\ atCaller' = [r \in Requests |-> IF Caller[r] = c THEN {} ELSE atCaller[r]]
      /\ UNCHANGED <<wrote, astray>>
  BY DEF Forget
<1>2. ProcessType'
  BY <1>1 DEF Types, ProcessType
<1> QED
  BY <1>1, <1>2 DEF Minds, Here

Before == Types /\ Local /\ Known /\ Addressed

LEMMA AsideLocal ==
  ASSUME Before, Remembered, UNCHANGED <<up, cart, incoming, outgoing, bodyDone, respDone, peers, maxSeq>>,
         unrouted' \subseteq Requests, UNCHANGED <<events, process>>, troubles' \in Nat
  PROVE  Local' /\ Steady
<1>1. Steady
  BY DEF Steady, process
<1>2. LocalType'
  BY DEF Before, Types, LocalType, HostType, TablesType, ProcessType, EventsType, process
<1>3. Upright' /\ Minds'
  BY DEF Before, Local, Upright, Minds, process
<1>4. Entries'
  BY <1>1, SteadyEntries DEF Before, Local, Entries
<1>5. TablesKnown'
  BY SteadyKnown DEF Before, Local, Types
<1>6. Queued'
  BY <1>1, SameQueued DEF Before, Local
<1> QED
  BY <1>1, <1>2, <1>3, <1>4, <1>5, <1>6 DEF Local

\* What writing a frame does.
LEMMA Emitted ==
  ASSUME Before, Steady, NEW flow \in Flows, NEW c \in Cartridges, c = Writer(flow),
         NEW type \in {"req", "data", "end"}, Emit(c, type, flow), UNCHANGED cart,
         type = "req" => flow[2] = "call" /\ "call" \in atCaller'[flow[1]]
  PROVE  /\ Queued' /\ EventsType' /\ wrote' \in [Flows -> Nat]
         /\ cart[c].alive /\ wrote' = [wrote EXCEPT ![flow] = @ + 1]
         /\ \E e \in Events : /\ events' = Append(events, e) /\ e.c = c /\ e.type = type
                              /\ e.flow = flow /\ e.seq = wrote[flow] /\ e.gen = cart[c].gen
<1>1. wrote[flow] \in Nat /\ cart[c].gen \in Nat
  BY DEF Before, Types, ProcessType, HostType, Carts
<1>2. PICK e \in Events : e = [c |-> c, gen |-> cart[c].gen, type |-> type, flow |-> flow, seq |-> wrote[flow]]
  BY <1>1 DEF Events
<1>3. /\ cart[c].alive /\ wrote' = [wrote EXCEPT ![flow] = @ + 1]
      /\ events' = Append(events, e)
  BY <1>2 DEF Emit
<1>4. e.c = c /\ e.gen = cart[c].gen /\ e.type = type /\ e.flow = flow /\ e.seq = wrote[flow]
  BY <1>2
<1>5. cart[c].running
  BY <1>3 DEF Before, Local, Upright
<1>6. EventOK(e)'
  BY <1>1, <1>4, <1>5 DEF EventOK, Current, Writer
<1>7. Queued' /\ EventsType'
  BY <1>3, <1>6, AppendQueued DEF Before, Local
<1>8. wrote' \in [Flows -> Nat]
  BY <1>1, <1>3 DEF Before, Types, ProcessType
<1> QED
  BY <1>3, <1>4, <1>7, <1>8

LEMMA EmitLocal ==
  ASSUME Before, Remembered, HostAssumption, NEW r \in Requests,
         CallPeer(r) \/ CallEnd(r) \/ Answer(r) \/ AnswerEnd(r)
  PROVE  Local' /\ Steady
<1>1. /\ UNCHANGED <<up, cart, incoming, outgoing, bodyDone, respDone, peers, maxSeq, unrouted>>
      /\ UNCHANGED <<troubles, astray>>
  BY DEF CallPeer, CallEnd, Answer, AnswerEnd, tables
<1>2. <<r, "call">> \in Flows /\ <<r, "answer">> \in Flows
  BY DEF Flows
<1>3. Writer(<<r, "call">>) = Caller[r] /\ Writer(<<r, "answer">>) = Handler[r]
  BY DEF Writer
<1>4. atHandler[r] # {} => Handler[r] \in Cartridges
  BY DEF Before, Local, Minds, Here
<1>5. atCaller[r] # {} => Caller[r] \in Cartridges
  BY DEF Before, Local, Minds, Here
<1>6. \/ UNCHANGED <<atHandler, atCaller>>
      \/ atCaller' = [atCaller EXCEPT ![r] = {"call"}] /\ UNCHANGED atHandler
      \/ atHandler' = [atHandler EXCEPT ![r] = @ \cup {"answered"}] /\ UNCHANGED atCaller
  BY DEF CallPeer, CallEnd, Answer, AnswerEnd
<1>7. Steady
  BY <1>1, <1>6 DEF Steady, Before, Types, ProcessType
<1>8. PICK flow \in {<<r, "call">>, <<r, "answer">>}, type \in {"req", "data", "end"}, c \in Cartridges :
        /\ Emit(c, type, flow) /\ c = Writer(flow)
        /\ type = "req" => flow = <<r, "call">> /\ "call" \in atCaller'[r]
  <2>1. CASE CallPeer(r)
    <3>1. Emit(Caller[r], "req", <<r, "call">>) /\ Caller[r] \in Cartridges
      BY <2>1 DEF CallPeer, Here
    <3>2. "call" \in atCaller'[r]
      BY <2>1 DEF CallPeer, Before, Types, ProcessType
    <3> QED
      BY <1>3, <3>1, <3>2
  <2>2. CASE CallEnd(r)
    BY <1>3, <1>5, <2>2 DEF CallEnd
  <2>3. CASE Answer(r)
    BY <1>3, <1>4, <2>3 DEF Answer, MayAnswer
  <2>4. CASE AnswerEnd(r)
    BY <1>3, <1>4, <2>4 DEF AnswerEnd, MayAnswer
  <2> QED
    BY <2>1, <2>2, <2>3, <2>4
<1>9. flow \in Flows /\ (type = "req" => flow[2] = "call" /\ "call" \in atCaller'[flow[1]])
  BY <1>2, <1>8
<1>10. Queued' /\ EventsType' /\ wrote' \in [Flows -> Nat]
  BY <1>1, <1>7, <1>8, <1>9, Emitted
<1>11. LocalType'
  BY <1>1, <1>6, <1>10 DEF Before, Types, LocalType, HostType, TablesType, ProcessType, Knowledge
<1>12. Upright'
  BY <1>1 DEF Before, Local, Upright
<1>13. Minds'
  <2>1. cart[c].alive
    BY <1>8 DEF Emit
  <2>2. CASE UNCHANGED <<atHandler, atCaller>>
    BY <1>1, <2>2 DEF Before, Local, Minds
  <2>3. CASE CallPeer(r)
    <3>1. atCaller' = [atCaller EXCEPT ![r] = {"call"}] /\ UNCHANGED atHandler
      BY <2>3 DEF CallPeer
    <3>2. Here(Caller[r]) /\ cart[Caller[r]].alive
      BY <2>3 DEF CallPeer, Emit
    <3> QED
      BY <1>1, <3>1, <3>2 DEF Before, Local, Minds, Types, ProcessType
  <2>4. CASE AnswerEnd(r)
    <3>1. atHandler' = [atHandler EXCEPT ![r] = @ \cup {"answered"}] /\ UNCHANGED atCaller
      BY <2>4 DEF AnswerEnd
    <3>2. Here(Handler[r]) /\ cart[Handler[r]].alive
      BY <1>4, <2>4 DEF AnswerEnd, MayAnswer, Emit, Here
    <3> QED
      BY <1>1, <3>1, <3>2 DEF Before, Local, Minds, Types, ProcessType
  <2> QED
    BY <2>2, <2>3, <2>4 DEF CallEnd, Answer
<1>14. Entries'
  BY <1>1, <1>7, SteadyEntries DEF Before, Local, Entries
<1>15. TablesKnown'
  BY <1>1, SteadyKnown DEF Before, Local, Types
<1> QED
  BY <1>7, <1>10, <1>11, <1>12, <1>13, <1>14, <1>15 DEF Local

\* One process loses its life, its reader, its place in the roster, or a reason.
LEMMA DieLocal ==
  ASSUME Before, Remembered, NEW c \in Cartridges,
         Crash(c) \/ ReaderEnds(c) \/ Retire(c) \/ Restore(c) \/ Reap(c)
  PROVE  Local' /\ Steady
<1>1. /\ UNCHANGED <<up, incoming, outgoing, bodyDone, respDone, peers, maxSeq, unrouted>>
      /\ troubles' \in Nat
  BY DEF Crash, ReaderEnds, Retire, Restore, Reap, tables, Trouble, Before, Types, HostType
<1>2. PICK p \in Carts :
        /\ cart' = [cart EXCEPT ![c] = p]
        /\ p.running = cart[c].running /\ p.gen = cart[c].gen /\ p.writer = cart[c].writer
        /\ p.alive => cart[c].alive /\ p.reader /\ p.reason = "none"
        /\ p.reason # "none" \/ p.reader => p.running
        /\ p.retiring => p.failed
        /\ \/ p.alive = cart[c].alive /\ UNCHANGED process
           \/ ~p.alive /\ Forget(c)
  <2> DEFINE q == cart[c]
  <2>1. q \in Carts /\ cart = [d \in Cartridges |-> cart[d]]
    BY DEF Before, Types, HostType
  <2>2. /\ q.alive => q.running /\ q.reader /\ q.writer /\ q.reason = "none"
        /\ q.reason # "none" \/ q.reader => q.running
        /\ q.retiring => q.failed
    BY DEF Before, Local, Upright
  <2>3. CASE Crash(c)
    <3>1. cart' = [cart EXCEPT ![c] = [q EXCEPT !.alive = FALSE]] /\ Forget(c)
      BY <2>1, <2>3 DEF Crash
    <3>2. [q EXCEPT !.alive = FALSE] \in Carts
      BY <2>1 DEF Carts
    <3> QED
      BY <2>1, <2>2, <3>1, <3>2 DEF Carts
  <2>4. CASE ReaderEnds(c)
    <3>1. cart' = [cart EXCEPT ![c] = [q EXCEPT !.reader = FALSE]] /\ UNCHANGED process /\ ~q.alive
      BY <2>1, <2>4 DEF ReaderEnds
    <3>2. [q EXCEPT !.reader = FALSE] \in Carts
      BY <2>1 DEF Carts
    <3> QED
      BY <2>1, <2>2, <3>1, <3>2 DEF Carts
  <2>5. CASE Retire(c)
    <3>1. CASE q.running /\ InFlight(c) = 0
      <4>1. /\ cart' = [cart EXCEPT ![c] = [q EXCEPT !.failed = TRUE, !.reason = "retired", !.alive = FALSE]]
            /\ Forget(c)
        BY <2>1, <2>5, <3>1 DEF Retire
      <4>2. [q EXCEPT !.failed = TRUE, !.reason = "retired", !.alive = FALSE] \in Carts
        BY <2>1 DEF Carts
      <4> QED
        BY <2>1, <2>2, <3>1, <4>1, <4>2 DEF Carts
    <3>2. CASE ~(q.running /\ InFlight(c) = 0)
      <4>1. /\ cart' = [cart EXCEPT ![c] = [q EXCEPT !.failed = TRUE, !.retiring = @ \/ q.running]]
            /\ UNCHANGED process
        BY <2>1, <2>5, <3>2 DEF Retire
      <4>2. [q EXCEPT !.failed = TRUE, !.retiring = @ \/ q.running] \in Carts
        BY <2>1 DEF Carts
      <4> QED
        BY <2>1, <2>2, <4>1, <4>2 DEF Carts
    <3> QED
      BY <3>1, <3>2
  <2>6. CASE Restore(c)
    <3>1. cart' = [cart EXCEPT ![c] = [q EXCEPT !.failed = FALSE, !.retiring = FALSE]] /\ UNCHANGED process
      BY <2>1, <2>6 DEF Restore
    <3>2. [q EXCEPT !.failed = FALSE, !.retiring = FALSE] \in Carts
      BY <2>1 DEF Carts
    <3> QED
      BY <2>1, <2>2, <3>1, <3>2 DEF Carts
  <2>7. CASE Reap(c)
    <3>1. CASE ~q.running
      <4>1. cart' = [cart EXCEPT ![c] = [q EXCEPT !.retiring = FALSE]] /\ UNCHANGED process
        BY <2>1, <2>7, <3>1 DEF Reap
      <4>2. [q EXCEPT !.retiring = FALSE] \in Carts
        BY <2>1 DEF Carts
      <4> QED
        BY <2>1, <2>2, <4>1, <4>2 DEF Carts
    <3>2. CASE q.running
      <4> DEFINE why == IF InFlight(c) = 0 THEN "retired" ELSE "overdue"
      <4>1. /\ cart' = [cart EXCEPT ![c] = [q EXCEPT !.retiring = FALSE, !.alive = FALSE, !.reason = why]]
            /\ Forget(c)
        BY <2>1, <2>7, <3>2 DEF Reap
      <4>2. why \in {"retired", "overdue"}
        OBVIOUS
      <4> HIDE DEF why
      <4>3. [q EXCEPT !.retiring = FALSE, !.alive = FALSE, !.reason = why] \in Carts
        BY <2>1, <4>2 DEF Carts
      <4> QED
        BY <2>1, <2>2, <3>2, <4>1, <4>2, <4>3 DEF Carts
    <3> QED
      BY <3>1, <3>2
  <2> QED
    BY <2>3, <2>4, <2>5, <2>6, <2>7
<1>3. /\ cart'[c] = p /\ \A d \in Cartridges : d # c => cart'[d] = cart[d]
      /\ cart' \in [Cartridges -> Carts]
  BY <1>2 DEF Before, Types, HostType
<1>4. ProcessType' /\ Minds' /\ Steady
  <2>1. CASE p.alive = cart[c].alive /\ UNCHANGED process
    BY <1>2, <1>3, <2>1 DEF process, Steady, Before, Types, ProcessType, Local, Minds, Here
  <2>2. CASE ~p.alive /\ Forget(c)
    <3>1. ProcessType' /\ Minds'
      BY <1>3, <2>2, Forgotten DEF Before, Local
    <3>2. \A r \in Requests : /\ Here(Handler[r]) /\ cart'[Handler[r]].alive => atHandler'[r] = atHandler[r]
                              /\ Here(Caller[r]) /\ cart'[Caller[r]].alive => atCaller'[r] = atCaller[r]
      BY <1>3, <2>2, Forgotten DEF Before, Local
    <3> QED
      BY <1>2, <1>3, <2>2, <3>1, <3>2 DEF Steady
  <2> QED
    BY <1>2, <2>1, <2>2
<1>5. Upright'
  <2>1. p.running /\ ~p.writer => BrokenPipes
    BY <1>2 DEF Before, Local, Upright
  <2>2. p.alive => p.running /\ p.writer
    BY <1>2 DEF Before, Local, Upright
  <2> QED
    BY <1>2, <1>3, <2>1, <2>2 DEF Before, Local, Upright
<1>6. Queued' /\ EventsType'
  <2>1. CASE UNCHANGED events
    BY <1>4, <2>1, SameQueued DEF Before, Local
  <2>2. CASE ReaderEnds(c)
    <3>1. PICK e \in Events : e = [c |-> c, gen |-> cart[c].gen, type |-> "death"]
      BY DEF Events, Before, Types, HostType, Carts
    <3>2. events' = Append(events, e) /\ cart[c].reader
      BY <2>2, <3>1 DEF ReaderEnds
    <3>3. cart[c].gen \in Nat
      BY DEF Before, Types, HostType, Carts
    <3>4. cart'[c].gen = cart[c].gen /\ cart'[c].running
      BY <1>2, <1>3, <2>2 DEF ReaderEnds, Before, Local, Upright
    <3>5. EventOK(e)'
      BY <3>1, <3>3, <3>4 DEF EventOK, Current
    <3> QED
      BY <1>4, <3>2, <3>5, AppendQueued DEF Before, Local
  <2> QED
    BY <2>1, <2>2 DEF Crash, Retire, Restore, Reap
<1>7. Entries'
  BY <1>1, <1>4, SteadyEntries DEF Before, Local, Entries
<1>8. TablesKnown'
  BY <1>1, SteadyKnown DEF Before, Local, Types
<1>9. LocalType'
  BY <1>1, <1>3, <1>4, <1>6 DEF LocalType, HostType, TablesType, Before, Types
<1> QED
  BY <1>4, <1>5, <1>6, <1>7, <1>8, <1>9 DEF Local

\* A frame is written to c, whose writer may turn out to be broken.
LEMMA Written ==
  ASSUME Before, HostAssumption, NEW c \in Cartridges, NEW m \in Frames, Give(c, m),
         NEW w \in Writers(c), cart' = [cart EXCEPT ![c].writer = w],
         UNCHANGED <<up, events, troubles>>
  PROVE  /\ Steady /\ Upright' /\ Minds' /\ ProcessType' /\ Queued' /\ EventsType' /\ HostType'
         /\ GiveOK(c, m)
         /\ cart'[c].running = cart[c].running /\ cart'[c].alive = cart[c].alive
<1>1. w \in BOOLEAN /\ (cart[c].alive => w = cart[c].writer) /\ (~w => ~cart[c].writer \/ BrokenPipes)
  BY DEF Writers, Before, Types, HostType, Carts, HostAssumption
<1>2. cart[c] \in Carts
  BY DEF Before, Types, HostType
<1>3. PICK p \in Carts : p = [cart[c] EXCEPT !.writer = w]
  BY <1>1, <1>2 DEF Carts
<1>4. /\ p.running = cart[c].running /\ p.gen = cart[c].gen /\ p.alive = cart[c].alive
      /\ p.reader = cart[c].reader /\ p.reason = cart[c].reason /\ p.writer = w
      /\ p.retiring = cart[c].retiring /\ p.failed = cart[c].failed
  BY <1>2, <1>3 DEF Carts
<1>5. /\ cart'[c] = p /\ \A d \in Cartridges : d # c => cart'[d] = cart[d]
      /\ cart' \in [Cartridges -> Carts]
  BY <1>3 DEF Before, Types, HostType
<1>6. ProcessType' /\ GiveOK(c, m)
  BY Given DEF Before
<1>7. Steady
  BY <1>4, <1>5, <1>6 DEF Steady, GiveOK
<1>8. Upright'
  BY <1>1, <1>4, <1>5 DEF Before, Local, Upright
<1>9. Minds'
  BY <1>4, <1>5, GivenMinds DEF Before, Local
<1>10. Queued' /\ EventsType'
  BY <1>7, SameQueued DEF Before, Local
<1>11. HostType'
  BY <1>5 DEF Before, Types, HostType
<1> QED
  BY <1>4, <1>5, <1>6, <1>7, <1>8, <1>9, <1>10, <1>11

\* What is behind the process that c has had.
LEMMA RenewedQueued ==
  ASSUME Before, NEW c \in Cartridges, cart'[c].gen = cart[c].gen + 1,
         NEW s \in Seq(Events), events' = s, \A i \in DOMAIN s : \E j \in DOMAIN events : s[i] = events[j],
         \A d \in Cartridges : d # c => cart'[d] = cart[d],
         \A r \in Requests : Here(Caller[r]) /\ Caller[r] # c => atCaller'[r] = atCaller[r]
  PROVE  Queued' /\ EventsType'
<1>1. events \in Seq(Events) /\ cart[c].gen \in Nat
  BY DEF Before, Types, EventsType, HostType, Carts
<1>2. ASSUME NEW i \in DOMAIN s
      PROVE  EventOK(s[i])'
  <2>1. PICK e \in Events : e = s[i] /\ \E j \in DOMAIN events : e = events[j]
    BY <1>1
  <2>2. EventOK(e) /\ e.c \in Cartridges /\ e.gen \in Nat
    BY <2>1 DEF Before, Local, Queued, Events
  <2>3. e.type = "req" => e.flow[1] \in Requests /\ e.c = Caller[e.flow[1]]
    BY <2>2 DEF Events, Flows, EventOK, Writer
  <2>4. CASE e.c = c
    <3>1. e.gen <= cart'[c].gen /\ e.gen # cart'[c].gen
      BY <1>1, <2>2, <2>4 DEF EventOK
    <3>2. EventOK(e)'
      BY <2>2, <2>4, <3>1 DEF EventOK, Current, Writer
    <3> QED
      BY <2>1, <3>2 DEF EventOK, Current, Writer
  <2>5. CASE e.c # c
    <3>1. EventOK(e)'
      BY <2>2, <2>3, <2>5 DEF EventOK, Current, Writer, Here
    <3> QED
      BY <2>1, <3>1 DEF EventOK, Current, Writer
  <2> QED
    BY <2>4, <2>5
<1> QED
  BY <1>1, <1>2 DEF Queued, EventsType, EventOK, Current, Writer

\* The next process of c will be another one.
LEMMA Buried ==
  ASSUME Before, NEW c \in Cartridges, Bury(c)
  PROVE  \E p \in Carts :
           /\ cart' = [cart EXCEPT ![c] = p] /\ p.gen = cart[c].gen + 1
           /\ ~p.running /\ ~p.alive /\ ~p.reader /\ ~p.writer /\ p.reason = "none"
           /\ p.retiring => p.failed
           /\ cart'[c] = p /\ \A d \in Cartridges : d # c => cart'[d] = cart[d]
           /\ cart' \in [Cartridges -> Carts] /\ cart[c].gen \in Nat
<1>1. PICK q \in Carts : q = cart[c] /\ cart = [d \in Cartridges |-> cart[d]]
  BY DEF Before, Types, HostType
<1> DEFINE g == q.gen + 1
           n == [q EXCEPT !.running = FALSE, !.alive = FALSE, !.reader = FALSE,
                          !.writer = FALSE, !.reason = "none", !.gen = g]
<1>2. cart' = [cart EXCEPT ![c] = n]
  BY <1>1 DEF Bury
<1>3. g \in Nat
  BY DEF Carts
<1> HIDE DEF g
<1>4. n \in Carts /\ n.gen = g /\ ~n.running /\ ~n.alive /\ ~n.reader /\ ~n.writer
      /\ n.reason = "none" /\ n.retiring = q.retiring /\ n.failed = q.failed
  BY <1>3 DEF Carts
<1>5. g = cart[c].gen + 1 /\ (q.retiring => q.failed)
  BY <1>1 DEF g, Before, Local, Upright
<1>6. /\ cart'[c] = n /\ \A d \in Cartridges : d # c => cart'[d] = cart[d]
      /\ cart' \in [Cartridges -> Carts]
  BY <1>2, <1>4 DEF Before, Types, HostType
<1>7. cart[c].gen \in Nat
  BY <1>1 DEF Carts
<1> QED
  BY <1>2, <1>4, <1>5, <1>6, <1>7

LEMMA BuryLocal ==
  ASSUME Before, HostAssumption, Remembered, NEW c \in Cartridges, Bury(c), troubles' \in Nat,
         NEW s \in Seq(Events), events' = s, \A i \in DOMAIN s : \E j \in DOMAIN events : s[i] = events[j]
  PROVE  Local'
<1> USE HostAssumption DEF HostAssumption
<1>1. PICK p \in Carts :
        /\ cart' = [cart EXCEPT ![c] = p] /\ p.gen = cart[c].gen + 1
        /\ ~p.running /\ ~p.alive /\ ~p.reader /\ ~p.writer /\ p.reason = "none"
        /\ p.retiring => p.failed
        /\ cart'[c] = p /\ \A d \in Cartridges : d # c => cart'[d] = cart[d]
        /\ cart' \in [Cartridges -> Carts]
  BY Buried
<1>2. /\ cart'[c] = p /\ \A d \in Cartridges : d # c => cart'[d] = cart[d]
      /\ cart' \in [Cartridges -> Carts]
  BY <1>1
<1>3. Forget(c)
  BY DEF Bury
<1>4. /\ ProcessType' /\ Minds'
      /\ \A r \in Requests : /\ Here(Handler[r]) /\ cart'[Handler[r]].alive => atHandler'[r] = atHandler[r]
                             /\ Here(Caller[r]) /\ cart'[Caller[r]].alive => atCaller'[r] = atCaller[r]
  BY <1>1, <1>2, <1>3, Forgotten DEF Before, Local
<1>5. \A r \in Requests : Here(Caller[r]) /\ Caller[r] # c => atCaller'[r] = atCaller[r]
  BY <1>3 DEF Forget
<1>6. /\ outgoing' = [r \in Requests |-> IF outgoing[r] = c THEN None ELSE outgoing[r]]
      /\ incoming' = [r \in Requests |-> IF incoming[r] = c THEN None ELSE incoming[r]]
      /\ bodyDone' = bodyDone \ Jobs(c) /\ respDone' = respDone \ Jobs(c)
      /\ peers' = [r \in Requests |-> IF r \in Jobs(c) THEN {} ELSE peers[r]]
      /\ UNCHANGED <<up, unrouted>>
  <2>1. /\ outgoing' = [r \in Requests |-> IF r \in Calls(c) THEN None ELSE outgoing[r]]
        /\ incoming' = [r \in Requests |-> IF r \in Jobs(c) THEN None ELSE incoming[r]]
        /\ bodyDone' = bodyDone \ Jobs(c) /\ respDone' = respDone \ Jobs(c)
        /\ peers' = [r \in Requests |-> IF r \in Jobs(c) THEN {} ELSE peers[r]]
        /\ UNCHANGED <<up, unrouted>>
    BY DEF Bury
  <2> QED
    BY <2>1 DEF Calls, Jobs
<1>7. maxSeq' \in [Flows -> Nat \cup {-1}]
  <2>1. maxSeq' = [f \in Flows |-> IF f \in (Calls(c) \X {"call"}) \cup (Jobs(c) \X {"answer"})
                                     THEN -1 ELSE maxSeq[f]]
    BY DEF Bury
  <2> QED
    BY <2>1 DEF Before, Types, TablesType
<1>8. Upright'
  BY <1>1, <1>2 DEF Before, Local, Upright
<1>9. Entries'
  <2>1. ASSUME NEW r \in Requests
        PROVE  EntryOK(r)'
    <3>1. incoming'[r] # None => /\ incoming[r] # None /\ incoming[r] # c /\ incoming'[r] = incoming[r]
                                 /\ incoming[r] = Handler[r] /\ Handler[r] \in Cartridges
      BY <1>6 DEF Before, Local, Entries, EntryOK, Types, TablesType
    <3>2. outgoing'[r] # None => /\ outgoing[r] # None /\ outgoing[r] # c /\ outgoing'[r] = outgoing[r]
                                 /\ outgoing[r] = Caller[r] /\ Caller[r] \in Cartridges
      BY <1>6 DEF Before, Local, Entries, EntryOK, Types, TablesType
    <3> QED
      BY <1>2, <1>4, <3>1, <3>2 DEF EntryOK, Before, Local, Entries, Here
  <2>2. \A r \in bodyDone' \cup respDone' : incoming'[r] # None
    BY <1>6 DEF Before, Local, Entries, Types, TablesType, Jobs
  <2>3. bodyDone' \cap respDone' = {}
    BY <1>6 DEF Before, Local, Entries
  <2> QED
    BY <2>1, <2>2, <2>3 DEF Entries
<1>10. TablesKnown'
  BY <1>6, SteadyKnown DEF Before, Local, Types
<1>11. Queued' /\ EventsType'
  BY <1>1, <1>2, <1>5, RenewedQueued
<1>12. LocalType'
  <2>1. TablesType'
    BY <1>6, <1>7 DEF Before, Types, TablesType
  <2> QED
    BY <1>2, <1>4, <1>6, <1>11, <2>1 DEF LocalType, HostType, Before, Types
<1> QED
  BY <1>4, <1>8, <1>9, <1>10, <1>11, <1>12 DEF Local

LEMMA RelayReqLocal ==
  ASSUME Before, HostAssumption, Remembered, RelayReq
  PROVE  Local'
<1> DEFINE m == Head(toHost)
           c == Handler[m.r]
<1>1. toHost # <<>> /\ m.type = "req"
  BY DEF RelayReq, FromRelay
<1>2. m \in Frames /\ m.r \in Requests /\ FrameOK(m)
  BY <1>1, TailOK DEF Frames, Before
<1>3. c \in Cartridges /\ Here(c) /\ call[m.r] # "new"
  BY <1>1, <1>2 DEF FrameOK, Here
<1>4. CASE cart[c].failed
  <2>1. UNCHANGED <<up, cart, incoming, outgoing, bodyDone, respDone, peers, maxSeq, unrouted,
                    events, process, troubles>>
    BY <1>4 DEF RelayReq, tables
  <2> QED
    BY <2>1, AsideLocal DEF Before, Types, TablesType, HostType
<1>5. CASE ~cart[c].failed
  <2>1. /\ UNCHANGED <<up, outgoing, bodyDone, respDone, peers, maxSeq, unrouted, events, troubles>>
        /\ incoming' = [incoming EXCEPT ![m.r] = c]
    BY <1>5 DEF RelayReq
  <2>2. TablesType'
    BY <1>2, <1>3, <2>1 DEF Before, Types, TablesType
  <2>3. TablesKnown'
    <3>1. Opened \subseteq Opened'
      BY DEF Opened, Remembered
    <3>2. \A r \in Requests : incoming'[r] # None => r = m.r \/ incoming[r] # None
      BY <1>2, <2>1 DEF Before, Types, TablesType
    <3> QED
      BY <1>2, <1>3, <2>1, <3>1, <3>2 DEF Before, Local, TablesKnown, Remembered
  <2>4. \A r \in bodyDone' \cup respDone' : incoming'[r] # None
    BY <1>2, <1>3, <2>1, HostAssumption DEF Before, Local, Entries, Types, TablesType, HostAssumption
  <2>5. bodyDone' \cap respDone' = {}
    BY <2>1 DEF Before, Local, Entries
  <2>6. \A r \in Requests : r # m.r => incoming'[r] = incoming[r]
    BY <1>2, <2>1 DEF Before, Types, TablesType
  <2>7. incoming'[m.r] = c
    BY <1>2, <2>1 DEF Before, Types, TablesType
  <2>8. CASE cart[c].running
    <3>1. PICK w \in Writers(c) : cart' = [cart EXCEPT ![c].writer = w]
      BY <1>5, <2>8 DEF RelayReq
    <3>2. Give(c, m)
      BY <1>5, <2>8 DEF RelayReq
    <3>3. /\ Steady /\ Upright' /\ Minds' /\ ProcessType' /\ Queued' /\ EventsType' /\ HostType'
          /\ GiveOK(c, m)
          /\ cart'[c].running = cart[c].running /\ cart'[c].alive = cart[c].alive
      BY <1>2, <1>3, <2>1, <3>1, <3>2, Written
    <3>4. NewIncoming(m.r)
      BY <1>1, <1>3, <2>7, <2>8, <3>3 DEF NewIncoming, GiveOK
    <3>5. Entries'
      BY <2>1, <2>4, <2>5, <2>6, <3>3, <3>4, SteadyEntries DEF Before, Local
    <3> QED
      BY <2>2, <2>3, <3>3, <3>5 DEF Local, LocalType
  <2>9. CASE ~cart[c].running
    <3>1. PICK p \in Carts :
            /\ cart' = [cart EXCEPT ![c] = p] /\ p.gen = cart[c].gen + 1
            /\ p.running /\ p.alive /\ p.reader /\ p.writer /\ p.reason = "none"
            /\ p.retiring => p.failed
      <4>1. PICK q \in Carts : q = cart[c]
        BY <1>3 DEF Before, Types, HostType
      <4> DEFINE g == q.gen + 1
                 n == [q EXCEPT !.running = TRUE, !.alive = TRUE, !.reader = TRUE,
                                !.writer = TRUE, !.gen = g]
      <4>2. cart' = [cart EXCEPT ![c] = n]
        BY <1>5, <2>9, <4>1 DEF RelayReq, Started
      <4>3. g \in Nat
        BY DEF Carts
      <4> HIDE DEF g
      <4>4. n \in Carts /\ n.gen = g /\ n.running /\ n.alive /\ n.reader /\ n.writer
            /\ n.reason = q.reason /\ n.retiring = q.retiring /\ n.failed = q.failed
        BY <4>3 DEF Carts
      <4>5. g = cart[c].gen + 1 /\ (q.retiring => q.failed) /\ q.reason = "none"
        BY <1>3, <2>9, <4>1 DEF g, Before, Local, Upright
      <4> QED
        BY <4>2, <4>4, <4>5
    <3>2. /\ cart'[c] = p /\ \A d \in Cartridges : d # c => cart'[d] = cart[d]
          /\ cart' \in [Cartridges -> Carts]
      BY <1>3, <3>1 DEF Before, Types, HostType
    <3>3. atHandler' = [atHandler EXCEPT ![m.r] = {"req"}] /\ UNCHANGED <<atCaller, wrote, astray>>
      BY <1>5, <2>9 DEF RelayReq
    <3>4. /\ atHandler'[m.r] = {"req"} /\ \A r \in Requests : r # m.r => atHandler'[r] = atHandler[r]
          /\ ProcessType'
      BY <1>2, <3>3 DEF Before, Types, ProcessType, Knowledge
    <3>5. ~cart[c].alive
      BY <1>3, <2>9 DEF Before, Local, Upright
    <3>6. Upright'
      BY <3>1, <3>2 DEF Before, Local, Upright
    <3>7. Minds'
      BY <1>3, <3>1, <3>2, <3>3, <3>4, <3>5 DEF Before, Local, Minds, Here
    <3>8. Entries'
      <4>1. ASSUME NEW r \in Requests
            PROVE  EntryOK(r)'
        <5>1. incoming[r] # None => /\ incoming[r] = Handler[r] /\ Handler[r] \in Cartridges
                                    /\ cart[Handler[r]].running /\ Handler[r] # c
                                    /\ cart[Handler[r]].alive => "req" \in atHandler[r]
          BY <2>9 DEF Before, Local, Entries, EntryOK, Types, TablesType
        <5>2. outgoing[r] # None => /\ outgoing[r] = Caller[r] /\ Caller[r] \in Cartridges
                                    /\ cart[Caller[r]].running /\ Caller[r] # c
                                    /\ cart[Caller[r]].alive => "call" \in atCaller[r]
          BY <2>9 DEF Before, Local, Entries, EntryOK, Types, TablesType
        <5>3. outgoing'[r] # None => /\ outgoing'[r] = Caller[r] /\ cart'[Caller[r]].running
                                     /\ cart'[Caller[r]].alive => "call" \in atCaller'[r]
          BY <2>1, <3>2, <3>3, <5>2
        <5>4. incoming'[r] # None => /\ incoming'[r] = Handler[r] /\ cart'[Handler[r]].running
                                     /\ cart'[Handler[r]].alive => "req" \in atHandler'[r]
          BY <2>6, <2>7, <3>1, <3>2, <3>4, <5>1
        <5> QED
          BY <5>3, <5>4 DEF EntryOK
      <4> QED
        BY <2>4, <2>5, <4>1 DEF Entries
    <3>9. Queued' /\ EventsType'
      <4>1. PICK s \in Seq(Events) : s = events
        BY DEF Before, Types, EventsType
      <4> QED
        BY <1>3, <2>1, <3>1, <3>2, <3>3, <4>1, RenewedQueued
    <3> QED
      BY <2>1, <2>2, <2>3, <3>2, <3>4, <3>6, <3>7, <3>8, <3>9
         DEF Local, LocalType, HostType, Before, Types
  <2> QED
    BY <2>8, <2>9
<1> QED
  BY <1>4, <1>5

LEMMA StopLocal ==
  ASSUME Before, Remembered, Stop, troubles' \in Nat
  PROVE  Local' /\ Steady
<1>1. /\ up' = FALSE /\ cart' = [c \in Cartridges |-> [cart[c] EXCEPT !.alive = FALSE]]
      /\ atHandler' = [r \in Requests |-> {}] /\ atCaller' = [r \in Requests |-> {}]
      /\ UNCHANGED <<incoming, outgoing, bodyDone, respDone, peers, maxSeq, unrouted, events, wrote, astray>>
  BY DEF Stop, tables
<1>2. ASSUME NEW c \in Cartridges
      PROVE  /\ cart'[c] \in Carts /\ ~cart'[c].alive /\ cart'[c].running = cart[c].running
             /\ cart'[c].gen = cart[c].gen /\ cart'[c].reader = cart[c].reader
             /\ cart'[c].writer = cart[c].writer /\ cart'[c].reason = cart[c].reason
             /\ cart'[c].retiring = cart[c].retiring /\ cart'[c].failed = cart[c].failed
  <2>1. PICK q \in Carts : q = cart[c]
    BY DEF Before, Types, HostType
  <2>2. cart'[c] = [q EXCEPT !.alive = FALSE]
    BY <1>1, <2>1
  <2> QED
    BY <2>1, <2>2 DEF Carts
<1>3. cart' \in [Cartridges -> Carts]
  BY <1>1, <1>2
<1>4. Steady
  BY <1>2 DEF Steady, Here
<1>5. Upright'
  BY <1>2 DEF Before, Local, Upright
<1>6. Minds' /\ ProcessType'
  BY <1>1 DEF Minds, Before, Types, ProcessType
<1>7. Entries'
  BY <1>1, <1>4, SteadyEntries DEF Before, Local, Entries
<1>8. TablesKnown'
  BY <1>1, SteadyKnown DEF Before, Local, Types
<1>9. Queued' /\ EventsType'
  BY <1>1, <1>4, SameQueued DEF Before, Local
<1>10. LocalType'
  BY <1>1, <1>3, <1>6, <1>9 DEF LocalType, HostType, TablesType, Before, Types
<1> QED
  BY <1>4, <1>5, <1>6, <1>7, <1>8, <1>9, <1>10 DEF Local

\* Where a continuation goes.
LEMMA Targeted ==
  ASSUME Before, NEW m \in Frames, Via(m) # "none"
  PROVE  /\ Target(m) \in Cartridges /\ cart[Target(m)].running
         /\ Via(m) \in {"incoming", "outgoing"}
         /\ Via(m) = "incoming" => Target(m) = incoming[m.r] /\ incoming[m.r] = Handler[m.r]
         /\ Via(m) = "outgoing" => Target(m) = outgoing[m.r] /\ outgoing[m.r] = Caller[m.r]
<1>1. m.r \in Requests
  BY DEF Frames
<1>2. /\ incoming[m.r] # None => incoming[m.r] \in Cartridges /\ cart[incoming[m.r]].running /\ incoming[m.r] = Handler[m.r]
      /\ outgoing[m.r] # None => outgoing[m.r] \in Cartridges /\ cart[outgoing[m.r]].running /\ outgoing[m.r] = Caller[m.r]
  BY <1>1 DEF Before, Local, Entries, EntryOK, Types, TablesType
<1>3. \/ Via(m) = "incoming" /\ incoming[m.r] # None
      \/ Via(m) = "outgoing" /\ outgoing[m.r] # None
  BY DEF Via
<1> QED
  BY <1>2, <1>3 DEF Target

LEMMA RelayLocal ==
  ASSUME Before, HostAssumption, Remembered, HandleRelay
  PROVE  Local'
<1> DEFINE m == Head(toHost)
<1>1. toHost # <<>>
  BY DEF HandleRelay, RelayReq, RelayReqFails, RelayUnrouted, RelayToDead, RelayContinuation,
         RelayCancel, FromRelay
<1>2. m \in Frames /\ m.r \in Requests /\ FrameOK(m)
  BY <1>1, TailOK DEF Frames, Before
<1>3. CASE RelayReq
  BY <1>3, RelayReqLocal
<1>4. CASE RelayReqFails
  <2>1. Stop /\ troubles' \in Nat
    BY <1>4 DEF RelayReqFails, Trouble, Before, Types, HostType
  <2> QED
    BY <2>1, StopLocal
<1>5. CASE RelayUnrouted
  <2>1. /\ UNCHANGED <<up, cart, incoming, outgoing, bodyDone, respDone, peers, maxSeq, events, process, troubles>>
        /\ unrouted' \subseteq Requests
    BY <1>2, <1>5 DEF RelayUnrouted, Before, Types, TablesType
  <2> QED
    BY <2>1, AsideLocal DEF Before, Types, HostType
<1>6. CASE RelayToDead
  <2>1. /\ UNCHANGED <<up, cart, peers, unrouted, events, process, troubles>>
        /\ maxSeq' = [maxSeq EXCEPT ![<<m.r, "answer">>] = -1]
        /\ incoming' = [incoming EXCEPT ![m.r] = None]
        /\ outgoing' = [outgoing EXCEPT ![m.r] = None]
        /\ bodyDone' = bodyDone \ {m.r} /\ respDone' = respDone \ {m.r}
    BY <1>6 DEF RelayToDead
  <2>2. TablesType'
    BY <1>2, <2>1 DEF Before, Types, TablesType
  <2>3. Steady
    BY <2>1 DEF Steady, process
  <2>4. /\ \A r \in Requests : incoming'[r] = IF r = m.r THEN None ELSE incoming[r]
        /\ \A r \in Requests : outgoing'[r] = IF r = m.r THEN None ELSE outgoing[r]
    BY <2>1 DEF Before, Types, TablesType
  <2>5. \A r \in bodyDone' \cup respDone' : incoming'[r] # None
    BY <2>1, <2>4 DEF Before, Local, Entries, Types, TablesType
  <2>6. bodyDone' \cap respDone' = {}
    BY <2>1 DEF Before, Local, Entries
  <2>7. Entries'
    BY <2>3, <2>4, <2>5, <2>6, SteadyEntries DEF Before, Local
  <2>8. TablesKnown'
    BY <2>1, <2>4, SteadyKnown DEF Before, Local, Types
  <2>9. Queued' /\ EventsType'
    BY <2>1, <2>3, SameQueued DEF Before, Local
  <2>10. Upright' /\ Minds'
    BY <2>1 DEF Before, Local, Upright, Minds, process
  <2> QED
    BY <2>1, <2>2, <2>7, <2>8, <2>9, <2>10
       DEF Local, LocalType, Before, Types, HostType, ProcessType, process
<1>7. CASE RelayContinuation
  <2> DEFINE c == Target(m)
  <2>1. /\ Via(m) # "none"
        /\ \E w \in Writers(c) : cart' = [cart EXCEPT ![c].writer = w]
        /\ Give(c, m) /\ UNCHANGED <<up, peers, maxSeq, unrouted, events, troubles>>
    BY <1>7 DEF RelayContinuation
  <2>2. c \in Cartridges /\ (Via(m) = "incoming" => incoming[m.r] # None)
    BY <1>2, <2>1, Targeted, HostAssumption DEF HostAssumption
  <2>3. /\ Steady /\ Upright' /\ Minds' /\ ProcessType' /\ Queued' /\ EventsType' /\ HostType'
    BY <1>2, <2>1, <2>2, Written
  <2>4. \/ UNCHANGED <<incoming, outgoing, bodyDone, respDone, released>>
        \/ Via(m) = "incoming" /\ BodyEnded(m.r)
        \/ CallEnded(m.r)
    BY <1>7 DEF RelayContinuation
  <2>5. /\ TablesType'
        /\ \A r \in Requests : incoming'[r] = incoming[r] \/ incoming'[r] = None
        /\ \A r \in Requests : outgoing'[r] = outgoing[r] \/ outgoing'[r] = None
        /\ \A r \in bodyDone' \cup respDone' : incoming'[r] # None
        /\ bodyDone' \cap respDone' = {}
    <3>1. CASE UNCHANGED <<incoming, outgoing, bodyDone, respDone>>
      BY <2>1, <3>1 DEF Before, Types, TablesType, Local, Entries
    <3>2. CASE BodyEnded(m.r) /\ m.r \in respDone
      <4>1. /\ respDone' = respDone \ {m.r} /\ incoming' = [incoming EXCEPT ![m.r] = None]
            /\ UNCHANGED <<outgoing, bodyDone>>
        BY <3>2 DEF BodyEnded
      <4> QED
        BY <1>2, <2>1, <3>2, <4>1 DEF Before, Types, TablesType, Local, Entries
    <3>3. CASE BodyEnded(m.r) /\ m.r \notin respDone /\ Via(m) = "incoming"
      <4>1. /\ bodyDone' = bodyDone \cup {m.r}
            /\ UNCHANGED <<incoming, outgoing, respDone>>
        BY <3>3 DEF BodyEnded
      <4> QED
        BY <1>2, <2>1, <2>2, <3>3, <4>1 DEF Before, Types, TablesType, Local, Entries
    <3>4. CASE CallEnded(m.r)
      <4>1. /\ outgoing' = [outgoing EXCEPT ![m.r] = None]
            /\ UNCHANGED <<incoming, bodyDone, respDone>>
        BY <3>4 DEF CallEnded
      <4> QED
        BY <1>2, <2>1, <4>1 DEF Before, Types, TablesType, Local, Entries
    <3> QED
      BY <2>4, <3>1, <3>2, <3>3, <3>4
  <2>6. Entries'
    BY <2>3, <2>5, SteadyEntries DEF Before, Local
  <2>7. TablesKnown'
    BY <2>1, <2>5, SteadyKnown DEF Before, Local, Types
  <2> QED
    BY <2>3, <2>5, <2>6, <2>7 DEF Local, LocalType
<1>8. CASE RelayCancel
  <2> DEFINE c == incoming[m.r]
  <2>1. /\ UNCHANGED <<up, incoming, outgoing, bodyDone, respDone, peers, maxSeq, unrouted, events, troubles>>
    BY <1>8 DEF RelayCancel, tables
  <2>2. c # None => c \in Cartridges
    BY <1>2 DEF Before, Types, TablesType
  <2>3. CASE UNCHANGED <<cart, process>>
    BY <2>1, <2>3, AsideLocal DEF Before, Types, TablesType, HostType
  <2>4. CASE /\ c # None /\ Give(c, m)
             /\ \E w \in Writers(c) : cart' = [cart EXCEPT ![c].writer = w]
    <3>1. /\ Steady /\ Upright' /\ Minds' /\ ProcessType' /\ Queued' /\ EventsType' /\ HostType'
      BY <1>2, <2>1, <2>2, <2>4, Written
    <3>2. Entries'
      BY <2>1, <3>1, SteadyEntries DEF Before, Local, Entries
    <3>3. TablesKnown'
      BY <2>1, SteadyKnown DEF Before, Local, Types
    <3> QED
      BY <2>1, <3>1, <3>2, <3>3 DEF Local, LocalType, Before, Types, TablesType
  <2>5. CASE c # None /\ cart' = [cart EXCEPT ![c].alive = FALSE] /\ Forget(c)
    <3>1. PICK p \in Carts : p = [cart[c] EXCEPT !.alive = FALSE] /\ p.reader = cart[c].reader
                             /\ ~p.alive /\ p.running = cart[c].running /\ p.gen = cart[c].gen
                             /\ p.writer = cart[c].writer /\ p.reason = cart[c].reason
                             /\ p.retiring = cart[c].retiring /\ p.failed = cart[c].failed
      <4>1. PICK q \in Carts : q = cart[c]
        BY <2>2, <2>5 DEF Before, Types, HostType
      <4>2. [q EXCEPT !.alive = FALSE] \in Carts
        BY DEF Carts
      <4> QED
        BY <4>1, <4>2 DEF Carts
    <3>2. /\ cart'[c] = p /\ \A d \in Cartridges : d # c => cart'[d] = cart[d]
          /\ cart' \in [Cartridges -> Carts]
      BY <2>2, <2>5, <3>1 DEF Before, Types, HostType
    <3>3. ProcessType' /\ Minds' /\ Steady
      <4>1. ProcessType' /\ Minds'
        BY <2>2, <2>5, <3>1, <3>2, Forgotten DEF Before, Local
      <4>2. \A r \in Requests : /\ Here(Handler[r]) /\ cart'[Handler[r]].alive => atHandler'[r] = atHandler[r]
                                /\ Here(Caller[r]) /\ cart'[Caller[r]].alive => atCaller'[r] = atCaller[r]
        BY <2>2, <2>5, <3>1, <3>2, Forgotten DEF Before, Local
      <4> QED
        BY <2>2, <2>5, <3>1, <3>2, <4>1, <4>2 DEF Steady
    <3>4. Upright'
      BY <3>1, <3>2 DEF Before, Local, Upright
    <3>5. Queued' /\ EventsType'
      BY <2>1, <3>3, SameQueued DEF Before, Local
    <3>6. Entries'
      BY <2>1, <3>3, SteadyEntries DEF Before, Local, Entries
    <3>7. TablesKnown'
      BY <2>1, SteadyKnown DEF Before, Local, Types
    <3> QED
      BY <2>1, <3>2, <3>3, <3>4, <3>5, <3>6, <3>7 DEF Local, LocalType, HostType, Before, Types, TablesType
  <2> QED
    BY <1>8, <2>3, <2>4, <2>5 DEF RelayCancel
<1> QED
  BY <1>3, <1>4, <1>5, <1>6, <1>7, <1>8 DEF HandleRelay

LEMMA EventLocal ==
  ASSUME Before, HostAssumption, Remembered, HandleEvent
  PROVE  Local'
<1> DEFINE e == Head(events)
<1>1. events # <<>>
  BY DEF HandleEvent, StaleEvent, CartridgeReq, CartridgeFrame, Death, FromCartridge
<1>2. /\ e \in Events /\ EventOK(e) /\ e.c \in Cartridges
      /\ e.type # "death" => /\ e.flow \in Flows /\ e.flow[1] \in Requests /\ e.seq \in Nat
  BY <1>1, HeadEvent DEF Before, Local, Queued, Events
<1>3. CASE StaleEvent
  <2>1. /\ UNCHANGED <<up, cart, incoming, outgoing, bodyDone, respDone, peers, maxSeq, unrouted,
                       process, troubles>>
        /\ events' = Tail(events)
    BY <1>3 DEF StaleEvent, tables
  <2>2. Steady
    BY <2>1 DEF Steady, process
  <2>3. Queued' /\ EventsType'
    BY <1>1, <2>1, <2>2, TailQueued DEF Before, Local
  <2>4. Entries'
    BY <2>1, <2>2, SteadyEntries DEF Before, Local, Entries
  <2>5. TablesKnown'
    BY <2>1, SteadyKnown DEF Before, Local, Types
  <2>6. Upright' /\ Minds'
    BY <2>1 DEF Before, Local, Upright, Minds, process
  <2> QED
    BY <2>1, <2>3, <2>4, <2>5, <2>6
       DEF Local, LocalType, HostType, TablesType, ProcessType, process, Before, Types
<1>4. CASE CartridgeReq
  <2> DEFINE r == e.flow[1]
  <2>1. e.type = "req" /\ Current(e)
    BY <1>4 DEF CartridgeReq, FromCartridge
  <2>2. /\ r \in Requests /\ e.c = Caller[r] /\ e.flow \in Flows /\ e.seq \in Nat /\ cart[e.c].running
        /\ cart[e.c].alive => "call" \in atCaller[r]
    BY <1>2, <2>1 DEF EventOK, Writer
  <2>3. /\ outgoing' = [outgoing EXCEPT ![r] = e.c]
        /\ peers' = IF incoming[Parent[r]] # None
                      THEN [peers EXCEPT ![Parent[r]] = @ \cup {r}] ELSE peers
        /\ maxSeq' = [maxSeq EXCEPT ![e.flow] = e.seq]
        /\ Send(toHost, Out("req", r, "call", e.seq))
        /\ events' = Tail(events)
        /\ UNCHANGED <<up, cart, incoming, bodyDone, respDone, unrouted, process, troubles>>
    BY <1>4 DEF CartridgeReq
  <2>4. TablesType'
    BY <1>2, <2>2, <2>3 DEF Before, Types, TablesType
  <2>5. Steady
    BY <2>3 DEF Steady, process
  <2>6. Queued' /\ EventsType'
    BY <1>1, <2>3, <2>5, TailQueued DEF Before, Local
  <2>7. /\ \A p \in Requests : p # r => outgoing'[p] = outgoing[p]
        /\ outgoing'[r] = e.c
        /\ \A p \in Requests : peers'[p] \subseteq peers[p] \cup {r}
    BY <2>2, <2>3 DEF Before, Types, TablesType
  <2>8. NewOutgoing(r)
    BY <1>2, <2>2, <2>3, <2>7 DEF NewOutgoing, Here, process
  <2>9. Entries'
    BY <2>3, <2>5, <2>7, <2>8, SteadyEntries DEF Before, Local, Entries
  <2>10. call'[r] = "open"
    <3>1. toHost \in Seq(Frames)
      BY DEF Before, Types, NetType
    <3>2. SentOK(toHost, "req", r, "call", e.seq)
      BY <2>2, <2>3, <3>1, Sent DEF Before, Kinds
    <3> QED
      BY <3>2 DEF SentOK
  <2>11. TablesKnown'
    <3>1. Opened \subseteq Opened' /\ r \in Opened'
      BY <2>2, <2>10 DEF Opened, Remembered
    <3>2. \A p \in Requests : peers'[p] \subseteq Opened'
      BY <2>7, <3>1 DEF Before, Local, TablesKnown
    <3>3. \A p \in Requests : incoming'[p] # None \/ outgoing'[p] # None => call'[p] # "new"
      BY <2>3, <2>7, <2>10 DEF Before, Local, TablesKnown, Remembered
    <3> QED
      BY <3>2, <3>3 DEF TablesKnown
  <2>12. Upright' /\ Minds'
    BY <2>3 DEF Before, Local, Upright, Minds, process
  <2> QED
    BY <2>3, <2>4, <2>6, <2>9, <2>11, <2>12
       DEF Local, LocalType, HostType, ProcessType, process, Before, Types
<1>5. CASE CartridgeFrame
  <2> DEFINE r == e.flow[1]
  <2>1. e.type \in {"data", "end"}
    BY <1>5 DEF CartridgeFrame, FromCartridge
  <2>2. r \in Requests /\ e.flow \in Flows /\ e.seq \in Nat
    BY <1>2, <2>1
  <2>3. /\ maxSeq' = [maxSeq EXCEPT ![e.flow] = IF Terminal(e.type) THEN -1 ELSE e.seq]
        /\ events' = Tail(events)
        /\ UNCHANGED <<up, cart, outgoing, peers, unrouted, process, troubles>>
        /\ \/ UNCHANGED <<incoming, bodyDone, respDone, released>>
           \/ ResponseEnded(r)
    BY <1>5 DEF CartridgeFrame
  <2>4. Steady
    BY <2>3 DEF Steady, process
  <2>5. maxSeq' \in [Flows -> Nat \cup {-1}]
    BY <2>2, <2>3 DEF Before, Types, TablesType
  <2>6. /\ incoming' \in [Requests -> Cartridges \cup {None}]
        /\ bodyDone' \subseteq Requests /\ respDone' \subseteq Requests
        /\ \A p \in Requests : incoming'[p] = incoming[p] \/ incoming'[p] = None
        /\ \A p \in bodyDone' \cup respDone' : incoming'[p] # None
        /\ bodyDone' \cap respDone' = {}
    <3>1. CASE UNCHANGED <<incoming, bodyDone, respDone>>
      BY <3>1 DEF Before, Types, TablesType, Local, Entries
    <3>2. CASE ResponseEnded(r) /\ r \in bodyDone
      <4>1. /\ bodyDone' = bodyDone \ {r} /\ incoming' = [incoming EXCEPT ![r] = None]
            /\ UNCHANGED respDone
        BY <3>2 DEF ResponseEnded
      <4> QED
        BY <2>2, <3>2, <4>1 DEF Before, Types, TablesType, Local, Entries
    <3>3. CASE ResponseEnded(r) /\ r \notin bodyDone
      <4>1. /\ respDone' = IF incoming[r] # None THEN respDone \cup {r} ELSE respDone
            /\ UNCHANGED <<incoming, bodyDone>>
        BY <3>3 DEF ResponseEnded
      <4> QED
        BY <2>2, <3>3, <4>1 DEF Before, Types, TablesType, Local, Entries
    <3> QED
      BY <2>3, <3>1, <3>2, <3>3
  <2>7. TablesType'
    BY <2>3, <2>5, <2>6 DEF Before, Types, TablesType
  <2>8. Queued' /\ EventsType'
    BY <1>1, <2>3, <2>4, TailQueued DEF Before, Local
  <2>9. Entries'
    BY <2>3, <2>4, <2>6, SteadyEntries DEF Before, Local
  <2>10. TablesKnown'
    BY <2>3, <2>6, SteadyKnown DEF Before, Local, Types
  <2>11. Upright' /\ Minds'
    BY <2>3 DEF Before, Local, Upright, Minds, process
  <2> QED
    BY <2>3, <2>7, <2>8, <2>9, <2>10, <2>11
       DEF Local, LocalType, HostType, ProcessType, process, Before, Types
<1>6. CASE Death
  <2>1. Bury(e.c) /\ events' = Tail(events) /\ UNCHANGED troubles
    BY <1>6 DEF Death
  <2>2. PICK s \in Seq(Events) : s = Tail(events)
    BY <1>1, HeadEvent DEF Before
  <2>3. \A i \in DOMAIN s : \E j \in DOMAIN events : s[i] = events[j]
    BY <1>1, <2>2, HeadEvent DEF Before
  <2>4. troubles' \in Nat
    BY <2>1 DEF Before, Types, HostType
  <2> QED
    BY <1>2, <2>1, <2>2, <2>3, <2>4, BuryLocal
<1> QED
  BY <1>3, <1>4, <1>5, <1>6 DEF HandleEvent

LEMMA KeptInit == HostAssumption /\ Init => Kept
<1> SUFFICES ASSUME HostAssumption, Init
             PROVE  Kept
  OBVIOUS
<1>1. Types
  <2>1. NetType
    <3>1. call \in [Requests -> {"new", "open", "over"}] /\ sent \subseteq Requests
      BY DEF Init
    <3>2. toHost \in Seq(Frames) /\ expect \in [Flows -> Nat] /\ gap \in BOOLEAN
      <4>1. toHost = <<>> /\ gap = FALSE /\ expect = [f \in Flows |-> 0]
        BY DEF Init
      <4>2. <<>> \in Seq(Frames)
        OBVIOUS
      <4>3. expect \in [Flows -> Nat]
        BY <4>1
      <4> QED
        BY <4>1, <4>2, <4>3
    <3> QED
      BY <3>1, <3>2 DEF NetType
  <2>2. HostType
    BY DEF Init, HostType, Carts, HostAssumption
  <2>3. TablesType
    BY DEF Init, TablesType
  <2>4. ProcessType /\ EventsType
    BY DEF Init, ProcessType, EventsType
  <2> QED
    BY <2>1, <2>2, <2>3, <2>4 DEF Types
<1>2. Upright
  BY DEF Init, Upright
<1>3. Minds /\ Entries
  BY DEF Init, Minds, Entries, EntryOK
<1>4. Known
  <2>1. Opened = {}
    BY DEF Init, Opened
  <2> QED
    BY <2>1, FS_EmptySet DEF Init, Known
<1>5. Addressed /\ Queued
  BY DEF Init, Addressed, Queued
<1> QED
  BY <1>1, <1>2, <1>3, <1>4, <1>5 DEF Kept

LEMMA KeptNext ==
  ASSUME Kept, HostAssumption, [Next]_vars
  PROVE  Kept' /\ NetStep
<1>1. Before /\ Queued
  BY DEF Kept, Before, Local, LocalType, Types, TablesKnown, Known
<1>2. NetStep /\ Remembered
  BY <1>1, NetNext DEF Before, NetStep
<1>3. Local'
  <2>1. CASE UNCHANGED vars
    BY <1>1, <1>2, <2>1, AsideLocal DEF vars, tables, Before, Types, TablesType, HostType
  <2>2. CASE HandleEvent
    BY <1>1, <1>2, <2>2, EventLocal
  <2>3. CASE HandleRelay
    BY <1>1, <1>2, <2>3, RelayLocal
  <2>4. ASSUME NEW r \in Requests, Others(r) \/ \E force \in BOOLEAN : Cancel(r, force)
        PROVE  Local'
    <3>1. /\ UNCHANGED <<up, cart, incoming, outgoing, bodyDone, respDone, peers, maxSeq, unrouted,
                         events, process>>
          /\ troubles' \in Nat
      <4>1. troubles \in Nat
        BY <1>1 DEF Before, Types, HostType
      <4>2. CASE Others(r)
        BY <4>1, <4>2 DEF Others, Request, Body, Grant, Answered, tables
      <4>3. CASE \E force \in BOOLEAN : Cancel(r, force)
        BY <4>1, <4>3 DEF Cancel, Trouble, tables
      <4> QED
        BY <2>4, <4>2, <4>3
    <3> QED
      BY <1>1, <1>2, <3>1, AsideLocal DEF Before, Types, TablesType
  <2>5. ASSUME NEW r \in Requests, CallPeer(r) \/ CallEnd(r) \/ Answer(r) \/ AnswerEnd(r)
        PROVE  Local'
    BY <1>1, <1>2, <2>5, EmitLocal
  <2>6. ASSUME NEW c \in Cartridges, Crash(c) \/ ReaderEnds(c) \/ Retire(c) \/ Restore(c) \/ Reap(c)
        PROVE  Local'
    BY <1>1, <1>2, <2>6, DieLocal
  <2>7. ASSUME NEW c \in Cartridges, HeartbeatTimeout(c)
        PROVE  Local'
    <3>1. Bury(c) /\ UNCHANGED events /\ troubles' \in Nat
      BY <1>1, <2>7 DEF HeartbeatTimeout, Trouble, Before, Types, HostType
    <3>2. PICK s \in Seq(Events) : s = events
      BY <1>1 DEF Before, Types, EventsType
    <3> QED
      BY <1>1, <1>2, <3>1, <3>2, BuryLocal
  <2> QED
    BY <2>1, <2>2, <2>3, <2>4, <2>5, <2>6, <2>7 DEF Next
<1> QED
  BY <1>2, <1>3 DEF Kept, Local, LocalType, Types, NetStep, TablesKnown, Known

LEMMA KeptAlways == Spec => []Kept
<1>1. Init => Kept
  BY KeptInit, HostAssumption
<1>2. Kept /\ [Next]_vars => Kept'
  BY KeptNext, HostAssumption
<1> QED
  BY <1>1, <1>2, PTL DEF Spec

\* The tables have their types, the marks are on requests that are routed and
\* never both, and a reason to die belongs to a process that runs.
THEOREM TypeCorrect == Spec => []TypeOK
<1>1. Kept => TypeOK
  <2> SUFFICES ASSUME Kept
               PROVE  TypeOK
    OBVIOUS
  <2>1. \A r \in Requests : incoming[r] \in {None, Handler[r]} /\ outgoing[r] \in {None, Caller[r]}
    BY DEF Kept, Entries, EntryOK
  <2>2. bodyDone \cup respDone \subseteq {r \in Requests : incoming[r] # None}
    BY DEF Kept, Entries, Types, TablesType
  <2>3. \A c \in Cartridges : /\ up /\ (cart[c].alive \/ cart[c].reason # "none") => cart[c].running
                              /\ cart[c].running /\ up => cart[c].reader \/ ~cart[c].alive
                              /\ cart[c].retiring => cart[c].failed
    BY DEF Kept, Upright
  <2>4. bodyDone \cap respDone = {}
    BY DEF Kept, Entries
  <2> QED
    BY <2>1, <2>2, <2>3, <2>4 DEF TypeOK, Kept, Types, NetType, TablesType, ProcessType, HostType
<1> QED
  BY <1>1, KeptAlways, PTL

\* An entry never outlives the process it was made for (handle_cartridge_death
\* sweeps both tables, the generation in the events keeps the next process
\* from inheriting any).
THEOREM EntriesAreOfTheLiving == Spec => []RoutesAreOfTheLiving
<1>1. Kept => RoutesAreOfTheLiving
  BY DEF Kept, Entries, EntryOK, RoutesAreOfTheLiving
<1> QED
  BY <1>1, KeptAlways, PTL
------------------------------------------------------------------------------
(***************************************************************************)
(* Frames reach their end                                                  *)
(***************************************************************************)

\* Sent to the end it is meant for, a frame does not go astray.
LEMMA GivenRight ==
  ASSUME NEW c \in Cartridges, NEW m \in Frames, Give(c, m),
         m.to = "handler" => Handler[m.r] = c,
         m.to = "handler" /\ cart[c].alive => (m.type = "req" \/ "req" \in atHandler[m.r]),
         m.to = "caller" => Handler[m.r] # c,
         m.to = "caller" /\ cart[c].alive => "call" \in atCaller[m.r]
  PROVE  UNCHANGED astray
<1>1. m.to \in {"handler", "caller"}
  BY DEF Frames
<1> QED
  BY <1>1 DEF Give, process

LEMMA RightNext ==
  ASSUME Kept, OneEndHere, [Next]_vars
  PROVE  UNCHANGED astray
<1> DEFINE m == Head(toHost)
<1>1. Before
  BY DEF Kept, Before, Local, LocalType, Types, TablesKnown, Known
<1>2. ASSUME toHost # <<>>
      PROVE  /\ m \in Frames /\ m.r \in Requests /\ FrameOK(m) /\ EntryOK(m.r)
             /\ m.to \in {"handler", "caller"}
  BY <1>1, <1>2, TailOK DEF Frames, Before, Local, Entries
<1>3. ASSUME RelayReq, ~UNCHANGED astray
      PROVE  FALSE
  <2>1. toHost # <<>> /\ m.type = "req"
    BY <1>3 DEF RelayReq, FromRelay
  <2>2. Give(Handler[m.r], m)
    BY <1>3 DEF RelayReq, process
  <2>3. m.to = "handler" /\ Handler[m.r] \in Cartridges
    BY <1>2, <2>1 DEF FrameOK, Here
  <2> QED
    BY <1>2, <1>3, <2>1, <2>2, <2>3, GivenRight
<1>4. CASE RelayContinuation
  <2>1. toHost # <<>> /\ Via(m) # "none" /\ Give(Target(m), m)
    BY <1>4 DEF RelayContinuation, FromRelay
  <2>2. /\ Target(m) \in Cartridges
        /\ Via(m) = "incoming" => Target(m) = incoming[m.r] /\ incoming[m.r] = Handler[m.r]
        /\ Via(m) = "outgoing" => Target(m) = outgoing[m.r] /\ outgoing[m.r] = Caller[m.r]
        /\ Via(m) \in {"incoming", "outgoing"}
    BY <1>1, <1>2, <2>1, Targeted
  <2>3. m.to = "handler" => Via(m) = "incoming"
    BY <1>2, <2>1, <2>2 DEF FrameOK, OneEndHere, Here
  <2>4. m.to = "caller" => Via(m) = "outgoing"
    BY <1>2, <2>1, <2>2 DEF FrameOK, OneEndHere, Here
  <2>5. m.to = "handler" => /\ Handler[m.r] = Target(m)
                            /\ cart[Target(m)].alive => "req" \in atHandler[m.r]
    BY <1>2, <2>1, <2>2, <2>3, HostAssumption DEF EntryOK, HostAssumption
  <2>6. m.to = "caller" => /\ Handler[m.r] # Target(m)
                           /\ cart[Target(m)].alive => "call" \in atCaller[m.r]
    BY <1>2, <2>1, <2>2, <2>4, HostAssumption DEF EntryOK, HostAssumption
  <2> QED
    BY <1>2, <2>1, <2>2, <2>5, <2>6, GivenRight
<1>5. ASSUME RelayCancel, ~UNCHANGED astray
      PROVE  FALSE
  <2>1. toHost # <<>> /\ m.type = "cancel"
    BY <1>5 DEF RelayCancel, FromRelay
  <2>2. incoming[m.r] # None /\ Give(incoming[m.r], m)
    BY <1>5 DEF RelayCancel, process, Forget
  <2>3. incoming[m.r] \in Cartridges
    BY <1>1, <1>2, <2>1, <2>2 DEF Before, Types, TablesType
  <2>4. m.to = "handler" /\ incoming[m.r] = Handler[m.r]
        /\ (cart[Handler[m.r]].alive => "req" \in atHandler[m.r])
    BY <1>2, <2>1, <2>2 DEF FrameOK, EntryOK
  <2> QED
    BY <1>2, <1>5, <2>1, <2>2, <2>3, <2>4, GivenRight
<1>6. CASE HandleEvent
  BY <1>6 DEF HandleEvent, StaleEvent, CartridgeReq, CartridgeFrame, Death, Bury, Forget, process
<1>7. CASE HandleRelay
  BY <1>3, <1>4, <1>5, <1>7 DEF HandleRelay, RelayReqFails, Stop, RelayUnrouted, RelayToDead, process
<1>8. ASSUME NEW r \in Requests,
             \/ Others(r) \/ \E force \in BOOLEAN : Cancel(r, force)
             \/ CallPeer(r) \/ CallEnd(r) \/ Answer(r) \/ AnswerEnd(r)
      PROVE  UNCHANGED astray
  BY <1>8 DEF Others, Request, Body, Grant, Answered, Cancel, CallPeer, CallEnd, Answer, AnswerEnd, process
<1>9. ASSUME NEW c \in Cartridges,
             \/ Crash(c) \/ ReaderEnds(c) \/ HeartbeatTimeout(c)
             \/ Retire(c) \/ Restore(c) \/ Reap(c)
      PROVE  UNCHANGED astray
  BY <1>9 DEF Crash, ReaderEnds, HeartbeatTimeout, Bury, Retire, Restore, Reap, Forget, process
<1>10. CASE UNCHANGED vars
  BY <1>10 DEF vars, process
<1> QED
  BY <1>6, <1>7, <1>8, <1>9, <1>10 DEF Next

\* A frame reaches the process it is meant for or none, where no request has
\* both its ends in this host.
THEOREM FramesReachTheirEnd == ASSUME OneEndHere PROVE Spec => []RightEnd
<1>1. Init => RightEnd
  BY DEF Init, RightEnd
<1>2. Kept /\ RightEnd /\ [Next]_vars => RightEnd'
  BY RightNext DEF RightEnd
<1> QED
  BY <1>1, <1>2, KeptAlways, PTL DEF Spec
------------------------------------------------------------------------------
(***************************************************************************)
(* The numbers of a flow                                                   *)
(***************************************************************************)

\* What is left of the queue, d taken from its head; a flow is silenced or
\* carried on.
Silenced(f, s) == /\ \A i \in DOMAIN s : s[i].type # "death" /\ s[i].flow = f => ~Current(s[i])'
                  /\ ~Open(f)'
Carried(f, s, d) ==
  /\ \A i \in DOMAIN s : s[i].type # "death" /\ s[i].flow = f => (Current(s[i])' => Current(s[i]))
  /\ \A i \in DOMAIN s : s[i].type # "death" /\ s[i].flow = f => (Current(s[i]) => Current(s[i])')
  /\ Open(f)' => Open(f) \/ wrote[f] = 0
  /\ \/ /\ maxSeq'[f] = maxSeq[f]
        /\ d = 1 => ~(Fresh(1) /\ events[1].type # "death" /\ events[1].flow = f)
     \/ /\ d = 1 /\ Fresh(1) /\ events[1].type # "death" /\ events[1].flow = f
        /\ maxSeq'[f] = events[1].seq

LEMMA CarryNumbers ==
  ASSUME Before, Numbers, Unbroken, UNCHANGED wrote, NEW s \in Seq(Events), events' = s,
         NEW d \in {0, 1}, Len(s) + d = Len(events), \A i \in DOMAIN s : s[i] = events[i + d],
         maxSeq' \in [Flows -> Nat \cup {-1}],
         \A f \in Flows : Silenced(f, s) \/ Carried(f, s, d),
         \A i \in DOMAIN s : s[i].type = "req" /\ call[s[i].flow[1]] = "new" => call'[s[i].flow[1]] = "new"
  PROVE  Numbers' /\ Unbroken'
<1>1. events \in Seq(Events) /\ wrote \in [Flows -> Nat] /\ maxSeq \in [Flows -> Nat \cup {-1}]
  BY DEF Before, Types, EventsType, ProcessType, TablesType
<1>2. \A i \in DOMAIN s : i + d \in DOMAIN events /\ i \in Nat
  BY <1>1
<1>3. \A i \in DOMAIN s : s[i].type # "death" => s[i].flow \in Flows /\ s[i].seq \in Nat
  BY DEF Events
<1>4. \A i \in DOMAIN s : s[i].type # "death" => EventNumber(s[i])
  BY <1>2 DEF Numbers
<1>5. \A i, j \in DOMAIN s : /\ i < j /\ s[i].type # "death" /\ s[j].type # "death"
                             /\ s[i].flow = s[j].flow
                             => s[i].seq < s[j].seq
  <2> SUFFICES ASSUME NEW i \in DOMAIN s, NEW j \in DOMAIN s, i < j,
                      s[i].type # "death", s[j].type # "death", s[i].flow = s[j].flow
               PROVE  s[i].seq < s[j].seq
    OBVIOUS
  <2>1. i + d < j + d /\ i + d \in DOMAIN events /\ j + d \in DOMAIN events
    BY <1>2
  <2> QED
    BY <2>1 DEF Numbers
<1>6. \A i \in DOMAIN s : d = 1 /\ s[i].type # "death" /\ events[1].type # "death"
                          /\ events[1].flow = s[i].flow => events[1].seq < s[i].seq
  <2> SUFFICES ASSUME NEW i \in DOMAIN s, d = 1, s[i].type # "death", events[1].type # "death",
                      events[1].flow = s[i].flow
               PROVE  events[1].seq < s[i].seq
    OBVIOUS
  <2>1. i + 1 \in DOMAIN events /\ 1 \in DOMAIN events /\ 1 < i + 1 /\ s[i] = events[i + 1]
    BY <1>1, <1>2
  <2> QED
    BY <2>1 DEF Numbers
<1>7. ASSUME NEW i \in DOMAIN s, s[i].type # "death"
      PROVE  EventNumber(s[i])'
  <2> DEFINE f == s[i].flow
  <2>1. f \in Flows /\ s[i].seq \in Nat /\ EventNumber(s[i])
    BY <1>3, <1>4, <1>7
  <2>2. s[i].seq < wrote'[f]
    BY <2>1 DEF EventNumber
  <2>3. Current(s[i])' => maxSeq'[f] < s[i].seq
    BY <1>6, <1>7, <2>1 DEF Silenced, Carried, EventNumber
  <2>4. s[i].type = "req" => s[i].seq = 0 /\ call'[f[1]] = "new"
    BY <2>1 DEF EventNumber
  <2>5. s[i].type = "end" => s[i].seq + 1 = wrote'[f] /\ ~Open(f)'
    BY <2>1 DEF Silenced, Carried, EventNumber
  <2> QED
    BY <2>2, <2>3, <2>4, <2>5 DEF EventNumber, Current, Open, Busy
<1>8. Numbers'
  BY <1>5, <1>7 DEF Numbers, EventNumber, Current, Open, Busy
\* A number that had to wait still does, where the flow is carried on.
<1>9. ASSUME NEW f \in Flows, Carried(f, s, d), NEW n \in Nat, maxSeq'[f] < n,
             NEW k \in 1 .. Len(s) + 1, Waits(f, n, k + d)
      PROVE  Waits(f, n, k)'
  <2>1. PICK j \in DOMAIN events : /\ j < k + d /\ Fresh(j) /\ events[j].type # "death"
                                   /\ events[j].flow = f /\ events[j].seq = n
    BY <1>9 DEF Waits
  <2>2. ~(d = 1 /\ j = 1)
    BY <1>1, <1>9, <2>1 DEF Carried
  <2>3. j \in Nat /\ j >= 1 /\ j <= Len(events) /\ k \in Nat /\ d \in Nat
    BY <1>1, <2>1
  <2>4. j - d \in 1 .. Len(s) /\ j - d < k /\ (j - d) + d = j
    BY <2>1, <2>2, <2>3
  <2>5. PICK i \in DOMAIN s : i < k /\ s[i] = events[j]
    BY <2>4
  <2>6. Current(s[i])'
    BY <1>9, <2>1, <2>5 DEF Carried, Fresh
  <2> QED
    BY <2>1, <2>5, <2>6 DEF Waits, Fresh, Current
<1>10. ASSUME NEW f \in Flows, Carried(f, s, d)
       PROVE  maxSeq[f] <= maxSeq'[f]
  <2>1. CASE maxSeq'[f] = maxSeq[f]
    BY <1>1, <2>1
  <2>2. CASE d = 1 /\ Fresh(1) /\ events[1].type # "death" /\ events[1].flow = f
             /\ maxSeq'[f] = events[1].seq
    <3>1. 1 \in DOMAIN events
      BY <1>1, <2>2
    <3>2. EventNumber(events[1]) /\ events[1] \in Events
      BY <1>1, <2>2, <3>1 DEF Numbers
    <3>3. maxSeq[f] < events[1].seq /\ events[1].seq \in Nat
      BY <2>2, <3>2 DEF EventNumber, Fresh, Events
    <3> QED
      BY <1>1, <2>2, <3>3
  <2> QED
    BY <1>10, <2>1, <2>2 DEF Carried
<1>11. ASSUME NEW f \in Flows, NEW k \in DOMAIN s, s[k].type # "death", s[k].flow = f,
              Current(s[k])', NEW n \in Nat, maxSeq'[f] < n, n < s[k].seq
       PROVE  Waits(f, n, k)'
  <2>1. Carried(f, s, d)
    BY <1>11 DEF Silenced
  <2>2. k + d \in DOMAIN events /\ s[k] = events[k + d] /\ Fresh(k + d)
    BY <1>2, <1>11, <2>1 DEF Carried, Fresh
  <2>3. maxSeq[f] < n
    BY <1>1, <1>10, <1>11, <2>1
  <2>4. Waits(f, n, k + d)
    BY <1>11, <2>2, <2>3 DEF Unbroken
  <2> QED
    BY <1>9, <1>11, <2>1, <2>4
<1>12. ASSUME NEW f \in Flows, Open(f)', NEW n \in Nat, maxSeq'[f] < n, n < wrote[f]
       PROVE  Waits(f, n, Len(s) + 1)'
  <2>1. Carried(f, s, d)
    BY <1>12 DEF Silenced
  <2>2. Open(f)
    BY <1>1, <1>12, <2>1 DEF Carried
  <2>3. maxSeq[f] < n
    BY <1>1, <1>10, <1>12, <2>1
  <2>4. Waits(f, n, Len(events) + 1)
    BY <1>12, <2>2, <2>3 DEF Unbroken
  <2>5. Len(events) + 1 = (Len(s) + 1) + d
    OBVIOUS
  <2> QED
    BY <1>9, <1>12, <2>1, <2>4, <2>5
<1>13. Unbroken'
  BY <1>3, <1>11, <1>12 DEF Unbroken, Fresh, Current
<1> QED
  BY <1>8, <1>13

\* A process writes to flow, or leaves its death behind what it wrote.
LEMMA WriteNumbers ==
  ASSUME Before, Numbers, Unbroken, NEW e \in Events, events' = Append(events, e),
         UNCHANGED <<maxSeq, call>>, \A c \in Cartridges : cart'[c].gen = cart[c].gen,
         wrote' \in [Flows -> Nat],
         e.type # "death" =>
           /\ wrote' = [wrote EXCEPT ![e.flow] = @ + 1]
           /\ e.seq = wrote[e.flow] /\ maxSeq[e.flow] < wrote[e.flow] /\ Current(e)
           /\ Open(e.flow) \/ wrote[e.flow] = 0
           /\ e.type = "req" => wrote[e.flow] = 0 /\ call[e.flow[1]] = "new"
           /\ e.type = "end" => ~Open(e.flow)',
         e.type = "death" => UNCHANGED wrote,
         \A f \in Flows : Open(f)' => Open(f) \/ (e.type # "death" /\ f = e.flow)
  PROVE  Numbers' /\ Unbroken'
<1>1. /\ events \in Seq(Events) /\ wrote \in [Flows -> Nat] /\ maxSeq \in [Flows -> Nat \cup {-1}]
      /\ \A i \in DOMAIN events : events[i] \in Events
  BY DEF Before, Types, EventsType, ProcessType, TablesType
<1>2. PICK s \in Seq(Events) : s = Append(events, e)
  BY <1>1, AppendProperties
<1>3. /\ Len(s) = Len(events) + 1 /\ s[Len(s)] = e
      /\ \A i \in DOMAIN events : s[i] = events[i] /\ i \in DOMAIN s /\ i < Len(s)
      /\ \A i \in DOMAIN s : i \in DOMAIN events \/ i = Len(s)
      /\ Len(s) \in DOMAIN s /\ Len(s) \in Nat
  BY <1>1, <1>2
<1>4. events' = s
  BY <1>2
<1>5. \A x \in Events : x.c \in Cartridges /\ (Current(x)' <=> Current(x))
  BY DEF Events, Current
<1>6. \A x \in Events : x.type # "death" => x.flow \in Flows /\ x.seq \in Nat /\ x.flow[1] \in Requests
  BY DEF Events, Flows
<1>7. \A f \in Flows : wrote[f] <= wrote'[f]
                       /\ (wrote'[f] = wrote[f] \/ (e.type # "death" /\ f = e.flow))
  <2>1. CASE e.type = "death"
    BY <1>1, <2>1
  <2>2. CASE e.type # "death"
    BY <1>1, <2>2
  <2> QED
    BY <2>1, <2>2
\* Who writes is not done yet.
<1>8. \A i \in DOMAIN events : e.type # "death" /\ events[i].type # "death" /\ events[i].flow = e.flow
                               => events[i].type # "end" /\ events[i].seq < e.seq
  <2> SUFFICES ASSUME NEW i \in DOMAIN events, e.type # "death", events[i].type # "death",
                      events[i].flow = e.flow
               PROVE  events[i].type # "end" /\ events[i].seq < e.seq
    OBVIOUS
  <2>1. EventNumber(events[i]) /\ events[i] \in Events
    BY <1>1 DEF Numbers
  <2>2. events[i].seq < wrote[e.flow] /\ events[i].seq \in Nat
    BY <1>6, <2>1 DEF EventNumber
  <2>3. Open(e.flow)
    BY <2>2
  <2> QED
    BY <2>1, <2>2, <2>3 DEF EventNumber
<1>9. ASSUME NEW x \in Events, x.type # "death", EventNumber(x),
             x.type = "end" => e.type = "death" \/ x.flow # e.flow
      PROVE  EventNumber(x)'
  <2>1. x.flow \in Flows /\ x.seq \in Nat
    BY <1>6, <1>9
  <2>2. x.seq < wrote'[x.flow]
    BY <1>1, <1>7, <1>9, <2>1 DEF EventNumber
  <2>3. x.type = "end" => x.seq + 1 = wrote'[x.flow] /\ ~Open(x.flow)'
    BY <1>7, <1>9, <2>1 DEF EventNumber
  <2> QED
    BY <1>5, <1>9, <2>2, <2>3 DEF EventNumber
<1>10. e.type # "death" => EventNumber(e)'
  <2> SUFFICES ASSUME e.type # "death"
               PROVE  EventNumber(e)'
    OBVIOUS
  <2>1. e.flow \in Flows /\ e.seq \in Nat
    BY <1>6
  <2>2. wrote'[e.flow] = e.seq + 1
    BY <1>1, <2>1
  <2> QED
    BY <1>1, <2>1, <2>2 DEF EventNumber
<1>11. ASSUME NEW i \in DOMAIN s, s[i].type # "death"
       PROVE  EventNumber(s[i])'
  <2>1. CASE i = Len(s)
    BY <1>3, <1>10, <1>11, <2>1 DEF EventNumber, Current, Open, Busy
  <2>2. CASE i \in DOMAIN events
    <3>1. PICK x \in Events : x = events[i] /\ EventNumber(x)
      BY <1>1, <1>3, <1>11, <2>2 DEF Numbers
    <3>2. EventNumber(x)'
      BY <1>3, <1>8, <1>9, <1>11, <2>2, <3>1
    <3> QED
      BY <1>3, <2>2, <3>1, <3>2 DEF EventNumber, Current, Open, Busy
  <2> QED
    BY <1>3, <2>1, <2>2
<1>12. \A i, j \in DOMAIN s : /\ i < j /\ s[i].type # "death" /\ s[j].type # "death"
                              /\ s[i].flow = s[j].flow
                              => s[i].seq < s[j].seq
  <2> SUFFICES ASSUME NEW i \in DOMAIN s, NEW j \in DOMAIN s, i < j,
                      s[i].type # "death", s[j].type # "death", s[i].flow = s[j].flow
               PROVE  s[i].seq < s[j].seq
    OBVIOUS
  <2>1. i \in DOMAIN events
    BY <1>1, <1>2, <1>3
  <2> QED
    BY <1>3, <1>8, <2>1 DEF Numbers
<1>13. Numbers'
  BY <1>4, <1>11, <1>12 DEF Numbers, EventNumber, Current, Open, Busy
<1>14. ASSUME NEW f \in Flows, NEW n \in Nat, NEW k \in Nat, Waits(f, n, k)
       PROVE  Waits(f, n, k)' /\ (k = Len(s) => Waits(f, n, k + 1)')
  <2>1. PICK j \in DOMAIN events : /\ j < k /\ Fresh(j) /\ events[j].type # "death"
                                   /\ events[j].flow = f /\ events[j].seq = n
    BY <1>14 DEF Waits
  <2>2. PICK x \in Events : j \in DOMAIN s /\ s[j] = x /\ events[j] = x
    BY <1>1, <1>3, <2>1
  <2>3. Current(x)'
    BY <1>5, <2>1, <2>2 DEF Fresh
  <2>4. j < k + 1
    BY <1>1, <2>1
  <2> QED
    BY <1>4, <2>1, <2>2, <2>3, <2>4 DEF Waits, Fresh, Current
\* What e itself, or a frame after it, has to wait for.
<1>15. ASSUME e.type # "death", NEW n \in Nat, maxSeq[e.flow] < n, n < wrote[e.flow]
       PROVE  Waits(e.flow, n, Len(s))
  <2>1. e.flow \in Flows
    BY <1>6, <1>15
  <2> QED
    BY <1>1, <1>3, <1>15, <2>1 DEF Unbroken
<1>16. ASSUME NEW f \in Flows, NEW k \in DOMAIN s, s[k].type # "death", s[k].flow = f,
              Current(s[k])', NEW n \in Nat, maxSeq'[f] < n, n < s[k].seq
       PROVE  Waits(f, n, k)'
  <2>1. CASE k \in DOMAIN events
    <3>1. PICK x \in Events : s[k] = x /\ events[k] = x
      BY <1>1, <1>3, <2>1
    <3>2. Current(x)' /\ k \in Nat
      BY <1>16, <3>1 DEF Current
    <3>3. Fresh(k)
      BY <1>5, <3>1, <3>2 DEF Fresh
    <3>4. Waits(f, n, k)
      BY <1>16, <2>1, <3>1, <3>3 DEF Unbroken
    <3> QED
      BY <1>14, <3>2, <3>4
  <2>2. CASE k = Len(s)
    <3>1. f = e.flow /\ e.type # "death" /\ n < wrote[e.flow]
      BY <1>3, <1>16, <2>2
    <3>2. Waits(f, n, k)
      BY <1>15, <1>16, <2>2, <3>1
    <3> QED
      BY <1>3, <1>14, <2>2, <3>2
  <2> QED
    BY <1>3, <2>1, <2>2
<1>17. ASSUME NEW f \in Flows, Open(f)', NEW n \in Nat, maxSeq'[f] < n, n < wrote'[f]
       PROVE  Waits(f, n, Len(s) + 1)'
  <2>1. CASE e.type # "death" /\ f = e.flow
    <3>1. wrote'[f] = wrote[f] + 1 /\ e.seq = wrote[f] /\ Current(e)' /\ wrote[f] \in Nat
      BY <1>1, <1>5, <2>1
    <3>2. CASE n < wrote[f]
      <4>1. Waits(f, n, Len(s))
        BY <1>15, <1>17, <2>1, <3>2
      <4> QED
        BY <1>3, <1>14, <4>1
    <3>3. CASE n = wrote[f]
      <4>1. s[Len(s)] = e /\ Len(s) < Len(s) + 1
        BY <1>3
      <4>2. Current(s[Len(s)])'
        BY <3>1, <4>1 DEF Current
      <4> QED
        BY <1>3, <1>4, <2>1, <3>1, <3>3, <4>1, <4>2 DEF Waits, Fresh, Current
    <3> QED
      BY <1>17, <3>1, <3>2, <3>3
  <2>2. CASE ~(e.type # "death" /\ f = e.flow)
    <3>1. Open(f) /\ wrote'[f] = wrote[f]
      BY <1>7, <1>17, <2>2
    <3>2. Waits(f, n, Len(s))
      BY <1>3, <1>17, <3>1 DEF Unbroken
    <3> QED
      BY <1>3, <1>14, <3>2
  <2> QED
    BY <2>1, <2>2
<1>18. Unbroken'
  BY <1>4, <1>6, <1>16, <1>17 DEF Unbroken, Fresh, Current
<1> QED
  BY <1>13, <1>18

\* The REQs for the host after a step: those before it, d taken from the head,
\* and perhaps a new one.
ReqsOf(d) == \A i \in DOMAIN toHost' : toHost'[i].type = "req" =>
               \/ i + d \in DOMAIN toHost /\ toHost'[i] = toHost[i + d]
               \/ i = Len(toHost') /\ call[toHost'[i].r] = "new"
Left(q, d) == \A i \in DOMAIN q : i + d \in DOMAIN toHost /\ q[i] = toHost[i + d]

LEMMA Requeued ==
  ASSUME NEW d \in {0, 1}, NEW q \in Seq(Frames), Left(q, d),
         NEW s \in Seq(Frames), \A i \in DOMAIN s : s[i].type # "req", toHost' = q \o s
  PROVE  ReqsOf(d)
<1> DEFINE h == q \o s
<1>1. \A i \in DOMAIN h : /\ h[i] = IF i <= Len(q) THEN q[i] ELSE s[i - Len(q)]
                          /\ IF i <= Len(q) THEN i \in DOMAIN q ELSE i - Len(q) \in DOMAIN s
  BY ConcatProperties
<1> HIDE DEF h
<1>2. \A i \in DOMAIN h : h[i].type = "req" => i \in DOMAIN q /\ h[i] = q[i]
  BY <1>1
<1>3. toHost' = h
  BY DEF h
<1> QED
  BY <1>2, <1>3 DEF ReqsOf, Left

LEMMA RequeuedOne ==
  ASSUME NEW d \in {0, 1}, NEW q \in Seq(Frames), Left(q, d), NEW m \in Frames,
         m.type = "req" => call[m.r] = "new", toHost' = Append(q, m) \/ toHost' = q
  PROVE  ReqsOf(d)
<1>1. CASE toHost' = q
  BY <1>1 DEF ReqsOf, Left
<1>2. CASE toHost' = Append(q, m)
  <2>1. \A i \in DOMAIN Append(q, m) : (i \in DOMAIN q /\ Append(q, m)[i] = q[i])
                                       \/ (i = Len(Append(q, m)) /\ Append(q, m)[i] = m)
    OBVIOUS
  <2> QED
    BY <1>2, <2>1 DEF ReqsOf, Left
<1> QED
  BY <1>1, <1>2

\* Both ways the queue can be left.
LEMMA LeftOver ==
  ASSUME Types
  PROVE  /\ toHost \in Seq(Frames) /\ Left(toHost, 0)
         /\ toHost # <<>> => Tail(toHost) \in Seq(Frames) /\ Left(Tail(toHost), 1)
<1>1. toHost \in Seq(Frames)
  BY DEF Types, NetType
<1> QED
  BY <1>1, HeadTailProperties DEF Left

LEMMA SentReqs ==
  ASSUME Types, NEW d \in {0, 1}, NEW q \in Seq(Frames), Left(q, d), NEW type \in Kinds,
         NEW r \in Requests, NEW kind \in {"call", "answer"}, NEW seq \in Nat,
         SentOK(q, type, r, kind, seq), type = "req" => call[r] = "new"
  PROVE  ReqsOf(d)
<1>1. CASE toHost' = q
  <2>1. toHost' = q \o <<>> /\ <<>> \in Seq(Frames) /\ DOMAIN <<>> = {}
    BY <1>1, ConcatEmptySeq
  <2> QED
    BY <2>1, Requeued
<1>2. CASE toHost' # q
  <2>1. PICK m \in Frames : Arrived(m, q, type, r, kind)
    BY <1>2 DEF SentOK
  <2> QED
    BY <2>1, RequeuedOne DEF Arrived
<1> QED
  BY <1>1, <1>2

LEMMA OnceStep ==
  ASSUME Types, Once, Addressed, Remembered, NEW d \in {0, 1}, ReqsOf(d),
         toHost' \in Seq(Frames), wrote' \in [Flows -> Nat],
         \A f \in Flows : wrote[f] <= wrote'[f],
         \A r \in Requests : wrote'[<<r, "answer">>] # wrote[<<r, "answer">>] => "req" \in atHandler[r],
         \A r \in Requests : "req" \in atHandler'[r] /\ "req" \notin atHandler[r] =>
           d = 1 /\ toHost # <<>> /\ toHost[1].type = "req" /\ toHost[1].r = r,
         \A r \in Requests : Here(Caller[r]) /\ wrote'[<<r, "call">>] = 0 /\ call[r] = "new"
                             => call'[r] = "new"
  PROVE  Once'
<1>1. toHost \in Seq(Frames) /\ wrote \in [Flows -> Nat]
  BY DEF Types, NetType, ProcessType
<1>2. \A r \in Requests : <<r, "answer">> \in Flows /\ <<r, "call">> \in Flows
  BY DEF Flows
<1>3. \A i \in DOMAIN toHost : toHost[i].r \in Requests /\ call[toHost[i].r] # "new"
  <2>1. \A m \in Frames : m.r \in Requests
    BY DEF Frames
  <2>2. \A i \in DOMAIN toHost : toHost[i] \in Frames
    BY <1>1
  <2> QED
    BY <2>1, <2>2 DEF Addressed, FrameOK
<1>4. \A i \in DOMAIN toHost' : toHost'[i].r \in Requests
  <2>1. \A m \in Frames : m.r \in Requests
    BY DEF Frames
  <2>2. \A i \in DOMAIN toHost' : toHost'[i] \in Frames
    OBVIOUS
  <2> QED
    BY <2>1, <2>2
<1>5. ASSUME NEW i \in DOMAIN toHost', toHost'[i].type = "req"
      PROVE  wrote'[<<toHost'[i].r, "answer">>] = 0 /\ "req" \notin atHandler'[toHost'[i].r]
  <2>1. PICK r \in Requests : r = toHost'[i].r
    BY <1>4, <1>5
  <2>2. CASE i + d \in DOMAIN toHost /\ toHost'[i] = toHost[i + d]
    <3>1. wrote[<<r, "answer">>] = 0 /\ "req" \notin atHandler[r]
      BY <1>5, <2>1, <2>2 DEF Once
    <3>2. ~(d = 1 /\ toHost # <<>> /\ toHost[1].type = "req" /\ toHost[1].r = r)
      <4> SUFFICES ASSUME d = 1, toHost # <<>>, toHost[1].type = "req", toHost[1].r = r
                   PROVE  FALSE
        OBVIOUS
      <4>1. 1 \in DOMAIN toHost /\ i + 1 # 1
        BY <1>1
      <4> QED
        BY <1>5, <2>1, <2>2, <4>1 DEF Once
    <3> QED
      BY <2>1, <3>1, <3>2
  <2>3. CASE i = Len(toHost') /\ call[toHost'[i].r] = "new"
    <3>1. wrote[<<r, "answer">>] = 0 /\ "req" \notin atHandler[r]
      BY <2>1, <2>3 DEF Once
    <3>2. ~(toHost # <<>> /\ toHost[1].r = r)
      BY <1>1, <1>3, <2>1, <2>3
    <3> QED
      BY <2>1, <3>1, <3>2
  <2> QED
    BY <1>5, <2>2, <2>3 DEF ReqsOf
<1>6. ASSUME NEW i \in DOMAIN toHost', toHost'[i].type = "req",
             NEW j \in DOMAIN toHost', toHost'[j].type = "req", toHost'[j].r = toHost'[i].r
      PROVE  i = j
  <2>1. i \in Nat /\ j \in Nat /\ d \in Nat
    OBVIOUS
  <2>2. CASE /\ i + d \in DOMAIN toHost /\ toHost'[i] = toHost[i + d]
             /\ j + d \in DOMAIN toHost /\ toHost'[j] = toHost[j + d]
    <3>1. i + d = j + d
      BY <1>6, <2>2 DEF Once
    <3> QED
      BY <2>1, <3>1
  <2>3. CASE i = Len(toHost') /\ call[toHost'[i].r] = "new"
    BY <1>3, <1>6, <2>3 DEF ReqsOf
  <2>4. CASE j = Len(toHost') /\ call[toHost'[j].r] = "new"
    BY <1>3, <1>6, <2>4 DEF ReqsOf
  <2> QED
    BY <1>6, <2>2, <2>3, <2>4 DEF ReqsOf
<1>7. ASSUME NEW r \in Requests, call'[r] = "new"
      PROVE  wrote'[<<r, "answer">>] = 0 /\ "req" \notin atHandler'[r]
  <2>1. call[r] = "new"
    BY <1>7 DEF Remembered
  <2>2. wrote[<<r, "answer">>] = 0 /\ "req" \notin atHandler[r]
    BY <2>1 DEF Once
  <2>3. ~(toHost # <<>> /\ toHost[1].r = r)
    BY <1>1, <1>3, <2>1
  <2> QED
    BY <2>2, <2>3
<1>8. ASSUME NEW r \in Requests, Here(Caller[r]), wrote'[<<r, "call">>] = 0
      PROVE  call'[r] = "new"
  <2>1. wrote[<<r, "call">>] = 0
    <3>1. PICK f \in Flows : f = <<r, "call">>
      BY <1>2
    <3>2. wrote[f] \in Nat /\ wrote[f] <= wrote'[f] /\ wrote'[f] = 0
      BY <1>1, <1>8, <3>1
    <3> QED
      BY <3>1, <3>2
  <2>2. call[r] = "new"
    BY <1>8, <2>1 DEF Once
  <2> QED
    BY <1>8, <2>2
<1> QED
  BY <1>5, <1>6, <1>7, <1>8 DEF Once

LEMMA ServedStep ==
  ASSUME Types, Served, wrote' \in [Flows -> Nat], \A f \in Flows : wrote[f] <= wrote'[f],
         \A r \in Requests : Busy(r)' => \/ incoming'[r] = Handler[r]
                                         \/ Busy(r) /\ incoming'[r] = incoming[r],
         \A r \in Requests : Busy(r)' => Busy(r) \/ wrote[<<r, "answer">>] = 0,
         \A r \in respDone' : r \in Requests /\ (r \in respDone \/ (wrote[<<r, "answer">>] > 0 /\ ~Busy(r)))
  PROVE  Served'
<1>1. \A r \in Requests : <<r, "answer">> \in Flows
  BY DEF Flows
<1>2. wrote \in [Flows -> Nat]
  BY DEF Types, ProcessType
<1>3. \A r \in Requests : Busy(r)' => incoming'[r] = Handler[r]
  BY DEF Served
<1>4. ASSUME NEW r \in respDone'
      PROVE  wrote'[<<r, "answer">>] > 0 /\ ~Busy(r)'
  <2>1. r \in Requests /\ wrote[<<r, "answer">>] > 0 /\ ~Busy(r)
    BY DEF Served
  <2> QED
    BY <1>1, <1>2, <2>1
<1> QED
  BY <1>3, <1>4 DEF Served

\* Nobody learns of a request, and nobody writes.
Quiet == /\ UNCHANGED wrote
         /\ \A r \in Requests : /\ "req" \in atHandler'[r] => "req" \in atHandler[r]
                                /\ Busy(r)' => Busy(r)
                                /\ "call" \in atCaller'[r] => "call" \in atCaller[r]

LEMMA QuietOpen ==
  ASSUME Quiet, NEW f \in Flows, Open(f)'
  PROVE  Open(f)
  BY DEF Quiet, Open, Flows

\* A step that leaves the flows alone.
LEMMA QuietNumbered ==
  ASSUME Before, Numbered, NetStep, Quiet, UNCHANGED <<events, maxSeq, expect, gap>>,
         \A c \in Cartridges : cart'[c].gen = cart[c].gen,
         NEW d \in {0, 1}, ReqsOf(d),
         \A r \in Requests : Here(Caller[r]) /\ call[r] = "new" => call'[r] = "new",
         \A r \in Requests : Busy(r)' => incoming'[r] = incoming[r],
         respDone' \subseteq respDone
  PROVE  Numbered'
<1>1. wrote \in [Flows -> Nat] /\ wrote' = wrote /\ events \in Seq(Events)
      /\ maxSeq \in [Flows -> Nat \cup {-1}] /\ respDone \subseteq Requests
  BY DEF Quiet, Before, Types, ProcessType, EventsType, TablesType
<1>2. Once'
  <2>1. \A f \in Flows : wrote[f] <= wrote'[f]
    BY <1>1
  <2> QED
    BY <1>1, <2>1, OnceStep DEF Quiet, Before, Numbered, NetStep, NetType
<1>3. Numbers' /\ Unbroken'
  <2>1. PICK s \in Seq(Events) : s = events
    BY <1>1
  <2>2. \A i \in DOMAIN s : s[i] \in Events /\ s[i].c \in Cartridges /\ (Current(s[i])' <=> Current(s[i]))
    BY DEF Events, Current
  <2>3. \A f \in Flows : Carried(f, s, 0)
    BY <2>2, QuietOpen DEF Carried
  <2>4. ASSUME NEW i \in DOMAIN s, s[i].type = "req", call[s[i].flow[1]] = "new"
        PROVE  call'[s[i].flow[1]] = "new"
    <3>1. PICK e \in Events : e = s[i] /\ EventOK(e)
      BY <2>1 DEF Before, Local, Queued
    <3>2. e.flow[1] \in Requests /\ Here(Caller[e.flow[1]])
      BY <2>4, <3>1 DEF EventOK, Writer, Here, Events, Flows
    <3> QED
      BY <2>4, <3>1, <3>2
  <2>5. Len(s) + 0 = Len(events) /\ \A i \in DOMAIN s : s[i] = events[i + 0]
    BY <2>1
  <2> QED
    BY <1>1, <2>1, <2>3, <2>4, <2>5, CarryNumbers DEF Numbered
<1>4. Agreed'
  BY <1>1 DEF Numbered, Agreed
<1>5. Served'
  <2>1. \A f \in Flows : wrote[f] <= wrote'[f]
    BY <1>1
  <2> QED
    BY <1>1, <2>1, ServedStep DEF Quiet, Before, Numbered
<1> QED
  BY <1>2, <1>3, <1>4, <1>5 DEF Numbered

LEMMA OutsideNumbered ==
  ASSUME Before, Numbered, NetStep, HostAssumption, NEW r \in Requests,
         Others(r) \/ \E force \in BOOLEAN : Cancel(r, force)
  PROVE  Numbered'
<1>1. /\ UNCHANGED <<events, maxSeq, expect, gap, cart, incoming, respDone, atHandler, atCaller, wrote>>
  BY DEF Others, Request, Body, Grant, Answered, Cancel, tables, process
<1>2. Quiet
  BY <1>1 DEF Quiet, Busy
<1>3. toHost \in Seq(Frames) /\ Left(toHost, 0)
  BY LeftOver DEF Before
<1>4. ASSUME Others(r)
      PROVE  /\ ReqsOf(0)
             /\ \A p \in Requests : Here(Caller[p]) /\ call[p] = "new" => call'[p] = "new"
  <2>1. CASE Request(r)
    <3>1. PICK m \in Frames : m = Frame("req", r, "handler")
      BY DEF Frames, Frame, Kinds
    <3>2. toHost' = Append(toHost, m) /\ call[m.r] = "new" /\ ~Here(Caller[r])
          /\ call' = [call EXCEPT ![r] = "open"]
      BY <2>1, <3>1 DEF Request, Frame
    <3>3. ReqsOf(0)
      BY <1>3, <3>1, <3>2, RequeuedOne
    <3> QED
      BY <3>2, <3>3 DEF Before, Types, NetType
  <2>2. CASE Body(r)
    <3>1. PICK m \in Frames : m = Frame("end", r, "handler")
      BY DEF Frames, Frame, Kinds
    <3>2. toHost' = Append(toHost, m) /\ m.type # "req" /\ UNCHANGED call
      BY <2>2, <3>1 DEF Body, Frame
    <3> QED
      BY <1>3, <3>2, RequeuedOne
  <2>3. CASE Grant(r)
    <3>1. PICK to \in {"handler", "caller"} : to = IF Here(Handler[r]) THEN "handler" ELSE "caller"
      OBVIOUS
    <3>2. PICK m \in Frames : m = Frame("grant", r, to)
      BY DEF Frames, Frame, Kinds
    <3>3. toHost' = Append(toHost, m) /\ m.type # "req" /\ UNCHANGED call
      BY <2>3, <3>1, <3>2 DEF Grant, Frame
    <3> QED
      BY <1>3, <3>3, RequeuedOne
  <2>4. CASE Answered(r)
    <3>1. PICK m \in Frames : m = Frame("end", r, "caller")
      BY DEF Frames, Frame, Kinds
    <3>2. toHost' = Append(toHost, m) /\ m.type # "req" /\ call' = [call EXCEPT ![r] = "over"] /\ Live(r)
      BY <2>4, <3>1 DEF Answered, Frame
    <3>3. ReqsOf(0)
      BY <1>3, <3>2, RequeuedOne
    <3> QED
      BY <3>2, <3>3 DEF Before, Types, NetType, Live
  <2> QED
    BY <1>4, <2>1, <2>2, <2>3, <2>4 DEF Others
<1>5. ASSUME NEW force \in BOOLEAN, Cancel(r, force)
      PROVE  /\ ReqsOf(0)
             /\ \A p \in Requests : Here(Caller[p]) /\ call[p] = "new" => call'[p] = "new"
  <2> DEFINE all == {r} \cup {p \in Requests : Parent[p] = r /\ Live(p)}
             ends == {p \in all : Here(Handler[p])}
             order == SetToSeq(ends)
             frames == [i \in DOMAIN order |-> CancelFrame(order[i], force)]
  <2>1. /\ call' = [p \in Requests |-> IF p \in all THEN "over" ELSE call[p]]
        /\ toHost' = toHost \o frames
        /\ \A p \in all : p \in Requests /\ Live(p)
    BY <1>5 DEF Cancel
  <2>2. ends \subseteq Opened
    BY <2>1 DEF Opened, Live
  <2>3. order \in Seq(ends)
    BY <2>2, FS_Subset, Ordered DEF Before, Known
  <2> HIDE DEF order
  <2>4. \A p \in ends : CancelFrame(p, force) \in Frames /\ CancelFrame(p, force).type # "req"
    BY <2>1 DEF CancelFrame, Frames, Kinds
  <2>5. /\ frames \in Seq(Frames)
        /\ \A i \in DOMAIN frames : frames[i] = CancelFrame(order[i], force) /\ order[i] \in ends
    BY <2>3, <2>4
  <2> HIDE DEF frames, ends
  <2>6. \A i \in DOMAIN frames : frames[i].type # "req"
    BY <2>4, <2>5
  <2>7. PICK s \in Seq(Frames) : s = frames /\ \A i \in DOMAIN s : s[i].type # "req"
    BY <2>5, <2>6
  <2>8. ReqsOf(0)
    BY <1>3, <2>1, <2>7, Requeued
  <2> QED
    BY <2>1, <2>8 DEF Live
<1>6. /\ ReqsOf(0)
      /\ \A p \in Requests : Here(Caller[p]) /\ call[p] = "new" => call'[p] = "new"
  BY <1>4, <1>5
<1> QED
  BY <1>1, <1>2, <1>6, QuietNumbered

LEMMA EmitNumbered ==
  ASSUME Before, Numbered, NetStep, HostAssumption, NEW r \in Requests,
         CallPeer(r) \/ CallEnd(r) \/ Answer(r) \/ AnswerEnd(r)
  PROVE  Numbered'
<1>1. /\ UNCHANGED <<cart, incoming, respDone, maxSeq, call, expect, gap, toHost>>
  BY DEF CallPeer, CallEnd, Answer, AnswerEnd, tables, net
<1>2. <<r, "call">> \in Flows /\ <<r, "answer">> \in Flows
  BY DEF Flows
<1>3. Steady
  BY EmitLocal DEF NetStep
<1>4. Writer(<<r, "call">>) = Caller[r] /\ Writer(<<r, "answer">>) = Handler[r]
  BY DEF Writer
<1>5. atHandler \in [Requests -> SUBSET Knowledge] /\ atCaller \in [Requests -> SUBSET Knowledge]
      /\ wrote \in [Flows -> Nat]
  BY DEF Before, Types, ProcessType
<1>6. /\ atHandler[r] # {} => Handler[r] \in Cartridges
      /\ atCaller[r] # {} => Caller[r] \in Cartridges
  BY DEF Before, Local, Minds, Here
\* Each of the four writes a frame of one flow, that is open or new.
<1>7. PICK flow \in {<<r, "call">>, <<r, "answer">>}, type \in {"req", "data", "end"}, c \in Cartridges :
        /\ Emit(c, type, flow) /\ c = Writer(flow)
        /\ flow = <<r, "answer">> => Busy(r) /\ UNCHANGED atCaller
        /\ flow = <<r, "call">> => UNCHANGED atHandler
        /\ flow = <<r, "answer">> => \/ UNCHANGED atHandler /\ type # "end"
                                     \/ atHandler' = [atHandler EXCEPT ![r] = @ \cup {"answered"}]
        /\ \/ type = "req" /\ flow = <<r, "call">> /\ wrote[flow] = 0 /\ Here(Caller[r])
              /\ atCaller' = [atCaller EXCEPT ![r] = {"call"}]
           \/ type # "req" /\ UNCHANGED atCaller /\ Open(flow)
        /\ type = "end" /\ flow = <<r, "call">> => wrote[flow] = 1
  <2>1. CASE CallPeer(r)
    <3>1. /\ Emit(Caller[r], "req", <<r, "call">>) /\ Here(Caller[r]) /\ wrote[<<r, "call">>] = 0
          /\ atCaller' = [atCaller EXCEPT ![r] = {"call"}] /\ UNCHANGED atHandler
      BY <2>1 DEF CallPeer
    <3> QED
      BY <1>4, <3>1 DEF Here
  <2>2. CASE CallEnd(r)
    <3>1. /\ Emit(Caller[r], "end", <<r, "call">>) /\ Caller[r] \in Cartridges
          /\ UNCHANGED <<atHandler, atCaller>> /\ wrote[<<r, "call">>] = 1
      BY <1>6, <2>2 DEF CallEnd
    <3>2. Open(<<r, "call">>)
      BY <2>2 DEF CallEnd, Open
    <3> QED
      BY <1>4, <3>1, <3>2
  <2>3. CASE Answer(r)
    <3>1. /\ Emit(Handler[r], "data", <<r, "answer">>) /\ Handler[r] \in Cartridges
          /\ UNCHANGED <<atHandler, atCaller>> /\ Busy(r)
      BY <1>6, <2>3 DEF Answer, MayAnswer, Busy
    <3>2. Open(<<r, "answer">>)
      BY <3>1 DEF Open
    <3> QED
      BY <1>4, <3>1, <3>2
  <2>4. CASE AnswerEnd(r)
    <3>1. /\ Emit(Handler[r], "end", <<r, "answer">>) /\ Handler[r] \in Cartridges
          /\ UNCHANGED atCaller /\ Busy(r)
          /\ atHandler' = [atHandler EXCEPT ![r] = @ \cup {"answered"}]
      BY <1>6, <2>4 DEF AnswerEnd, MayAnswer, Busy
    <3>2. Open(<<r, "answer">>)
      BY <3>1 DEF Open
    <3> QED
      BY <1>4, <3>1, <3>2
  <2> QED
    BY <2>1, <2>2, <2>3, <2>4
<1>8. flow \in Flows /\ flow[1] = r /\ flow[2] \in {"call", "answer"}
      /\ (flow[2] = "call" <=> flow = <<r, "call">>)
  BY <1>2, <1>7
<1>9. type = "req" => flow[2] = "call" /\ "call" \in atCaller'[flow[1]]
  BY <1>5, <1>7, <1>8
<1>10. /\ wrote' \in [Flows -> Nat] /\ wrote' = [wrote EXCEPT ![flow] = @ + 1]
       /\ \E e \in Events : /\ events' = Append(events, e) /\ e.c = c /\ e.type = type
                            /\ e.flow = flow /\ e.seq = wrote[flow] /\ e.gen = cart[c].gen
  BY <1>1, <1>3, <1>7, <1>8, <1>9, Emitted
<1>11. PICK e \in Events : /\ events' = Append(events, e) /\ e.c = c /\ e.type = type
                           /\ e.flow = flow /\ e.seq = wrote[flow] /\ e.gen = cart[c].gen
  BY <1>10
<1>12. \A f \in Flows : wrote[f] <= wrote'[f] /\ (f # flow => wrote'[f] = wrote[f])
  BY <1>5, <1>8, <1>10
<1>13. \A p \in Requests : /\ p # r => atHandler'[p] = atHandler[p] /\ atCaller'[p] = atCaller[p]
                           /\ "req" \in atHandler'[p] => "req" \in atHandler[p]
                           /\ "answered" \in atHandler[p] => "answered" \in atHandler'[p]
  BY <1>5, <1>7, <1>8
<1>14. \A p \in Requests : Busy(p)' => Busy(p)
  BY <1>13 DEF Busy
<1>15. ASSUME NEW f \in Flows, Open(f)', f # flow
       PROVE  Open(f)
  <2>1. f[1] \in Requests /\ f = <<f[1], f[2]>> /\ f[2] \in {"call", "answer"}
    BY DEF Flows
  <2>2. CASE f[2] = "answer"
    BY <1>14, <1>15, <2>1, <2>2 DEF Open
  <2>3. CASE f[2] = "call"
    <3>1. "call" \in atCaller'[f[1]] /\ wrote[f] = 1
      BY <1>12, <1>15, <2>3 DEF Open
    <3>2. "call" \in atCaller[f[1]]
      BY <1>7, <1>8, <1>13, <1>15, <2>1, <2>3, <3>1
    <3> QED
      BY <2>3, <3>1, <3>2 DEF Open
  <2> QED
    BY <2>1, <2>2, <2>3
<1>16. Numbers' /\ Unbroken'
  <2>1. maxSeq[flow] < wrote[flow]
    BY <1>8 DEF Numbered, Agreed
  <2>2. Current(e)
    BY <1>11 DEF Current
  <2>3. Open(flow) \/ wrote[flow] = 0
    BY <1>7
  <2>4. type = "req" => wrote[flow] = 0 /\ call[flow[1]] = "new"
    BY <1>7, <1>8 DEF Numbered, Once
  <2>5. type = "end" => ~Open(flow)'
    <3>1. CASE flow = <<r, "call">>
      <4>1. type = "end" => wrote'[flow] = 2
        BY <1>5, <1>7, <1>8, <1>10, <3>1
      <4> QED
        BY <1>8, <3>1, <4>1 DEF Open
    <3>2. CASE flow = <<r, "answer">>
      <4>1. type = "end" => "answered" \in atHandler'[r]
        BY <1>5, <1>7, <3>2
      <4> QED
        BY <1>8, <3>2, <4>1 DEF Open, Busy
    <3> QED
      BY <1>7, <3>1, <3>2
  <2>6. e.type # "death"
    BY <1>11
  <2>7. Numbers /\ Unbroken /\ \A d \in Cartridges : cart'[d].gen = cart[d].gen
    BY <1>1 DEF Numbered
  <2> QED
    BY <1>1, <1>10, <1>11, <1>15, <2>1, <2>2, <2>3, <2>4, <2>5, <2>6, <2>7, WriteNumbers
<1>17. Once'
  <2>1. ReqsOf(0)
    BY <1>1, LeftOver DEF ReqsOf, Left, Before
  <2>2. \A p \in Requests : wrote'[<<p, "answer">>] # wrote[<<p, "answer">>] => "req" \in atHandler[p]
    <3>1. \A p \in Requests : <<p, "answer">> \in Flows
      BY DEF Flows
    <3>2. \A p \in Requests : <<p, "answer">> = flow => p = r /\ flow = <<r, "answer">>
      BY <1>7
    <3> QED
      BY <1>7, <1>12, <3>1, <3>2 DEF Busy
  <2> QED
    BY <1>1, <1>10, <1>12, <1>13, <2>1, <2>2, OnceStep DEF Numbered, NetStep, NetType, Before
<1>18. Agreed'
  <2>1. ASSUME NEW f \in Flows
        PROVE  expect'[f] = maxSeq'[f] + 1 /\ maxSeq'[f] < wrote'[f]
    <3>1. /\ expect[f] = maxSeq[f] + 1 /\ maxSeq[f] < wrote[f] /\ wrote[f] <= wrote'[f]
          /\ wrote'[f] \in Nat /\ wrote[f] \in Nat /\ maxSeq[f] \in Nat \cup {-1}
      BY <1>5, <1>10, <1>12 DEF Numbered, Agreed, Before, Types, TablesType
    <3> QED
      BY <1>1, <3>1
  <2> QED
    BY <1>1, <2>1 DEF Numbered, Agreed
<1>19. Served'
  BY <1>1, <1>10, <1>12, <1>14, ServedStep DEF Numbered, Before, Types, TablesType
<1> QED
  BY <1>16, <1>17, <1>18, <1>19 DEF Numbered

LEMMA DieNumbered ==
  ASSUME Before, Numbered, NetStep, NEW c \in Cartridges,
         Crash(c) \/ ReaderEnds(c) \/ Retire(c) \/ Restore(c) \/ Reap(c)
  PROVE  Numbered'
<1>1. UNCHANGED <<incoming, respDone, maxSeq, call, expect, gap, toHost, wrote>>
  BY DEF Crash, ReaderEnds, Retire, Restore, Reap, tables, net, process, Forget
<1>2. Steady
  BY DieLocal DEF NetStep
<1>3. \A d \in Cartridges : cart'[d].gen = cart[d].gen
  BY <1>2 DEF Steady
<1>4. UNCHANGED process \/ Forget(c)
  BY DEF Crash, ReaderEnds, Retire, Restore, Reap
<1>5. Quiet
  BY <1>4 DEF Quiet, Busy, process, Forget
<1>6. ReqsOf(0)
  BY <1>1, LeftOver DEF ReqsOf, Left, Before
<1>7. CASE UNCHANGED events
  BY <1>1, <1>3, <1>5, <1>6, <1>7, QuietNumbered
<1>8. CASE ReaderEnds(c)
  <2>1. PICK e \in Events : e = [c |-> c, gen |-> cart[c].gen, type |-> "death"]
    BY DEF Events, Before, Types, HostType, Carts
  <2>2. events' = Append(events, e) /\ e.type = "death"
    BY <1>8, <2>1 DEF ReaderEnds
  <2>3. wrote' \in [Flows -> Nat] /\ wrote \in [Flows -> Nat]
    BY <1>1 DEF Before, Types, ProcessType
  <2>4. Numbers' /\ Unbroken'
    BY <1>1, <1>3, <1>5, <2>2, <2>3, QuietOpen, WriteNumbers DEF Numbered
  <2>5. \A f \in Flows : wrote[f] <= wrote'[f]
    BY <1>1, <2>3
  <2>6. Once'
    BY <1>1, <1>5, <1>6, <2>3, <2>5, OnceStep DEF Numbered, NetStep, NetType, Before, Quiet
  <2>7. Served'
    BY <1>1, <1>5, <2>3, <2>5, ServedStep DEF Numbered, Before, Types, TablesType, Quiet
  <2> QED
    BY <1>1, <2>4, <2>6, <2>7 DEF Numbered, Agreed
<1> QED
  BY <1>7, <1>8 DEF Crash, Retire, Restore, Reap

\* The frame the loop takes is the one the slave waits for.
LEMMA HeadNumber ==
  ASSUME Before, Numbered, events # <<>>, NEW e \in Events, e = Head(events),
         e.type # "death", Current(e)
  PROVE  /\ EventNumber(e) /\ e.flow \in Flows /\ e.seq \in Nat
         /\ maxSeq[e.flow] + 1 = e.seq /\ expect[e.flow] = e.seq /\ e.seq < wrote[e.flow]
<1>1. e = events[1] /\ 1 \in DOMAIN events
  BY HeadEvent DEF Before
<1>2. e.flow \in Flows /\ e.seq \in Nat
  BY DEF Events
<1>3. maxSeq[e.flow] \in Nat \cup {-1}
  BY <1>2 DEF Before, Types, TablesType
<1>4. EventNumber(e) /\ maxSeq[e.flow] < e.seq /\ e.seq < wrote[e.flow]
  BY <1>1 DEF Numbered, Numbers, EventNumber
<1>5. ASSUME maxSeq[e.flow] + 1 # e.seq
      PROVE  FALSE
  <2>1. PICK n \in Nat : n = maxSeq[e.flow] + 1
    BY <1>3
  <2>2. maxSeq[e.flow] < n /\ n < e.seq
    BY <1>2, <1>3, <1>4, <1>5, <2>1
  <2>3. Waits(e.flow, n, 1)
    BY <1>1, <2>2 DEF Numbered, Unbroken, Fresh
  <2>4. PICK j \in DOMAIN events : j < 1
    BY <2>3 DEF Waits
  <2> QED
    BY <2>4 DEF Before, Types, EventsType
<1>6. expect[e.flow] = maxSeq[e.flow] + 1
  BY <1>2 DEF Numbered, Agreed
<1> QED
  BY <1>2, <1>4, <1>5, <1>6

\* The loop sends on what a process has written.
LEMMA FrameNumbered ==
  ASSUME Before, Numbered, NetStep, events # <<>>, NEW e \in Events, e = Head(events),
         e.type # "death", Current(e), EventOK(e), UNCHANGED <<cart, process>>, events' = Tail(events),
         maxSeq' = [maxSeq EXCEPT ![e.flow] = IF Terminal(e.type) THEN -1 ELSE e.seq],
         SentOK(toHost, e.type, e.flow[1], e.flow[2], e.seq)
  PROVE  Once' /\ Numbers' /\ Unbroken' /\ Agreed'
<1>1. /\ EventNumber(e) /\ e.flow \in Flows /\ e.seq \in Nat
      /\ maxSeq[e.flow] + 1 = e.seq /\ expect[e.flow] = e.seq /\ e.seq < wrote[e.flow]
  BY HeadNumber
<1>2. /\ maxSeq \in [Flows -> Nat \cup {-1}] /\ wrote \in [Flows -> Nat] /\ wrote' = wrote
      /\ expect \in [Flows -> Nat]
  BY DEF Before, Types, TablesType, ProcessType, NetType, process
<1>3. PICK r \in Requests, kind \in {"call", "answer"} : e.flow = <<r, kind>>
  BY <1>1 DEF Flows
<1>4. e.flow[1] = r /\ e.flow[2] = kind /\ SentOK(toHost, e.type, r, kind, e.seq)
  BY <1>3
<1>5. e.type \in {"req", "data", "end"} /\ e.type \in Kinds
  BY DEF Events, Kinds
<1>6. /\ e.type = "req" => call[r] = "new" /\ kind = "call"
      /\ \A p \in Requests : call[p] = "new" /\ call'[p] # "new" => e.type = "req" /\ p = r
  BY <1>1, <1>4 DEF EventNumber, EventOK, SentOK
<1>7. /\ \A f \in Flows : f # e.flow => maxSeq'[f] = maxSeq[f]
      /\ maxSeq'[e.flow] = IF Terminal(e.type) THEN -1 ELSE e.seq
      /\ maxSeq' \in [Flows -> Nat \cup {-1}]
  BY <1>1, <1>2
<1>8. Quiet
  BY DEF Quiet, process, Busy
<1>9. Once'
  <2>1. toHost \in Seq(Frames) /\ Left(toHost, 0)
    BY LeftOver DEF Before
  <2>2. ReqsOf(0)
    BY <1>1, <1>4, <1>5, <1>6, <2>1, SentReqs DEF Before
  <2>3. \A p \in Requests : Here(Caller[p]) /\ wrote'[<<p, "call">>] = 0 /\ call[p] = "new"
                            => call'[p] = "new"
    <3> SUFFICES ASSUME NEW p \in Requests, wrote'[<<p, "call">>] = 0, call[p] = "new", call'[p] # "new"
                 PROVE  FALSE
      OBVIOUS
    <3>1. e.flow = <<p, "call">>
      BY <1>3, <1>6
    <3>2. wrote[e.flow] = 0
      BY <1>2, <3>1
    <3> QED
      BY <1>1, <3>2
  <2>4. \A f \in Flows : wrote[f] <= wrote'[f]
    BY <1>2
  <2> QED
    BY <1>2, <1>8, <2>2, <2>3, <2>4, OnceStep DEF Numbered, NetStep, NetType, Before, Quiet
<1>10. Numbers' /\ Unbroken'
  <2>1. PICK s \in Seq(Events) : /\ s = Tail(events)
                                 /\ \A i \in DOMAIN s : s[i] = events[i + 1] /\ i + 1 \in DOMAIN events
    BY HeadEvent DEF Before
  <2>2. events[1] = e /\ 1 \in DOMAIN events /\ Fresh(1) /\ Len(s) + 1 = Len(events)
    BY <2>1, HeadEvent DEF Before, Fresh, Types, EventsType
  <2>3. \A i \in DOMAIN s : /\ s[i] \in Events
                            /\ s[i].type # "death" => EventNumber(s[i])
                            /\ s[i].type # "death" /\ s[i].flow = e.flow => e.seq < s[i].seq
    <3> SUFFICES ASSUME NEW i \in DOMAIN s
                 PROVE  /\ s[i] \in Events
                        /\ s[i].type # "death" => EventNumber(s[i])
                        /\ s[i].type # "death" /\ s[i].flow = e.flow => e.seq < s[i].seq
      OBVIOUS
    <3>1. i + 1 \in DOMAIN events /\ 1 < i + 1 /\ s[i] = events[i + 1]
      BY <2>1
    <3> QED
      BY <2>2, <3>1 DEF Numbered, Numbers
  <2>4. ASSUME NEW f \in Flows, Terminal(e.type), f = e.flow
        PROVE  Silenced(f, s)
    <3>1. e.type = "end" /\ e.seq + 1 = wrote[f] /\ ~Open(f)
      BY <1>1, <1>5, <2>4 DEF EventNumber, Terminal
    <3>2. ~Open(f)'
      BY <1>8, <3>1, QuietOpen
    <3>3. \A i \in DOMAIN s : s[i].type # "death" => s[i].flow # f
      <4> SUFFICES ASSUME NEW i \in DOMAIN s, s[i].type # "death", s[i].flow = f
                   PROVE  FALSE
        OBVIOUS
      <4>1. s[i].seq \in Nat /\ e.seq < s[i].seq /\ s[i].seq < wrote[f]
        BY <2>3, <2>4 DEF EventNumber, Events
      <4> QED
        BY <1>1, <1>2, <3>1, <4>1
    <3> QED
      BY <3>2, <3>3 DEF Silenced
  <2>5. ASSUME NEW f \in Flows, ~(Terminal(e.type) /\ f = e.flow)
        PROVE  Carried(f, s, 1)
    <3>1. \A i \in DOMAIN s : Current(s[i])' <=> Current(s[i])
      BY DEF Current
    <3>2. Open(f)' => Open(f)
      BY <1>8, QuietOpen
    <3>3. \/ maxSeq'[f] = maxSeq[f] /\ ~(Fresh(1) /\ events[1].type # "death" /\ events[1].flow = f)
          \/ /\ Fresh(1) /\ events[1].type # "death" /\ events[1].flow = f
             /\ maxSeq'[f] = events[1].seq
      BY <1>7, <2>2, <2>5
    <3> QED
      BY <3>1, <3>2, <3>3 DEF Carried
  <2>6. ASSUME NEW i \in DOMAIN s, s[i].type = "req", call[s[i].flow[1]] = "new"
        PROVE  call'[s[i].flow[1]] = "new"
    <3>1. PICK x \in Events : x = s[i] /\ EventOK(x) /\ EventNumber(x)
      BY <2>1, <2>3, <2>6 DEF Before, Local, Queued
    <3>2. x.flow[1] \in Requests /\ x.flow = <<x.flow[1], "call">> /\ x.seq = 0
      BY <2>6, <3>1 DEF EventOK, EventNumber, Events, Flows
    <3>3. ~(e.type = "req" /\ x.flow[1] = r)
      <4> SUFFICES ASSUME e.type = "req", x.flow[1] = r
                   PROVE  FALSE
        OBVIOUS
      <4>1. x.flow = e.flow
        BY <1>3, <1>6, <3>2
      <4>2. e.seq < x.seq
        BY <2>3, <2>6, <3>1, <4>1
      <4> QED
        BY <1>1, <3>2, <4>2
    <3> QED
      BY <1>6, <2>6, <3>1, <3>2, <3>3
  <2>7. \A f \in Flows : Silenced(f, s) \/ Carried(f, s, 1)
    BY <2>4, <2>5
  <2> QED
    BY <1>2, <1>7, <2>1, <2>2, <2>6, <2>7, CarryNumbers DEF Numbered
<1>11. Agreed'
  <2>1. /\ \A f \in Flows : f # e.flow => expect'[f] = expect[f]
        /\ expect'[e.flow] = IF Terminal(e.type) THEN 0 ELSE e.seq + 1
        /\ ~gap'
    BY <1>1, <1>2, <1>3, <1>4 DEF SentOK, Numbered, Agreed
  <2>2. ASSUME NEW f \in Flows
        PROVE  expect'[f] = maxSeq'[f] + 1 /\ maxSeq'[f] < wrote'[f]
    <3>1. expect[f] = maxSeq[f] + 1 /\ maxSeq[f] < wrote[f] /\ wrote[f] \in Nat
      BY <1>2 DEF Numbered, Agreed
    <3>2. CASE f = e.flow
      BY <1>1, <1>2, <1>7, <2>1, <3>1, <3>2
    <3> QED
      BY <1>2, <1>7, <2>1, <3>1, <3>2
  <2> QED
    BY <2>1, <2>2 DEF Agreed
<1> QED
  BY <1>9, <1>10, <1>11

LEMMA BuryNumbered ==
  ASSUME Before, Numbered, NetStep, NEW c \in Cartridges, Bury(c),
         NEW s \in Seq(Events), events' = s, NEW d \in {0, 1}, Len(s) + d = Len(events),
         \A i \in DOMAIN s : s[i] = events[i + d] /\ i + d \in DOMAIN events,
         d = 1 => events[1].type = "death"
  PROVE  Numbered'
<1>1. /\ cart'[c].gen = cart[c].gen + 1 /\ cart[c].gen \in Nat
      /\ \A x \in Cartridges : x # c => cart'[x] = cart[x]
  BY Buried
<1>2. Forget(c)
  BY DEF Bury
<1>3. /\ \A r \in Requests : Handler[r] = c => atHandler'[r] = {}
      /\ \A r \in Requests : Caller[r] = c => atCaller'[r] = {}
      /\ Quiet
  BY <1>2 DEF Forget, Quiet, Busy
<1>4. /\ wrote \in [Flows -> Nat] /\ wrote' = wrote /\ maxSeq \in [Flows -> Nat \cup {-1}]
      /\ respDone \subseteq Requests
  BY <1>3 DEF Quiet, Before, Types, ProcessType, TablesType
<1>5. /\ \A r \in Calls(c) : r \in Requests /\ Caller[r] = c
      /\ \A r \in Jobs(c) : r \in Requests /\ Handler[r] = c
  BY HostAssumption DEF Calls, Jobs, Before, Local, Entries, EntryOK, HostAssumption
<1> DEFINE flows == (Calls(c) \X {"call"}) \cup (Jobs(c) \X {"answer"})
<1>6. /\ \A f \in flows : f \in Flows /\ Writer(f) = c
      /\ maxSeq' = [f \in Flows |-> IF f \in flows THEN -1 ELSE maxSeq[f]]
      /\ expect' = [f \in Flows |-> IF f \in flows THEN 0 ELSE expect[f]]
      /\ gap' = (gap \/ \E f \in flows : NextSeq(f) # expect[f])
      /\ call' = [r \in Requests |-> IF r \in Jobs(c) /\ Live(r) THEN "over" ELSE call[r]]
      /\ incoming' = [r \in Requests |-> IF r \in Jobs(c) THEN None ELSE incoming[r]]
      /\ respDone' = respDone \ Jobs(c)
      /\ toHost' = toHost \o Notices("err", Calls(c), "handler") \o Notices("err", Jobs(c), "caller")
  BY <1>5 DEF Bury, Flows, Writer
<1> HIDE DEF flows
<1>7. \A r \in Requests : call[r] = "new" => call'[r] = "new"
  BY <1>6 DEF Live
<1>8. Once'
  <2>1. PICK s1 \in Seq(Frames) : s1 = Notices("err", Calls(c), "handler")
                                  /\ \A i \in DOMAIN s1 : s1[i].type = "err"
    BY <1>5, Noticed DEF Before, Known, Kinds
  <2>2. PICK s2 \in Seq(Frames) : s2 = Notices("err", Jobs(c), "caller")
                                  /\ \A i \in DOMAIN s2 : s2[i].type = "err"
    BY <1>5, Noticed DEF Before, Known, Kinds
  <2>3. PICK q \in Seq(Frames) : q = toHost /\ Left(q, 0)
    BY LeftOver DEF Before
  <2>4. toHost' = q \o (s1 \o s2) /\ s1 \o s2 \in Seq(Frames)
    <3>1. toHost' = (q \o s1) \o s2
      BY <1>6, <2>1, <2>2, <2>3
    <3>2. (q \o s1) \o s2 = q \o (s1 \o s2)
      BY ConcatAssociative
    <3>3. s1 \o s2 \in Seq(Frames)
      BY ConcatProperties
    <3> QED
      BY <3>1, <3>2, <3>3
  <2>5. \A i \in DOMAIN (s1 \o s2) :
          /\ (s1 \o s2)[i] = IF i <= Len(s1) THEN s1[i] ELSE s2[i - Len(s1)]
          /\ IF i <= Len(s1) THEN i \in DOMAIN s1 ELSE i - Len(s1) \in DOMAIN s2
    BY ConcatProperties
  <2>6. \A i \in DOMAIN (s1 \o s2) : (s1 \o s2)[i].type # "req"
    BY <2>1, <2>2, <2>5
  <2>7. ReqsOf(0)
    BY <2>3, <2>4, <2>6, Requeued
  <2>8. \A f \in Flows : wrote[f] <= wrote'[f]
    BY <1>4
  <2> QED
    BY <1>3, <1>4, <1>7, <2>7, <2>8, OnceStep DEF Numbered, NetStep, NetType, Before, Quiet
<1>9. Numbers' /\ Unbroken'
  <2>1. \A i \in DOMAIN s : /\ s[i] \in Events /\ EventOK(s[i]) /\ s[i].c \in Cartridges /\ s[i].gen \in Nat
                            /\ s[i].type # "death" => s[i].c = Writer(s[i].flow) /\ s[i].flow[1] \in Requests
    <3>1. \A i \in DOMAIN s : s[i] \in Events /\ EventOK(s[i])
      BY DEF Before, Local, Queued
    <3>2. \A x \in Events : /\ x.c \in Cartridges /\ x.gen \in Nat
                            /\ x.type # "death" => x.flow[1] \in Requests
      BY DEF Events, Flows
    <3> QED
      BY <3>1, <3>2 DEF EventOK
  <2>2. ASSUME NEW f \in Flows, Writer(f) = c
        PROVE  Silenced(f, s)
    <3>1. \A i \in DOMAIN s : s[i].type # "death" /\ s[i].flow = f => ~Current(s[i])'
      <4> SUFFICES ASSUME NEW i \in DOMAIN s, s[i].type # "death", s[i].flow = f
                   PROVE  ~Current(s[i])'
        OBVIOUS
      <4>1. s[i].c = c /\ s[i].gen <= cart[c].gen /\ s[i].gen \in Nat
        BY <2>1, <2>2 DEF EventOK
      <4> QED
        BY <1>1, <4>1 DEF Current
    <3>2. ~Open(f)'
      BY <1>3, <2>2 DEF Open, Busy, Writer, Flows
    <3> QED
      BY <3>1, <3>2 DEF Silenced
  <2>3. ASSUME NEW f \in Flows, Writer(f) # c
        PROVE  Carried(f, s, d)
    <3>1. \A i \in DOMAIN s : s[i].type # "death" /\ s[i].flow = f => (Current(s[i])' <=> Current(s[i]))
      BY <1>1, <2>1, <2>3 DEF Current
    <3>2. maxSeq'[f] = maxSeq[f]
      BY <1>6, <2>3
    <3>3. Open(f)' => Open(f)
      BY <1>3, QuietOpen
    <3> QED
      BY <3>1, <3>2, <3>3 DEF Carried
  <2>4. ASSUME NEW i \in DOMAIN s, s[i].type = "req", call[s[i].flow[1]] = "new"
        PROVE  call'[s[i].flow[1]] = "new"
    BY <1>7, <2>1, <2>4
  <2>5. maxSeq' \in [Flows -> Nat \cup {-1}]
    BY <1>4, <1>6
  <2>6. \A f \in Flows : Silenced(f, s) \/ Carried(f, s, d)
    BY <2>2, <2>3
  <2> QED
    BY <1>4, <2>4, <2>5, <2>6, CarryNumbers DEF Numbered
<1>10. Agreed'
  <2>1. \A f \in Flows : NextSeq(f) = expect[f] /\ expect[f] = maxSeq[f] + 1 /\ maxSeq[f] < wrote[f]
    BY DEF NextSeq, Numbered, Agreed
  <2>2. ~gap'
    BY <1>6, <2>1 DEF Numbered, Agreed
  <2>3. ASSUME NEW f \in Flows
        PROVE  expect'[f] = maxSeq'[f] + 1 /\ maxSeq'[f] < wrote'[f]
    <3>1. wrote[f] \in Nat
      BY <1>4
    <3> QED
      BY <1>4, <1>6, <2>1, <3>1
  <2> QED
    BY <2>2, <2>3 DEF Agreed
<1>11. Served'
  <2>1. \A r \in Requests : Busy(r)' => Busy(r) /\ incoming'[r] = incoming[r]
    BY <1>3, <1>5, <1>6 DEF Quiet, Busy
  <2>2. \A f \in Flows : wrote[f] <= wrote'[f]
    BY <1>4
  <2>3. respDone' \subseteq respDone
    BY <1>6
  <2> QED
    BY <1>4, <2>1, <2>2, <2>3, ServedStep DEF Numbered, Before
<1> QED
  BY <1>8, <1>9, <1>10, <1>11 DEF Numbered

LEMMA EventNumbered ==
  ASSUME Before, Numbered, NetStep, HandleEvent
  PROVE  Numbered'
<1>1. events # <<>>
  BY DEF HandleEvent, StaleEvent, CartridgeReq, CartridgeFrame, Death, FromCartridge
<1>2. PICK s \in Seq(Events) : /\ s = Tail(events) /\ Len(s) + 1 = Len(events)
                               /\ \A i \in DOMAIN s : s[i] = events[i + 1] /\ i + 1 \in DOMAIN events
  <2>1. events \in Seq(Events)
    BY DEF Before, Types, EventsType
  <2>2. Len(Tail(events)) + 1 = Len(events)
    BY <1>1, <2>1
  <2> QED
    BY <1>1, <2>2, HeadEvent DEF Before
<1>3. PICK e \in Events : e = Head(events) /\ e = events[1] /\ EventOK(e)
  BY <1>1, HeadEvent DEF Before, Local, Queued
<1>4. CASE StaleEvent
  <2>1. /\ UNCHANGED <<cart, incoming, respDone, maxSeq, call, expect, gap, toHost, process>>
        /\ events' = Tail(events) /\ ~Current(e)
    BY <1>3, <1>4 DEF StaleEvent, net, tables
  <2>2. Quiet
    BY <2>1 DEF Quiet, Busy, process
  <2>3. wrote \in [Flows -> Nat] /\ wrote' = wrote /\ maxSeq' \in [Flows -> Nat \cup {-1}]
        /\ respDone \subseteq Requests
    BY <2>1 DEF Before, Types, ProcessType, TablesType, process
  <2>4. \A f \in Flows : wrote[f] <= wrote'[f]
    BY <2>3
  <2>5. ReqsOf(0)
    BY <2>1, LeftOver DEF ReqsOf, Left, Before
  <2>6. Once'
    BY <2>1, <2>2, <2>3, <2>4, <2>5, OnceStep DEF Numbered, NetStep, NetType, Before, Quiet
  <2>7. ~Fresh(1)
    BY <1>3, <2>1 DEF Fresh
  <2>8. \A f \in Flows : Carried(f, s, 1)
    BY <2>1, <2>2, <2>7, QuietOpen DEF Carried, Current
  <2>9. Numbers' /\ Unbroken'
    BY <1>2, <2>1, <2>3, <2>8, CarryNumbers DEF Numbered
  <2>10. Served'
    BY <2>1, <2>2, <2>3, <2>4, ServedStep DEF Numbered, Before, Quiet
  <2> QED
    BY <2>1, <2>3, <2>6, <2>9, <2>10 DEF Numbered, Agreed
<1>5. CASE CartridgeReq
  <2>1. /\ UNCHANGED <<cart, process, incoming, respDone>> /\ events' = Tail(events)
        /\ e.type = "req" /\ Current(e)
        /\ maxSeq' = [maxSeq EXCEPT ![e.flow] = e.seq]
        /\ Send(toHost, Out("req", e.flow[1], "call", e.seq))
    BY <1>3, <1>5 DEF CartridgeReq, FromCartridge
  <2>2. e.flow[1] \in Requests /\ e.seq \in Nat /\ e.flow[2] = "call" /\ toHost \in Seq(Frames)
    BY <1>3, <2>1 DEF Events, Flows, EventOK, Before, Types, NetType
  <2>3. SentOK(toHost, e.type, e.flow[1], e.flow[2], e.seq)
    BY <2>1, <2>2, Sent DEF Before, Kinds
  <2>4. Once' /\ Numbers' /\ Unbroken' /\ Agreed'
    BY <1>1, <1>3, <2>1, <2>3, FrameNumbered DEF Terminal
  <2>5. Served'
    BY <2>1 DEF Numbered, Served, Busy, process
  <2> QED
    BY <2>4, <2>5 DEF Numbered
<1>6. CASE CartridgeFrame
  <2>1. /\ UNCHANGED <<cart, process>> /\ events' = Tail(events)
        /\ e.type \in {"data", "end"} /\ Current(e)
        /\ maxSeq' = [maxSeq EXCEPT ![e.flow] = IF Terminal(e.type) THEN -1 ELSE e.seq]
        /\ Send(toHost, Out(e.type, e.flow[1], e.flow[2], e.seq))
        /\ IF Terminal(e.type) /\ e.flow[2] = "answer" THEN ResponseEnded(e.flow[1])
           ELSE UNCHANGED <<incoming, bodyDone, respDone, released>>
    BY <1>3, <1>6 DEF CartridgeFrame, FromCartridge
  <2>2. /\ e.flow[1] \in Requests /\ e.seq \in Nat /\ e.flow[2] \in {"call", "answer"}
        /\ e.flow = <<e.flow[1], e.flow[2]>> /\ e.flow \in Flows
        /\ toHost \in Seq(Frames) /\ e.type # "death"
    BY <2>1 DEF Events, Flows, Before, Types, NetType
  <2>3. SentOK(toHost, e.type, e.flow[1], e.flow[2], e.seq)
    BY <2>1, <2>2, Sent DEF Before, Kinds
  <2>4. Once' /\ Numbers' /\ Unbroken' /\ Agreed'
    BY <1>1, <1>3, <2>1, <2>2, <2>3, FrameNumbered
  <2>5. Served'
    <3>1. /\ wrote \in [Flows -> Nat] /\ wrote' = wrote /\ respDone \subseteq Requests
          /\ \A r \in Requests : Busy(r)' <=> Busy(r)
      BY <2>1 DEF process, Busy, Before, Types, ProcessType, TablesType
    <3>2. CASE Terminal(e.type) /\ e.flow[2] = "answer"
      <4>1. PICK r \in Requests : r = e.flow[1] /\ e.flow = <<r, "answer">>
        BY <2>2, <3>2
      <4>2. EventNumber(e) /\ e.type = "end"
        BY <1>1, <1>3, <2>1, <2>2, <3>2, HeadNumber DEF Terminal
      <4>3. ~Busy(r) /\ wrote[<<r, "answer">>] > 0
        BY <2>2, <3>1, <3>2, <4>1, <4>2 DEF EventNumber, Open
      <4>4. /\ incoming' = incoming \/ incoming' = [incoming EXCEPT ![r] = None]
            /\ respDone' \subseteq respDone \cup {r}
        BY <2>1, <3>2, <4>1 DEF ResponseEnded
      <4>5. \A p \in Requests : p # r => incoming'[p] = incoming[p]
        BY <4>4 DEF Before, Types, TablesType
      <4>6. \A p \in Requests : Busy(p)' => incoming'[p] = Handler[p]
        BY <3>1, <4>3, <4>5 DEF Numbered, Served
      <4> QED
        BY <3>1, <4>3, <4>4, <4>6 DEF Numbered, Served
    <3>3. CASE ~(Terminal(e.type) /\ e.flow[2] = "answer")
      BY <2>1, <3>1, <3>3 DEF Numbered, Served
    <3> QED
      BY <3>2, <3>3
  <2> QED
    BY <2>4, <2>5 DEF Numbered
<1>7. CASE Death
  <2>1. /\ Bury(e.c) /\ e.c \in Cartridges /\ events' = s /\ e.type = "death"
    BY <1>2, <1>3, <1>7 DEF Death, FromCartridge, Events
  <2> QED
    BY <1>2, <1>3, <2>1, BuryNumbered
<1> QED
  BY <1>4, <1>5, <1>6, <1>7 DEF HandleEvent

\* A new request is served by whoever has it, or refused.
LEMMA ReqNumbered ==
  ASSUME Before, Numbered, NetStep, RelayReq
  PROVE  Numbered'
<1> DEFINE m == Head(toHost)
           r == m.r
           c == Handler[r]
<1>1. /\ toHost # <<>> /\ m.type = "req" /\ events = <<>>
  BY DEF RelayReq, FromRelay
<1>2. /\ m \in Frames /\ r \in Requests /\ m.to = "handler" /\ c \in Cartridges
      /\ m = toHost[1] /\ 1 \in DOMAIN toHost
  BY <1>1, TailOK, HeadTailProperties DEF Frames, Before, FrameOK, Here, Types, NetType
<1>3. wrote[<<r, "answer">>] = 0 /\ "req" \notin atHandler[r]
  BY <1>1, <1>2 DEF Numbered, Once
<1>4. Tail(toHost) \in Seq(Frames) /\ Left(Tail(toHost), 1)
  BY <1>1, LeftOver DEF Before
<1>5. <<r, "answer">> \in Flows
  BY <1>2 DEF Flows
<1>6. /\ wrote \in [Flows -> Nat] /\ maxSeq \in [Flows -> Nat \cup {-1}]
      /\ respDone \subseteq Requests /\ atHandler \in [Requests -> SUBSET Knowledge]
      /\ incoming \in [Requests -> Cartridges \cup {None}] /\ expect \in [Flows -> Nat]
  BY DEF Before, Types, ProcessType, TablesType, NetType
<1>7. CASE /\ Send(Tail(toHost), Out("err", r, "answer", 0))
           /\ UNCHANGED <<cart, tables, events, process>>
  <2>1. SentOK(Tail(toHost), "err", r, "answer", 0)
    BY <1>2, <1>4, <1>7, Sent DEF Before, Kinds
  <2>2. ReqsOf(1)
    BY <1>2, <1>4, <2>1, SentReqs DEF Kinds, Before
  <2>3. expect[<<r, "answer">>] = 0 /\ ~gap
    <3>1. PICK f \in Flows : f = <<r, "answer">>
      BY <1>5
    <3>2. expect[f] = maxSeq[f] + 1 /\ maxSeq[f] < 0 /\ maxSeq[f] \in Nat \cup {-1}
      BY <1>3, <1>6, <3>1 DEF Numbered, Agreed
    <3> QED
      BY <3>1, <3>2 DEF Numbered, Agreed
  <2>4. UNCHANGED <<expect, gap>>
    <3>1. ~gap' /\ gap' \in BOOLEAN /\ gap \in BOOLEAN
      BY <2>1, <2>3 DEF SentOK, Before, Types, NetType
    <3>2. expect' = [expect EXCEPT ![<<r, "answer">>] = 0]
      BY <2>1 DEF SentOK, Terminal
    <3> QED
      BY <1>5, <1>6, <2>3, <3>1, <3>2
  <2>5. \A p \in Requests : call[p] = "new" => call'[p] = "new"
    BY <2>1 DEF SentOK
  <2>6. Quiet
    BY <1>7 DEF Quiet, process, Busy
  <2> QED
    BY <1>7, <2>2, <2>4, <2>5, <2>6, QuietNumbered DEF tables
<1>8. CASE /\ ~cart[c].failed
           /\ incoming' = [incoming EXCEPT ![r] = c]
           /\ Silent
           /\ IF cart[c].running THEN Give(c, m)
              ELSE /\ atHandler' = [atHandler EXCEPT ![r] = {"req"}]
                   /\ UNCHANGED <<atCaller, wrote, astray>>
           /\ UNCHANGED <<respDone, maxSeq, events>>
  <2>1. /\ toHost' = Tail(toHost) /\ UNCHANGED <<call, expect, gap>>
    BY <1>8 DEF Silent
  <2>2. /\ UNCHANGED wrote
        /\ \A p \in Requests : /\ "req" \in atHandler'[p] => "req" \in atHandler[p] \/ p = r
                               /\ p # r => (Busy(p)' => Busy(p))
                               /\ "call" \in atCaller'[p] => "call" \in atCaller[p]
    <3>1. CASE cart[c].running
      <4>1. GiveOK(c, m)
        BY <1>2, <1>8, <3>1, Given DEF Before
      <4> QED
        BY <4>1 DEF GiveOK, Busy
    <3>2. CASE ~cart[c].running
      <4>1. /\ \A p \in Requests : p # r => atHandler'[p] = atHandler[p]
            /\ UNCHANGED <<atCaller, wrote>>
        BY <1>6, <1>8, <3>2
      <4> QED
        BY <4>1 DEF Busy
    <3> QED
      BY <3>1, <3>2
  <2>3. wrote' \in [Flows -> Nat] /\ \A f \in Flows : wrote[f] <= wrote'[f]
    BY <1>6, <2>2
  <2>4. ReqsOf(1)
    BY <1>4, <2>1 DEF ReqsOf, Left
  <2>5. Once'
    BY <1>1, <1>2, <2>1, <2>2, <2>3, <2>4, OnceStep DEF Numbered, NetStep, NetType, Before
  <2>6. Numbers' /\ Unbroken'
    <3>1. \A f \in Flows : Open(f)' => Open(f) \/ wrote[f] = 0
      BY <1>3, <2>2 DEF Open, Flows
    <3>2. PICK s \in Seq(Events) : s = <<>>
      BY EmptySeq
    <3>3. \A f \in Flows : Carried(f, s, 0)
      BY <1>8, <3>1, <3>2 DEF Carried
    <3>4. events' = s /\ Len(s) + 0 = Len(events) /\ DOMAIN s = {} /\ maxSeq' \in [Flows -> Nat \cup {-1}]
      BY <1>1, <1>6, <1>8, <3>2
    <3> QED
      BY <2>2, <3>3, <3>4, CarryNumbers DEF Numbered
  <2>7. Agreed'
    BY <1>8, <2>1, <2>2 DEF Numbered, Agreed
  <2>8. Served'
    <3>1. incoming'[r] = Handler[r] /\ \A p \in Requests : p # r => incoming'[p] = incoming[p]
      BY <1>2, <1>6, <1>8
    <3>2. \A p \in Requests : Busy(p)' => incoming'[p] = Handler[p] \/ (Busy(p) /\ incoming'[p] = incoming[p])
      BY <2>2, <3>1
    <3>3. \A p \in Requests : Busy(p)' => Busy(p) \/ wrote[<<p, "answer">>] = 0
      BY <1>3, <2>2
    <3> QED
      BY <1>6, <1>8, <2>3, <3>2, <3>3, ServedStep DEF Numbered, Before
  <2> QED
    BY <2>5, <2>6, <2>7, <2>8 DEF Numbered
<1> QED
  BY <1>7, <1>8 DEF RelayReq

LEMMA RelayNumbered ==
  ASSUME Before, Numbered, NetStep, NeverForTheLiving, HandleRelay
  PROVE  Numbered'
<1> DEFINE m == Head(toHost)
           r == m.r
<1>1. toHost # <<>> /\ events = <<>>
  BY DEF HandleRelay, RelayReq, RelayReqFails, RelayUnrouted, RelayToDead, RelayContinuation,
         RelayCancel, FromRelay
<1>2. m \in Frames /\ r \in Requests /\ FrameOK(m)
  BY <1>1, TailOK DEF Frames, Before
<1>3. Tail(toHost) \in Seq(Frames) /\ Left(Tail(toHost), 1)
  BY <1>1, LeftOver DEF Before
<1>4. /\ wrote \in [Flows -> Nat] /\ maxSeq \in [Flows -> Nat \cup {-1}]
      /\ respDone \subseteq Requests
      /\ incoming \in [Requests -> Cartridges \cup {None}] /\ expect \in [Flows -> Nat]
  BY DEF Before, Types, ProcessType, TablesType, NetType
<1>5. toHost' = Tail(toHost) => ReqsOf(1)
  BY <1>3 DEF ReqsOf, Left
<1>6. CASE RelayReq
  BY <1>6, ReqNumbered
<1>7. CASE RelayReqFails
  <2>1. /\ toHost' = Tail(toHost) /\ UNCHANGED <<call, expect, gap, incoming, respDone, maxSeq, events, wrote>>
        /\ atHandler' = [p \in Requests |-> {}] /\ atCaller' = [p \in Requests |-> {}]
        /\ cart' = [c \in Cartridges |-> [cart[c] EXCEPT !.alive = FALSE]]
    BY <1>7 DEF RelayReqFails, Stop, tables
  <2>2. Quiet
    BY <2>1 DEF Quiet, Busy
  <2>3. \A c \in Cartridges : cart'[c].gen = cart[c].gen
    <3>1. \A p \in Carts : [p EXCEPT !.alive = FALSE].gen = p.gen
      BY DEF Carts
    <3> QED
      BY <2>1, <3>1 DEF Before, Types, HostType
  <2> QED
    BY <1>5, <2>1, <2>2, <2>3, QuietNumbered
<1>8. CASE RelayUnrouted
  <2>1. /\ toHost' = Tail(toHost)
        /\ UNCHANGED <<call, expect, gap, incoming, respDone, maxSeq, events, cart, process>>
    BY <1>8 DEF RelayUnrouted, Silent
  <2>2. Quiet
    BY <2>1 DEF Quiet, Busy, process
  <2> QED
    BY <1>5, <2>1, <2>2, QuietNumbered
<1>9. CASE RelayToDead
  <2>1. PICK flow \in Flows : flow = <<r, "answer">>
    BY <1>2 DEF Flows
  <2>2. /\ Via(m) # "none" /\ ~cart[Target(m)].writer
        /\ Send(Tail(toHost), Out("err", r, "answer", NextSeq(flow)))
        /\ maxSeq' = [maxSeq EXCEPT ![flow] = -1]
        /\ incoming' = [incoming EXCEPT ![r] = None]
        /\ respDone' = respDone \ {r}
        /\ UNCHANGED <<cart, events, process>>
    BY <1>9, <2>1 DEF RelayToDead
  <2>3. NextSeq(flow) \in Nat /\ NextSeq(flow) = expect[flow] /\ ~gap
    BY <1>4 DEF NextSeq, Numbered, Agreed
\* Whom the host answers for does not live.
  <2>4. ~Busy(r)
    <3>1. /\ Target(m) \in Cartridges /\ cart[Target(m)].running
          /\ Via(m) \in {"incoming", "outgoing"}
          /\ Via(m) = "incoming" => Target(m) = Handler[r]
          /\ Via(m) = "outgoing" => Target(m) = Caller[r]
      BY <1>2, <2>2, Targeted
    <3>2. BrokenPipes /\ ~cart[Target(m)].alive
      BY <2>2, <3>1 DEF Before, Local, Upright
    <3>3. OneEndHere
      BY <3>2 DEF NeverForTheLiving
    <3>4. CASE Via(m) = "incoming"
      BY <1>2, <3>1, <3>2, <3>4 DEF Before, Local, Minds, Busy
    <3>5. CASE Via(m) = "outgoing"
      <4>1. ~Here(Handler[r])
        BY <1>2, <3>1, <3>3, <3>5 DEF OneEndHere, Here
      <4> QED
        BY <1>2, <4>1 DEF Before, Local, Minds, Busy
    <3> QED
      BY <3>1, <3>4, <3>5
  <2>5. Quiet
    BY <2>2 DEF Quiet, process, Busy
  <2>6. SentOK(Tail(toHost), "err", r, "answer", NextSeq(flow))
    BY <1>2, <1>3, <2>1, <2>2, <2>3, Sent DEF Before, Kinds
  <2>7. ReqsOf(1)
    BY <1>2, <1>3, <2>3, <2>6, SentReqs DEF Before, Kinds
  <2>8. wrote' = wrote /\ \A f \in Flows : wrote[f] <= wrote'[f]
    BY <1>4, <2>5 DEF Quiet
  <2>9. \A p \in Requests : call[p] = "new" => call'[p] = "new"
    BY <2>6 DEF SentOK
  <2>10. Once'
    BY <1>4, <2>5, <2>7, <2>8, <2>9, OnceStep DEF Numbered, NetStep, NetType, Before, Quiet
  <2>11. /\ maxSeq' \in [Flows -> Nat \cup {-1}] /\ maxSeq'[flow] = -1
         /\ \A f \in Flows : f # flow => maxSeq'[f] = maxSeq[f]
    BY <1>4, <2>2
  <2>12. Numbers' /\ Unbroken'
    <3>1. PICK s \in Seq(Events) : s = <<>>
      BY EmptySeq
    <3>2. Silenced(flow, s)
      <4>1. ~Open(flow)
        BY <2>1, <2>4 DEF Open
      <4>2. ~Open(flow)'
        BY <2>5, <4>1, QuietOpen
      <4> QED
        BY <3>1, <4>2 DEF Silenced
    <3>3. \A f \in Flows : f # flow => Carried(f, s, 0)
      BY <2>5, <2>11, <3>1, QuietOpen DEF Carried
    <3>4. events' = s /\ Len(s) + 0 = Len(events) /\ DOMAIN s = {}
      BY <1>1, <2>2, <3>1
    <3>5. \A f \in Flows : Silenced(f, s) \/ Carried(f, s, 0)
      BY <3>2, <3>3
    <3> QED
      BY <2>8, <2>11, <3>4, <3>5, CarryNumbers DEF Numbered
  <2>13. Agreed'
    <3>1. expect' = [expect EXCEPT ![flow] = 0] /\ ~gap'
      BY <2>1, <2>3, <2>6 DEF SentOK, Terminal
    <3>2. ASSUME NEW f \in Flows
          PROVE  expect'[f] = maxSeq'[f] + 1 /\ maxSeq'[f] < wrote'[f]
      <4>1. expect[f] = maxSeq[f] + 1 /\ maxSeq[f] < wrote[f] /\ wrote[f] \in Nat
        BY <1>4 DEF Numbered, Agreed
      <4>2. expect'[f] = IF f = flow THEN 0 ELSE expect[f]
        BY <1>4, <3>1
      <4> QED
        BY <2>8, <2>11, <4>1, <4>2
    <3> QED
      BY <3>1, <3>2 DEF Agreed
  <2>14. Served'
    <3>1. \A p \in Requests : p # r => incoming'[p] = incoming[p]
      BY <1>4, <2>2
    <3>2. \A p \in Requests : Busy(p)' => Busy(p) /\ incoming'[p] = incoming[p]
      BY <2>4, <2>5, <3>1 DEF Quiet
    <3> QED
      BY <1>4, <2>2, <2>8, <3>2, ServedStep DEF Numbered, Before
  <2> QED
    BY <2>10, <2>12, <2>13, <2>14 DEF Numbered
<1>10. CASE RelayContinuation
  <2> DEFINE c == Target(m)
  <2>1. /\ m.type \in Continuations /\ Via(m) # "none"
        /\ toHost' = Tail(toHost) /\ UNCHANGED <<call, expect, gap, maxSeq, events, up, troubles>>
        /\ Give(c, m)
        /\ IF ~Terminal(m.type) THEN UNCHANGED <<incoming, outgoing, bodyDone, respDone, released>>
           ELSE IF Via(m) = "incoming" THEN BodyEnded(r) ELSE CallEnded(r)
    BY <1>10 DEF RelayContinuation, FromRelay, Silent
  <2>2. c \in Cartridges
    BY <1>2, <2>1, Targeted
  <2>3. PICK w \in Writers(c) : cart' = [cart EXCEPT ![c].writer = w]
    BY <1>10 DEF RelayContinuation
  <2>4. Steady /\ GiveOK(c, m)
    BY <1>2, <2>1, <2>2, <2>3, Written, HostAssumption
  <2>5. Quiet
    BY <2>1, <2>4 DEF GiveOK, Quiet, Busy, Continuations
  <2>6. \A p \in Requests : Busy(p) => incoming'[p] = incoming[p]
    <3>1. \/ UNCHANGED incoming
          \/ r \in respDone /\ incoming' = [incoming EXCEPT ![r] = None]
      BY <2>1 DEF BodyEnded, CallEnded
    <3>2. r \in respDone => ~Busy(r)
      BY DEF Numbered, Served
    <3> QED
      BY <1>4, <3>1, <3>2
  <2>7. respDone' \subseteq respDone
    BY <2>1 DEF BodyEnded, CallEnded
  <2>8. /\ \A d \in Cartridges : cart'[d].gen = cart[d].gen
        /\ \A p \in Requests : Busy(p)' => Busy(p)
    BY <2>4, <2>5 DEF Steady, Quiet
  <2> QED
    BY <1>5, <2>1, <2>5, <2>6, <2>7, <2>8, QuietNumbered
<1>11. CASE RelayCancel
  <2> DEFINE c == incoming[r]
  <2>1. /\ UNCHANGED <<call, expect, gap, incoming, respDone, maxSeq, events, up, troubles>>
        /\ m.type = "cancel"
    BY <1>11 DEF RelayCancel, FromRelay, tables, Silent
  <2>2. ReqsOf(1)
    <3>1. CASE toHost' = Tail(toHost) \o Notices("cancel", peers[r], "handler")
      <4>1. peers[r] \subseteq Requests
        BY <1>2 DEF Before, Types, TablesType
      <4>2. PICK s \in Seq(Frames) : s = Notices("cancel", peers[r], "handler")
                                     /\ \A i \in DOMAIN s : s[i].type = "cancel"
        BY <4>1, Noticed DEF Before, Known, Kinds
      <4> QED
        BY <1>3, <3>1, <4>2, Requeued
    <3> QED
      BY <1>5, <1>11, <3>1 DEF RelayCancel, Silent
  <2>3. Quiet /\ \A d \in Cartridges : cart'[d].gen = cart[d].gen
    <3>1. CASE UNCHANGED <<cart, process>>
      BY <3>1 DEF Quiet, process, Busy
    <3>2. CASE c # None /\ cart' = [cart EXCEPT ![c].alive = FALSE] /\ Forget(c)
      <4>1. c \in Cartridges
        BY <1>2, <1>4, <3>2
      <4>2. \A p \in Carts : [p EXCEPT !.alive = FALSE].gen = p.gen
        BY DEF Carts
      <4>3. cart' = [cart EXCEPT ![c] = [cart[c] EXCEPT !.alive = FALSE]]
        BY <3>2
      <4>4. \A d \in Cartridges : cart'[d].gen = cart[d].gen
        BY <4>1, <4>2, <4>3 DEF Before, Types, HostType
      <4> QED
        BY <3>2, <4>4 DEF Quiet, Busy, Forget
    <3>3. CASE c # None /\ Give(c, m) /\ \E w \in Writers(c) : cart' = [cart EXCEPT ![c].writer = w]
      <4>1. c \in Cartridges
        BY <1>2, <1>4, <3>3
      <4>2. PICK w \in Writers(c) : cart' = [cart EXCEPT ![c].writer = w]
        BY <3>3
      <4>3. Steady /\ GiveOK(c, m)
        BY <1>2, <2>1, <3>3, <4>1, <4>2, Written, HostAssumption
      <4> QED
        BY <2>1, <4>3 DEF GiveOK, Quiet, Busy, Steady
    <3> QED
      BY <1>11, <3>1, <3>2, <3>3 DEF RelayCancel
  <2> QED
    BY <2>1, <2>2, <2>3, QuietNumbered
<1> QED
  BY <1>6, <1>7, <1>8, <1>9, <1>10, <1>11 DEF HandleRelay

LEMMA NumberedNext ==
  ASSUME Kept, Numbered, NeverForTheLiving, [Next]_vars
  PROVE  Numbered'
<1>1. Before
  BY DEF Kept, Before, Local, LocalType, Types, TablesKnown, Known
<1>2. NetStep
  BY <1>1, NetNext DEF Before, Local
<1>3. CASE UNCHANGED vars
  <2>1. UNCHANGED <<events, maxSeq, expect, gap, cart, incoming, respDone, toHost, call, process>>
    BY <1>3 DEF vars, net, tables
  <2>2. Quiet
    BY <2>1 DEF Quiet, process, Busy
  <2>3. ReqsOf(0)
    BY <1>1, <2>1, LeftOver DEF ReqsOf, Left, Before
  <2> QED
    BY <1>1, <1>2, <2>1, <2>2, <2>3, QuietNumbered
<1>4. ASSUME NEW c \in Cartridges, HeartbeatTimeout(c)
      PROVE  Numbered'
  <2>1. PICK s \in Seq(Events) : s = events
    BY <1>1 DEF Before, Types, EventsType
  <2>2. Bury(c) /\ events' = s /\ Len(s) + 0 = Len(events)
        /\ \A i \in DOMAIN s : s[i] = events[i + 0] /\ i + 0 \in DOMAIN events
    BY <1>4, <2>1 DEF HeartbeatTimeout
  <2> QED
    BY <1>1, <1>2, <2>2, BuryNumbered
<1>5. ASSUME NEW c \in Cartridges, Crash(c) \/ ReaderEnds(c) \/ Retire(c) \/ Restore(c) \/ Reap(c)
      PROVE  Numbered'
  BY <1>1, <1>2, <1>5, DieNumbered
<1>6. ASSUME NEW r \in Requests, Others(r) \/ \E force \in BOOLEAN : Cancel(r, force)
      PROVE  Numbered'
  BY <1>1, <1>2, <1>6, OutsideNumbered, HostAssumption
<1>7. ASSUME NEW r \in Requests, CallPeer(r) \/ CallEnd(r) \/ Answer(r) \/ AnswerEnd(r)
      PROVE  Numbered'
  BY <1>1, <1>2, <1>7, EmitNumbered, HostAssumption
<1> QED
  BY <1>1, <1>2, <1>3, <1>4, <1>5, <1>6, <1>7, EventNumbered, RelayNumbered DEF Next

LEMMA NumberedInit == Init => Numbered
<1> SUFFICES ASSUME Init
             PROVE  Numbered
  OBVIOUS
<1>1. Once
  BY DEF Init, Once, Flows
<1>2. Numbers /\ Unbroken
  BY DEF Init, Numbers, Unbroken, Open, Busy, Flows
<1>3. Agreed
  BY DEF Init, Agreed
<1>4. Served
  BY DEF Init, Served, Busy
<1> QED
  BY <1>1, <1>2, <1>3, <1>4 DEF Numbered

LEMMA NumberedAlways == ASSUME NeverForTheLiving PROVE Spec => [](Kept /\ Numbered)
<1>1. Init => Kept /\ Numbered
  BY KeptInit, NumberedInit, HostAssumption
<1>2. Kept /\ Numbered /\ [Next]_vars => (Kept /\ Numbered)'
  BY KeptNext, NumberedNext, HostAssumption
<1> QED
  BY <1>1, <1>2, PTL DEF Spec

\* The slave never meets a frame out of sequence, so it never takes the link
\* down: each number the host makes up for a process that died is the one
\* after what that process is known to have sent, and what the process still
\* has in the queue is refused.
THEOREM NumbersFollow == ASSUME NeverForTheLiving PROVE Spec => []SeqFollows
<1>1. Numbered => SeqFollows
  BY DEF Numbered, Agreed, SeqFollows
<1> QED
  BY <1>1, NumberedAlways, PTL
------------------------------------------------------------------------------
(***************************************************************************)
(* Who is killed when its install leaves the roster                        *)
(***************************************************************************)

\* No process is given a reason to die.
Spared == \A d \in Cartridges : cart'[d].reason \in {cart[d].reason, "none"}

LEMMA SparedBut ==
  ASSUME cart \in [Cartridges -> Carts], NEW d \in Cartridges, NEW p \in Carts,
         cart' = [cart EXCEPT ![d] = p], p.reason \in {cart[d].reason, "none"}
  PROVE  Spared
  BY DEF Spared

LEMMA SparedByLoop ==
  ASSUME Before, HandleEvent \/ HandleRelay
  PROVE  Spared
<1>1. cart \in [Cartridges -> Carts] /\ cart = [d \in Cartridges |-> cart[d]]
  BY DEF Before, Types, HostType
<1>2. CASE UNCHANGED cart
  BY <1>2 DEF Spared
<1>3. ASSUME NEW d \in Cartridges, Bury(d)
      PROVE  Spared
  BY <1>1, <1>3, Buried, SparedBut
<1>4. ASSUME NEW d \in Cartridges, NEW w \in Writers(d), cart' = [cart EXCEPT ![d].writer = w]
      PROVE  Spared
  <2>1. w \in BOOLEAN
    BY <1>1, HostAssumption DEF Writers, Carts, HostAssumption
  <2>2. [cart[d] EXCEPT !.writer = w] \in Carts
    BY <1>1, <2>1 DEF Carts
  <2>3. [cart[d] EXCEPT !.writer = w].reason = cart[d].reason
    BY <1>1 DEF Carts
  <2>4. cart' = [cart EXCEPT ![d] = [cart[d] EXCEPT !.writer = w]]
    BY <1>4
  <2> QED
    BY <1>1, <2>2, <2>3, <2>4, SparedBut
<1>5. CASE HandleEvent
  <2>1. CASE Death
    <3>1. Bury(Head(events).c) /\ Head(events).c \in Cartridges
      BY <2>1, HeadEvent DEF Death, FromCartridge, Before
    <3> QED
      BY <1>3, <3>1
  <2> QED
    BY <1>2, <1>5, <2>1 DEF HandleEvent, StaleEvent, CartridgeReq, CartridgeFrame
<1>6. CASE HandleRelay
  <2> DEFINE m == Head(toHost)
  <2>1. m \in Frames /\ m.r \in Requests /\ FrameOK(m)
    <3>1. toHost # <<>>
      BY <1>6 DEF HandleRelay, RelayReq, RelayReqFails, RelayUnrouted, RelayToDead, RelayContinuation,
                  RelayCancel, FromRelay
    <3> QED
      BY <3>1, TailOK DEF Frames, Before
  <2>2. CASE RelayReq
    <3> DEFINE c == Handler[m.r]
    <3>1. c \in Cartridges
      BY <2>1, <2>2 DEF RelayReq, FromRelay, FrameOK, Here
    <3>2. CASE ~cart[c].failed /\ cart[c].running
      <4>1. PICK w \in Writers(c) : cart' = [cart EXCEPT ![c].writer = w]
        BY <2>2, <3>2 DEF RelayReq
      <4> QED
        BY <1>4, <3>1, <4>1
    <3>3. CASE ~cart[c].failed /\ ~cart[c].running
      <4>1. cart' = [cart EXCEPT ![c] = Started(c)]
        BY <2>2, <3>3 DEF RelayReq
      <4>2. PICK q \in Carts : q = cart[c]
        BY <1>1, <3>1
      <4>3. PICK g \in Nat : g = q.gen + 1
        BY DEF Carts
      <4>4. Started(c) = [q EXCEPT !.running = TRUE, !.alive = TRUE, !.reader = TRUE,
                                   !.writer = TRUE, !.gen = g]
        BY <4>2, <4>3 DEF Started
      <4>5. Started(c) \in Carts /\ Started(c).reason = q.reason
        BY <4>4 DEF Carts
      <4> QED
        BY <1>1, <3>1, <4>1, <4>2, <4>5, SparedBut
    <3>4. CASE cart[c].failed
      BY <1>2, <2>2, <3>4 DEF RelayReq
    <3> QED
      BY <3>2, <3>3, <3>4
  <2>3. CASE RelayReqFails
    <3>1. cart' = [d \in Cartridges |-> [cart[d] EXCEPT !.alive = FALSE]]
      BY <2>3 DEF RelayReqFails, Stop
    <3>2. \A p \in Carts : [p EXCEPT !.alive = FALSE].reason = p.reason
      BY DEF Carts
    <3> QED
      BY <1>1, <3>1, <3>2 DEF Spared
  <2>4. CASE RelayContinuation
    <3>1. Target(m) \in Cartridges
      BY <2>1, <2>4, Targeted DEF RelayContinuation
    <3> QED
      BY <1>4, <2>4, <3>1 DEF RelayContinuation
  <2>5. CASE RelayCancel
    <3> DEFINE c == incoming[m.r]
    <3>1. c # None => c \in Cartridges
      BY <2>1 DEF Before, Types, TablesType
    <3>2. CASE c # None /\ cart' = [cart EXCEPT ![c].alive = FALSE]
      <4>1. [cart[c] EXCEPT !.alive = FALSE] \in Carts
        BY <1>1, <3>1, <3>2 DEF Carts
      <4>2. [cart[c] EXCEPT !.alive = FALSE].reason = cart[c].reason
        BY <1>1, <3>1, <3>2 DEF Carts
      <4>3. cart' = [cart EXCEPT ![c] = [cart[c] EXCEPT !.alive = FALSE]]
        BY <3>2
      <4> QED
        BY <1>1, <3>1, <3>2, <4>1, <4>2, <4>3, SparedBut
    <3> QED
      BY <1>2, <1>4, <2>5, <3>1, <3>2 DEF RelayCancel
  <2> QED
    BY <1>2, <1>6, <2>2, <2>3, <2>4, <2>5 DEF HandleRelay, RelayUnrouted, RelayToDead
<1> QED
  BY <1>5, <1>6

\* A process that is killed because its install has left has nothing in flight.
LEMMA RetiredIdle ==
  ASSUME Kept, [Next]_vars, NEW c \in Cartridges, cart[c].alive, cart'[c].reason = "retired"
  PROVE  InFlight(c) = 0
<1>1. Before
  BY DEF Kept, Before, Local, LocalType, Types, TablesKnown, Known
<1>2. /\ cart[c].reason = "none" /\ cart \in [Cartridges -> Carts]
      /\ cart = [d \in Cartridges |-> cart[d]]
  BY DEF Kept, Upright, Types, HostType
<1>3. CASE Spared
  BY <1>2, <1>3 DEF Spared
<1>4. CASE UNCHANGED cart
  BY <1>3, <1>4 DEF Spared
<1>5. ASSUME NEW d \in Cartridges, NEW p \in Carts, cart' = [cart EXCEPT ![d] = p],
             p.reason = cart[d].reason \/ p.reason # "retired" \/ InFlight(d) = 0
      PROVE  InFlight(c) = 0
  BY <1>2, <1>5
<1>6. ASSUME NEW d \in Cartridges,
             Crash(d) \/ ReaderEnds(d) \/ HeartbeatTimeout(d) \/ Retire(d) \/ Restore(d) \/ Reap(d)
      PROVE  InFlight(c) = 0
  <2>1. PICK q \in Carts : q = cart[d]
    BY <1>2
  <2>2. CASE HeartbeatTimeout(d)
    BY <1>1, <1>5, <2>2, Buried DEF HeartbeatTimeout
  <2>3. CASE Crash(d)
    <3>1. cart' = [cart EXCEPT ![d] = [q EXCEPT !.alive = FALSE]]
      BY <2>1, <2>3 DEF Crash
    <3>2. [q EXCEPT !.alive = FALSE] \in Carts /\ [q EXCEPT !.alive = FALSE].reason = q.reason
      BY DEF Carts
    <3> QED
      BY <1>5, <2>1, <3>1, <3>2
  <2>4. CASE ReaderEnds(d)
    <3>1. cart' = [cart EXCEPT ![d] = [q EXCEPT !.reader = FALSE]]
      BY <2>1, <2>4 DEF ReaderEnds
    <3>2. [q EXCEPT !.reader = FALSE] \in Carts /\ [q EXCEPT !.reader = FALSE].reason = q.reason
      BY DEF Carts
    <3> QED
      BY <1>5, <2>1, <3>1, <3>2
  <2>5. CASE Restore(d)
    <3>1. cart' = [cart EXCEPT ![d] = [q EXCEPT !.failed = FALSE, !.retiring = FALSE]]
      BY <2>1, <2>5 DEF Restore
    <3>2. /\ [q EXCEPT !.failed = FALSE, !.retiring = FALSE] \in Carts
          /\ [q EXCEPT !.failed = FALSE, !.retiring = FALSE].reason = q.reason
      BY DEF Carts
    <3> QED
      BY <1>5, <2>1, <3>1, <3>2
  <2>6. CASE Retire(d)
    <3>1. CASE q.running /\ InFlight(d) = 0
      <4>1. cart' = [cart EXCEPT ![d] = [q EXCEPT !.failed = TRUE, !.reason = "retired", !.alive = FALSE]]
        BY <2>1, <2>6, <3>1 DEF Retire
      <4>2. [q EXCEPT !.failed = TRUE, !.reason = "retired", !.alive = FALSE] \in Carts
        BY DEF Carts
      <4> QED
        BY <1>5, <3>1, <4>1, <4>2
    <3>2. CASE ~(q.running /\ InFlight(d) = 0)
      <4> DEFINE n == [q EXCEPT !.failed = TRUE, !.retiring = q.retiring \/ q.running]
      <4>1. cart' = [cart EXCEPT ![d] = n]
        BY <2>1, <2>6, <3>2 DEF Retire
      <4>2. n \in Carts /\ n.reason = q.reason
        BY DEF Carts
      <4> QED
        BY <1>5, <2>1, <4>1, <4>2
    <3> QED
      BY <3>1, <3>2
  <2>7. CASE Reap(d)
    <3>1. CASE ~q.running
      <4>1. cart' = [cart EXCEPT ![d] = [q EXCEPT !.retiring = FALSE]]
        BY <2>1, <2>7, <3>1 DEF Reap
      <4>2. [q EXCEPT !.retiring = FALSE] \in Carts /\ [q EXCEPT !.retiring = FALSE].reason = q.reason
        BY DEF Carts
      <4> QED
        BY <1>5, <2>1, <4>1, <4>2
    <3>2. CASE q.running
      <4>1. PICK why \in {"retired", "overdue"} : why = IF InFlight(d) = 0 THEN "retired" ELSE "overdue"
        OBVIOUS
      <4>2. cart' = [cart EXCEPT ![d] = [q EXCEPT !.retiring = FALSE, !.alive = FALSE, !.reason = why]]
        BY <2>1, <2>7, <3>2, <4>1 DEF Reap
      <4>3. /\ [q EXCEPT !.retiring = FALSE, !.alive = FALSE, !.reason = why] \in Carts
            /\ [q EXCEPT !.retiring = FALSE, !.alive = FALSE, !.reason = why].reason = why
        BY DEF Carts
      <4>4. why # "retired" \/ InFlight(d) = 0
        BY <4>1
      <4> QED
        BY <1>5, <4>2, <4>3, <4>4
    <3> QED
      BY <3>1, <3>2
  <2> QED
    BY <1>6, <2>2, <2>3, <2>4, <2>5, <2>6, <2>7
<1>7. CASE HandleEvent \/ HandleRelay
  BY <1>1, <1>3, <1>7, SparedByLoop
<1>8. ASSUME NEW r \in Requests,
             \/ Others(r) \/ \E force \in BOOLEAN : Cancel(r, force)
             \/ CallPeer(r) \/ CallEnd(r) \/ Answer(r) \/ AnswerEnd(r)
      PROVE  InFlight(c) = 0
  BY <1>4, <1>8 DEF Others, Request, Body, Grant, Answered, Cancel, CallPeer, CallEnd, Answer, AnswerEnd
<1>9. CASE UNCHANGED vars
  BY <1>4, <1>9 DEF vars
<1> QED
  BY <1>6, <1>7, <1>8, <1>9 DEF Next

LEMMA IdleServesNothing ==
  ASSUME Kept, Numbered, NEW c \in Cartridges, InFlight(c) = 0
  PROVE  ~Serving(c)
<1>1. Jobs(c) \subseteq Opened /\ Calls(c) \subseteq Opened
  BY HostAssumption DEF Jobs, Calls, Kept, Known, Opened, HostAssumption
<1>2. IsFiniteSet(Jobs(c)) /\ Cardinality(Jobs(c)) \in Nat /\ Cardinality(Calls(c)) \in Nat
  BY <1>1, FS_Subset, FS_CardinalityType DEF Kept, Known
<1>3. Cardinality(Jobs(c)) = 0
  BY <1>2 DEF InFlight
<1>4. Jobs(c) = {}
  BY <1>2, <1>3, FS_EmptySet
<1> QED
  BY <1>4 DEF Serving, Jobs, Numbered, Served, Busy

\* A process whose install has left the roster is killed as drained only when
\* no request is served by it: in_flight counts the table entries, and whoever
\* is served has one.
THEOREM RetiredServesNothing == ASSUME NeverForTheLiving PROVE Spec => RetiredWhenIdle
<1>1. Kept /\ Numbered /\ [Next]_vars =>
        [\A c \in Cartridges : cart[c].alive /\ cart'[c].reason = "retired" => ~Serving(c)]_vars
  BY RetiredIdle, IdleServesNothing
<1> QED
  BY <1>1, NumberedAlways, PTL DEF Spec, RetiredWhenIdle
=============================================================================
