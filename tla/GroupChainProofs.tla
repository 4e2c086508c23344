--------------------------- MODULE GroupChainProofs ---------------------------
(***************************************************************************)
(* Theorems about GroupChain, for any number of caps and items, any        *)
(* windows, any sizes of the caps' outputs, and any caps that fail or stop *)
(* early: every input stream is a credit hop and has what CreditHop        *)
(* promises, the credits of the output streams go round, and the output    *)
(* comes in order, without a gap, and complete when the run says so.       *)
(***************************************************************************)
EXTENDS GroupChain, SequenceTheorems, NaturalsInduction, WellFoundedInduction, TLAPS

(***************************************************************************)
(* Sums over a sequence.                                                   *)
(***************************************************************************)

\* A set that holds 0 and the successor of each of its numbers holds them all:
\* a least number outside it would have a predecessor inside.
LEMMA SetInduction ==
    ASSUME NEW S, 0 \in S, \A n \in Nat : n \in S => n + 1 \in S
    PROVE  \A n \in Nat : n \in S
<1> DEFINE T == Nat \ S
           R == {ss \in Nat \X Nat : ss[1] < ss[2]}
<1>1. IsWellFoundedOn(R, Nat)
  BY NatLessThanWellFounded, Zenon DEF OpToRel
<1> SUFFICES ASSUME T # {} PROVE FALSE
  OBVIOUS
<1>2. PICK x \in T : \A y \in T : ~ (<<y, x>> \in R)
  <2>1. T \subseteq Nat
    OBVIOUS
  <2> HIDE DEF T, R
  <2> QED
    BY <1>1, <2>1, WFMin
<1>3. x # 0 /\ x - 1 \in Nat /\ x = (x - 1) + 1
  OBVIOUS
<1>4. x - 1 \in T /\ <<x - 1, x>> \in R
  BY <1>3
<1> QED
  BY <1>2, <1>4

\* f[k] is the sum of the first k elements.
Sums(s, n, f) == /\ f \in [0 .. n -> Nat] /\ f[0] = 0
                 /\ \A k \in 1 .. n : f[k] = f[k - 1] + s[k]

LEMMA SumsExist ==
    ASSUME NEW s \in Seq(Nat)
    PROVE  \E f : Sums(s, Len(s), f)
<1> DEFINE S == {n \in Nat : n <= Len(s) => \E f : Sums(s, n, f)}
<1>1. 0 \in S
  <2>1. Sums(s, 0, [k \in 0 .. 0 |-> 0])
    BY DEF Sums
  <2> QED
    BY <2>1
<1>2. ASSUME NEW n \in Nat, n \in S PROVE n + 1 \in S
  <2> SUFFICES ASSUME n + 1 <= Len(s) PROVE \E f : Sums(s, n + 1, f)
    OBVIOUS
  <2>1. PICK f : Sums(s, n, f)
    BY <1>2
  <2> DEFINE g == [k \in 0 .. n + 1 |-> IF k = n + 1 THEN f[n] + s[n + 1] ELSE f[k]]
  <2>2. n \in 0 .. n /\ f[n] \in Nat /\ s[n + 1] \in Nat
    BY <2>1 DEF Sums
  <2>3. g \in [0 .. n + 1 -> Nat] /\ g[0] = 0
    BY <2>1, <2>2 DEF Sums
  <2>4. ASSUME NEW k \in 1 .. n + 1 PROVE g[k] = g[k - 1] + s[k]
    <3>1. CASE k = n + 1
      BY <2>2, <3>1
    <3>2. CASE k # n + 1
      <4>1. k \in 1 .. n /\ k - 1 \in 0 .. n /\ k - 1 # n + 1
        BY <3>2
      <4>2. g[k] = f[k] /\ g[k - 1] = f[k - 1]
        BY <4>1, <3>2
      <4> QED
        BY <2>1, <4>1, <4>2 DEF Sums
    <3> QED
      BY <3>1, <3>2
  <2> HIDE DEF g
  <2>5. Sums(s, n + 1, g)
    BY <2>3, <2>4 DEF Sums
  <2> QED
    BY <2>5
<1> HIDE DEF S
<1>3. \A n \in Nat : n \in S
  BY <1>1, <1>2, SetInduction
<1> QED
  BY <1>3 DEF S

LEMMA TotalIs ==
    ASSUME NEW s \in Seq(Nat)
    PROVE  \E f : Sums(s, Len(s), f) /\ Total(s) = f[Len(s)]
<1> DEFINE Up(f) == [k \in 0 .. Len(s) |-> IF k = 0 THEN 0 ELSE f[k - 1] + s[k]]
           W == CHOOSE f : f = Up(f)
<1>1. PICK g : Sums(s, Len(s), g)
  BY SumsExist
<1>2. g = Up(g)
  <2>1. ASSUME NEW k \in 0 .. Len(s) PROVE g[k] = Up(g)[k]
    BY <1>1 DEF Sums
  <2> QED
    BY <1>1, <2>1 DEF Sums
<1>3. Total(s) = W[Len(s)]
  BY DEF Total
<1> HIDE DEF Up
<1>4. W = Up(W)
  BY <1>2
<1> HIDE DEF W
<1>5. /\ W[0] = 0 /\ DOMAIN W = 0 .. Len(s)
      /\ \A k \in 1 .. Len(s) : W[k] = W[k - 1] + s[k]
  <2>1. DOMAIN Up(W) = 0 .. Len(s) /\ Up(W)[0] = 0
    BY DEF Up
  <2>2. ASSUME NEW k \in 1 .. Len(s) PROVE Up(W)[k] = W[k - 1] + s[k]
    BY DEF Up
  <2> QED
    BY <1>4, <2>1, <2>2
<1> DEFINE S == {k \in Nat : k <= Len(s) => W[k] = g[k]}
<1>6. 0 \in S
  BY <1>1, <1>5 DEF Sums
<1>7. ASSUME NEW k \in Nat, k \in S PROVE k + 1 \in S
  <2> SUFFICES ASSUME k + 1 <= Len(s) PROVE W[k + 1] = g[k + 1]
    OBVIOUS
  <2>1. k + 1 \in 1 .. Len(s) /\ (k + 1) - 1 = k /\ W[k] = g[k]
    BY <1>7
  <2> QED
    BY <1>1, <1>5, <2>1 DEF Sums
<1> HIDE DEF S
<1>8. \A k \in Nat : k \in S
  BY <1>6, <1>7, SetInduction
<1>9. W[Len(s)] = g[Len(s)]
  <2>1. Len(s) \in Nat /\ Len(s) \in S
    BY <1>8
  <2> QED
    BY <2>1 DEF S
<1> QED
  BY <1>1, <1>3, <1>9

\* Two sequences whose sums differ by d at one point, and that continue with
\* the same elements.
Along(s, n, f, t, m, g, j, d) ==
    /\ n \in Nat /\ m \in Nat /\ j \in Nat /\ d \in Nat /\ m + j <= n
    /\ Sums(s, n, f) /\ Sums(t, m, g) /\ f[j] = g[0] + d
    /\ \A k \in 1 .. m : s[k + j] = t[k] /\ t[k] \in Nat

LEMMA SumsAlong ==
    ASSUME NEW s, NEW n, NEW f, NEW t, NEW m, NEW g, NEW j, NEW d, Along(s, n, f, t, m, g, j, d)
    PROVE  f[m + j] = g[m] + d
<1> USE DEF Along
<1> DEFINE S == {k \in Nat : k <= m => f[k + j] = g[k] + d}
<1>1. 0 \in S
  OBVIOUS
<1>2. ASSUME NEW k \in Nat, k \in S PROVE k + 1 \in S
  <2> SUFFICES ASSUME k + 1 <= m PROVE f[(k + 1) + j] = g[k + 1] + d
    OBVIOUS
  <2>1. /\ (k + 1) + j \in 1 .. n /\ ((k + 1) + j) - 1 = k + j
        /\ k + 1 \in 1 .. m /\ (k + 1) - 1 = k /\ k \in 0 .. m /\ k + j \in 0 .. n
    OBVIOUS
  <2>2. f[(k + 1) + j] = f[k + j] + s[(k + 1) + j]
    <3>1. \A i \in 1 .. n : f[i] = f[i - 1] + s[i]
      BY DEF Sums
    <3>2. f[(k + 1) + j] = f[((k + 1) + j) - 1] + s[(k + 1) + j]
      BY <2>1, <3>1
    <3> QED
      BY <2>1, <3>2
  <2>3. g[k + 1] = g[k] + t[k + 1] /\ g[k] \in Nat /\ t[k + 1] \in Nat
    <3>1. \A i \in 1 .. m : g[i] = g[i - 1] + t[i]
      BY DEF Sums
    <3>2. g[k + 1] = g[(k + 1) - 1] + t[k + 1]
      BY <2>1, <3>1
    <3> QED
      BY <2>1, <3>2 DEF Sums
  <2>4. f[k + j] = g[k] + d
    BY <1>2
  <2>5. s[(k + 1) + j] = t[k + 1]
    <3>1. s[(k + 1) + j] = t[k + 1]
      BY <2>1
    <3> QED
      BY <3>1
  <2> QED
    BY <2>2, <2>3, <2>4, <2>5
<1> HIDE DEF S
<1>3. m \in S
  BY <1>1, <1>2, SetInduction
<1> QED
  BY <1>3 DEF S

LEMMA TotalOfNone == Total(<<>>) = 0
<1>1. <<>> \in Seq(Nat) /\ Len(<<>>) = 0
  OBVIOUS
<1>2. PICK f : Sums(<<>>, Len(<<>>), f) /\ Total(<<>>) = f[Len(<<>>)]
  BY <1>1, TotalIs
<1> QED
  BY <1>1, <1>2 DEF Sums

LEMMA TotalAppended ==
    ASSUME NEW s \in Seq(Nat), NEW e \in Nat
    PROVE  Total(s) \in Nat /\ Total(Append(s, e)) = Total(s) + e
<1> DEFINE t == Append(s, e)
<1>1. /\ t \in Seq(Nat) /\ Len(s) \in Nat /\ Len(t) = Len(s) + 1
      /\ \A k \in 1 .. Len(s) : t[k] = s[k]
      /\ t[Len(s) + 1] = e
  BY AppendProperties
<1> HIDE DEF t
<1>2. PICK f : Sums(s, Len(s), f) /\ Total(s) = f[Len(s)]
  BY TotalIs
<1>3. PICK g : Sums(t, Len(t), g) /\ Total(t) = g[Len(t)]
  BY <1>1, TotalIs
<1>4. f[Len(s)] \in Nat /\ f[0] = 0 /\ g[0] = 0
  <2>1. Len(s) \in 0 .. Len(s)
    BY <1>1
  <2> QED
    BY <1>2, <1>3, <2>1 DEF Sums
<1>5. g[Len(s) + 0] = f[Len(s)] + 0
  <2>1. \A k \in 1 .. Len(s) : t[k + 0] = s[k] /\ s[k] \in Nat
    BY <1>1
  <2>2. g[0] = f[0] + 0 /\ Len(s) + 0 <= Len(t)
    BY <1>1, <1>4
  <2>3. Len(t) \in Nat /\ 0 \in Nat
    BY <1>1
  <2>4. /\ Sums(t, Len(t), g) /\ Sums(s, Len(s), f) /\ Len(s) \in Nat
    BY <1>1, <1>2, <1>3
  <2>5. Along(t, Len(t), g, s, Len(s), f, 0, 0)
    BY <2>1, <2>2, <2>3, <2>4 DEF Along
  <2> QED
    BY <2>5, SumsAlong
<1>6. g[Len(t)] = g[Len(s)] + e
  <2>1. Len(t) \in 1 .. Len(t) /\ Len(t) - 1 = Len(s) /\ t[Len(t)] = e
    BY <1>1
  <2>2. g[Len(t)] = g[Len(t) - 1] + t[Len(t)]
    BY <1>3, <2>1 DEF Sums
  <2> QED
    BY <2>1, <2>2
<1>7. g[Len(s)] = f[Len(s)]
  BY <1>1, <1>4, <1>5
<1> QED
  BY <1>2, <1>3, <1>4, <1>6, <1>7 DEF t

LEMMA TotalOfRest ==
    ASSUME NEW s \in Seq(Nat), s # <<>>
    PROVE  Total(Tail(s)) \in Nat /\ Total(s) = Head(s) + Total(Tail(s))
<1> DEFINE t == Tail(s)
<1>1. /\ t \in Seq(Nat) /\ Len(s) \in Nat \ {0} /\ Len(t) = Len(s) - 1
      /\ Head(s) = s[1] /\ s[1] \in Nat
      /\ \A k \in 1 .. Len(t) : t[k] = s[k + 1] /\ t[k] \in Nat
  BY HeadTailProperties, EmptySeq
<1> HIDE DEF t
<1>2. PICK f : Sums(s, Len(s), f) /\ Total(s) = f[Len(s)]
  BY TotalIs
<1>3. PICK g : Sums(t, Len(t), g) /\ Total(t) = g[Len(t)]
  BY <1>1, TotalIs
<1>4. f[1] = s[1] /\ g[0] = 0 /\ g[Len(t)] \in Nat
  <2>1. 1 \in 1 .. Len(s) /\ 1 - 1 = 0
    BY <1>1
  <2>2. f[1] = f[1 - 1] + s[1] /\ f[0] = 0
    BY <1>2, <2>1 DEF Sums
  <2> QED
    BY <1>1, <1>3, <2>1, <2>2, SMTT(30) DEF Sums
<1>5. f[Len(t) + 1] = g[Len(t)] + s[1]
  <2>1. f[1] = g[0] + s[1] /\ Len(t) + 1 <= Len(s) /\ Len(t) \in Nat /\ 1 \in Nat
    BY <1>1, <1>4
  <2>2. \A k \in 1 .. Len(t) : s[k + 1] = t[k] /\ t[k] \in Nat
    BY <1>1
  <2>3. Len(s) \in Nat /\ s[1] \in Nat
    BY <1>1
  <2>4. /\ Sums(t, Len(t), g) /\ Sums(s, Len(s), f)
    BY <1>2, <1>3
  <2>5. Along(s, Len(s), f, t, Len(t), g, 1, s[1])
    BY <2>1, <2>2, <2>3, <2>4 DEF Along
  <2> QED
    BY <2>5, SumsAlong
<1>6. Len(t) + 1 = Len(s)
  BY <1>1
<1> QED
  BY <1>1, <1>2, <1>3, <1>4, <1>5, <1>6 DEF t

(***************************************************************************)
(* Channels.                                                               *)
(***************************************************************************)

Chunks == [type : {"chunk"}, item : Nat \ {0}, frag : Nat \ {0}]
Grants == [type : {"credit"}, n : Nat \ {0}]
Messages == Chunks \cup Grants \cup {End, Err}

LEMMA Kinds ==
    /\ \A m \in Messages : /\ m.type \in {"chunk", "credit", "end", "err"}
                           /\ m.type = "chunk" => m \in Chunks
                           /\ m.type = "credit" => m \in Grants /\ m.n \in Nat \ {0}
                           /\ m.type = "end" => m = End
                           /\ m.type = "err" => m = Err
    /\ \A m \in Chunks : m.type = "chunk" /\ m.item \in Nat \ {0} /\ m.frag \in Nat \ {0} /\ m # End
    /\ End.type = "end" /\ Err.type = "err"
    /\ \A n \in Nat \ {0} : Credit(n) \in Messages /\ Credit(n).type = "credit" /\ Credit(n).n = n
    /\ \A m, f \in Nat \ {0} : /\ Chunk(m, f) \in Chunks /\ Chunk(m, f).type = "chunk"
                               /\ Chunk(m, f).item = m /\ Chunk(m, f).frag = f
  BY DEF Messages, Chunks, Grants, End, Err, Credit, Chunk

ChunkWeight == [m \in Messages |-> IF m.type = "chunk" THEN 1 ELSE 0]
CreditWeight == [m \in Messages |-> IF m.type = "credit" THEN m.n ELSE 0]
Weights(ch, w) == [k \in DOMAIN ch |-> w[ch[k]]]

LEMMA Weighed ==
    ASSUME NEW ch \in Seq(Messages), NEW w \in [Messages -> Nat]
    PROVE  /\ Weights(ch, w) \in Seq(Nat) /\ Total(Weights(<<>>, w)) = 0
           /\ Total(Weights(ch, w)) \in Nat
           /\ \A m \in Messages : Total(Weights(Append(ch, m), w)) = Total(Weights(ch, w)) + w[m]
           /\ ch # <<>> => /\ Total(Weights(Tail(ch), w)) \in Nat
                           /\ Total(Weights(ch, w)) = w[Head(ch)] + Total(Weights(Tail(ch), w))
<1>1. ASSUME NEW c \in Seq(Messages)
      PROVE  /\ Weights(c, w) \in Seq(Nat) /\ Len(Weights(c, w)) = Len(c)
             /\ \A k \in 1 .. Len(c) : Weights(c, w)[k] = w[c[k]]
  <2>1. \A k \in 1 .. Len(c) : c[k] \in Messages /\ w[c[k]] \in Nat
    OBVIOUS
  <2>2. Weights(c, w) = [k \in 1 .. Len(c) |-> w[c[k]]]
    BY DEF Weights
  <2> QED
    BY <2>1, <2>2
<1>2. Total(Weights(<<>>, w)) = 0
  <2>1. Weights(<<>>, w) = <<>>
    BY DEF Weights
  <2> QED
    BY <2>1, TotalOfNone
<1>3. ASSUME NEW m \in Messages
      PROVE  Total(Weights(Append(ch, m), w)) = Total(Weights(ch, w)) + w[m]
  <2>1. /\ Append(ch, m) \in Seq(Messages) /\ Len(Append(ch, m)) = Len(ch) + 1
        /\ \A k \in 1 .. Len(ch) : Append(ch, m)[k] = ch[k]
        /\ Append(ch, m)[Len(ch) + 1] = m
    BY AppendProperties
  <2> DEFINE a == Weights(ch, w)
             b == Weights(Append(ch, m), w)
  <2>2. /\ a \in Seq(Nat) /\ Len(a) = Len(ch) /\ \A k \in 1 .. Len(ch) : a[k] = w[ch[k]]
        /\ b \in Seq(Nat) /\ Len(b) = Len(ch) + 1
        /\ \A k \in 1 .. Len(ch) + 1 : b[k] = w[Append(ch, m)[k]]
    BY <1>1, <2>1
  <2> HIDE DEF a, b
  <2>3. w[m] \in Nat
    OBVIOUS
  <2>4. b = Append(a, w[m])
    <3>1. /\ Append(a, w[m]) \in Seq(Nat) /\ Len(Append(a, w[m])) = Len(a) + 1
          /\ \A k \in 1 .. Len(a) : Append(a, w[m])[k] = a[k]
          /\ Append(a, w[m])[Len(a) + 1] = w[m]
      BY <2>2, <2>3, AppendProperties
    <3>2. \A k \in 1 .. Len(b) : b[k] = Append(a, w[m])[k]
      BY <2>1, <2>2, <3>1
    <3> QED
      BY <2>2, <3>1, <3>2, SeqEqual
  <2> QED
    BY <2>2, <2>3, <2>4, TotalAppended DEF a, b
<1>4. ASSUME ch # <<>>
      PROVE  /\ Total(Weights(Tail(ch), w)) \in Nat
             /\ Total(Weights(ch, w)) = w[Head(ch)] + Total(Weights(Tail(ch), w))
  <2>1. /\ Tail(ch) \in Seq(Messages) /\ Len(Tail(ch)) = Len(ch) - 1 /\ Len(ch) \in Nat \ {0}
        /\ Head(ch) = ch[1]
        /\ \A k \in 1 .. Len(Tail(ch)) : Tail(ch)[k] = ch[k + 1]
    BY <1>4, HeadTailProperties, EmptySeq
  <2> DEFINE a == Weights(ch, w)
             b == Weights(Tail(ch), w)
  <2>2. /\ a \in Seq(Nat) /\ Len(a) = Len(ch) /\ \A k \in 1 .. Len(ch) : a[k] = w[ch[k]]
        /\ b \in Seq(Nat) /\ Len(b) = Len(ch) - 1
        /\ \A k \in 1 .. Len(ch) - 1 : b[k] = w[Tail(ch)[k]]
    BY <1>1, <2>1
  <2> HIDE DEF a, b
  <2>3. a # <<>> /\ Head(a) = w[Head(ch)]
    BY <2>1, <2>2, EmptySeq
  <2>4. b = Tail(a)
    <3>1. /\ Tail(a) \in Seq(Nat) /\ Len(Tail(a)) = Len(a) - 1
          /\ \A k \in 1 .. Len(Tail(a)) : Tail(a)[k] = a[k + 1]
      BY <2>2, <2>3, HeadTailProperties
    <3>2. \A k \in 1 .. Len(b) : b[k] = Tail(a)[k]
      BY <2>1, <2>2, <3>1
    <3> QED
      BY <2>2, <3>1, <3>2, SeqEqual
  <2> QED
    BY <2>2, <2>3, <2>4, TotalOfRest DEF a, b
<1>5. Total(Weights(ch, w)) \in Nat
  BY <1>1, TotalAppended
<1> QED
  BY <1>1, <1>2, <1>3, <1>4, <1>5

\* What sending and receiving do to the chunks and the credits in a channel.
LEMMA Counted ==
    ASSUME NEW ch \in Seq(Messages)
    PROVE  /\ Count(<<>>) = 0 /\ Granted(<<>>) = 0
           /\ Count(ch) \in Nat /\ Granted(ch) \in Nat
           /\ \A m \in Messages :
                 /\ Count(Append(ch, m)) = Count(ch) + (IF m.type = "chunk" THEN 1 ELSE 0)
                 /\ Granted(Append(ch, m)) = Granted(ch) + (IF m.type = "credit" THEN m.n ELSE 0)
           /\ ch # <<>> =>
                 /\ Count(Tail(ch)) \in Nat /\ Granted(Tail(ch)) \in Nat
                 /\ Count(ch) = (IF Head(ch).type = "chunk" THEN 1 ELSE 0) + Count(Tail(ch))
                 /\ Granted(ch) = (IF Head(ch).type = "credit" THEN Head(ch).n ELSE 0)
                                     + Granted(Tail(ch))
<1>1. ChunkWeight \in [Messages -> Nat] /\ CreditWeight \in [Messages -> Nat]
  BY Kinds DEF ChunkWeight, CreditWeight
<1>2. ASSUME NEW c \in Seq(Messages)
      PROVE  Count(c) = Total(Weights(c, ChunkWeight)) /\ Granted(c) = Total(Weights(c, CreditWeight))
  <2>1. \A k \in DOMAIN c : c[k] \in Messages
    OBVIOUS
  <2>2. Weights(c, ChunkWeight) = [k \in DOMAIN c |-> IF c[k].type = "chunk" THEN 1 ELSE 0]
    BY <2>1 DEF Weights, ChunkWeight
  <2>3. Weights(c, CreditWeight) = [k \in DOMAIN c |-> IF c[k].type = "credit" THEN c[k].n ELSE 0]
    BY <2>1 DEF Weights, CreditWeight
  <2> QED
    BY <2>2, <2>3, Zenon DEF Count, Granted
<1>3. <<>> \in Seq(Messages)
  OBVIOUS
<1>4. Count(<<>>) = 0 /\ Granted(<<>>) = 0
  BY <1>1, <1>2, <1>3, Weighed
<1>5. Count(ch) \in Nat /\ Granted(ch) \in Nat
  BY <1>1, <1>2, Weighed
<1>6. ASSUME NEW m \in Messages
      PROVE  /\ Count(Append(ch, m)) = Count(ch) + (IF m.type = "chunk" THEN 1 ELSE 0)
             /\ Granted(Append(ch, m)) = Granted(ch) + (IF m.type = "credit" THEN m.n ELSE 0)
  <2>1. Append(ch, m) \in Seq(Messages)
    BY AppendProperties
  <2>2. /\ Count(Append(ch, m)) = Count(ch) + ChunkWeight[m]
        /\ Granted(Append(ch, m)) = Granted(ch) + CreditWeight[m]
    BY <1>1, <1>2, <2>1, Weighed
  <2> QED
    BY <2>2 DEF ChunkWeight, CreditWeight
<1>7. ASSUME ch # <<>>
      PROVE  /\ Count(Tail(ch)) \in Nat /\ Granted(Tail(ch)) \in Nat
             /\ Count(ch) = (IF Head(ch).type = "chunk" THEN 1 ELSE 0) + Count(Tail(ch))
             /\ Granted(ch) = (IF Head(ch).type = "credit" THEN Head(ch).n ELSE 0)
                                 + Granted(Tail(ch))
  <2>1. Tail(ch) \in Seq(Messages) /\ Head(ch) \in Messages
    BY <1>7, HeadTailProperties
  <2>2. /\ Count(Tail(ch)) \in Nat /\ Granted(Tail(ch)) \in Nat
        /\ Count(ch) = ChunkWeight[Head(ch)] + Count(Tail(ch))
        /\ Granted(ch) = CreditWeight[Head(ch)] + Granted(Tail(ch))
    BY <1>1, <1>2, <1>7, <2>1, Weighed
  <2> QED
    BY <2>1, <2>2 DEF ChunkWeight, CreditWeight
<1> QED
  BY <1>4, <1>5, <1>6, <1>7

(***************************************************************************)
(* The order of a stream.                                                  *)
(***************************************************************************)

\* The chunks of a stream whose items have F fragments, and what its channels
\* carry; which chunk of the stream a chunk is.
ChunksOf(F) == [type : {"chunk"}, item : 1 .. Items, frag : 1 .. F]
FramesOf(F) == ChunksOf(F) \cup Grants \cup {End, Err}
Place(c, F) == (c.item - 1) * F + c.frag

LEMMA FrameKinds ==
    ASSUME NEW F \in Nat \ {0}
    PROVE  /\ FramesOf(F) \subseteq Messages /\ ChunksOf(F) \subseteq FramesOf(F)
           /\ End \in FramesOf(F) /\ Err \in FramesOf(F)
           /\ \A n \in Nat \ {0} : Credit(n) \in FramesOf(F)
           /\ \A m \in 1 .. Items, f \in 1 .. F :
                 Chunk(m, f) \in ChunksOf(F) /\ Place(Chunk(m, f), F) = (m - 1) * F + f
           /\ \A c \in FramesOf(F) : /\ c.type = "chunk" <=> c \in ChunksOf(F)
                                     /\ c.type = "chunk" => Place(c, F) \in Nat
<1> USE ChainAssumption
<1>1. ChunksOf(F) \subseteq Chunks /\ ChunksOf(F) \subseteq FramesOf(F)
  BY DEF ChunksOf, Chunks, FramesOf
<1>2. FramesOf(F) \subseteq Messages
  BY <1>1 DEF FramesOf, Messages
<1>3. End \in FramesOf(F) /\ Err \in FramesOf(F)
  BY DEF FramesOf
<1>4. \A n \in Nat \ {0} : Credit(n) \in FramesOf(F)
  BY DEF FramesOf, Grants, Credit
<1>5. \A m \in 1 .. Items, f \in 1 .. F :
         Chunk(m, f) \in ChunksOf(F) /\ Place(Chunk(m, f), F) = (m - 1) * F + f
  BY DEF Chunk, ChunksOf, Place
<1>6. ASSUME NEW c \in FramesOf(F)
      PROVE  /\ c.type = "chunk" <=> c \in ChunksOf(F)
             /\ c.type = "chunk" => Place(c, F) \in Nat
  <2>1. c \in ChunksOf(F) => c.type = "chunk"
    BY DEF ChunksOf
  <2>2. c.type = "chunk" => c \in ChunksOf(F)
    BY DEF FramesOf, Grants, End, Err
  <2>3. ASSUME c \in ChunksOf(F) PROVE Place(c, F) \in Nat
    <3>1. c.item - 1 \in Nat /\ c.frag \in Nat
      BY <2>3 DEF ChunksOf
    <3>2. (c.item - 1) * F \in Nat
      BY <3>1
    <3> QED
      BY <3>1, <3>2 DEF Place
  <2> QED
    BY <2>1, <2>2, <2>3
<1> QED
  BY <1>1, <1>2, <1>3, <1>4, <1>5, <1>6

\* The chunks in a channel are those after number from, up to number to.
Consecutive(ch, F, from, to) ==
    /\ from \in Nat /\ to \in Nat /\ from <= to
    /\ \A k \in DOMAIN ch : ch[k].type = "chunk" => from < Place(ch[k], F) /\ Place(ch[k], F) <= to
    /\ \A j, k \in DOMAIN ch : j < k /\ ch[j].type = "chunk" /\ ch[k].type = "chunk"
                                 => Place(ch[j], F) < Place(ch[k], F)
    /\ \A p \in Nat : from < p /\ p <= to
                        => \E k \in DOMAIN ch : ch[k].type = "chunk" /\ Place(ch[k], F) = p

LEMMA NothingBetween ==
    ASSUME NEW F, NEW ch, NEW x, NEW y, Consecutive(ch, F, x, y),
           \A k \in DOMAIN ch : ch[k].type # "chunk"
    PROVE  x = y
<1>1. x \in Nat /\ y \in Nat /\ x <= y
  BY DEF Consecutive
<1>2. ~ (x < y)
  BY <1>1 DEF Consecutive
<1> QED
  BY <1>1, <1>2

LEMMA NothingYet ==
    ASSUME NEW F, NEW x \in Nat
    PROVE  Consecutive(<<>>, F, x, x)
BY DEF Consecutive

LEMMA ChunkAppended ==
    ASSUME NEW F \in Nat \ {0}, NEW ch \in Seq(FramesOf(F)), NEW c \in FramesOf(F), NEW x, NEW y,
           Consecutive(ch, F, x, y)
    PROVE  /\ c.type = "chunk" /\ Place(c, F) = y + 1 => Consecutive(Append(ch, c), F, x, y + 1)
           /\ c.type # "chunk" => Consecutive(Append(ch, c), F, x, y)
<1> DEFINE b == Append(ch, c)
           L == Len(ch)
<1>1. /\ L \in Nat /\ DOMAIN ch = 1 .. L /\ DOMAIN b = 1 .. L + 1
      /\ \A k \in 1 .. L : b[k] = ch[k]
      /\ b[L + 1] = c
  <2>1. b \in Seq(FramesOf(F)) /\ Len(b) = L + 1
    BY AppendProperties
  <2> QED
    BY <2>1, AppendProperties
<1>2. \A k \in 1 .. L : ch[k].type = "chunk" => Place(ch[k], F) \in Nat
  BY <1>1, FrameKinds
<1>3. x \in Nat /\ y \in Nat /\ x <= y
  BY DEF Consecutive
<1> HIDE DEF b, L
<1>4. \A k \in 1 .. L + 1 : k \in 1 .. L \/ k = L + 1
  BY <1>1
<1>5. ASSUME c.type = "chunk", Place(c, F) = y + 1 PROVE Consecutive(b, F, x, y + 1)
  <2>1. \A k \in DOMAIN b : b[k].type = "chunk" => x < Place(b[k], F) /\ Place(b[k], F) <= y + 1
    BY <1>1, <1>2, <1>3, <1>4, <1>5 DEF Consecutive
  <2>2. ASSUME NEW j \in DOMAIN b, NEW k \in DOMAIN b, j < k, b[j].type = "chunk", b[k].type = "chunk"
        PROVE  Place(b[j], F) < Place(b[k], F)
    <3>1. CASE k \in 1 .. L
      <4>1. j \in 1 .. L
        BY <1>1, <2>2, <3>1
      <4> QED
        BY <1>1, <2>2, <3>1, <4>1 DEF Consecutive
    <3>2. CASE k = L + 1
      <4>1. j \in 1 .. L
        BY <1>1, <2>2, <3>2
      <4>2. Place(ch[j], F) <= y /\ Place(ch[j], F) \in Nat
        BY <1>1, <1>2, <2>2, <4>1 DEF Consecutive
      <4> QED
        BY <1>1, <1>3, <1>5, <3>2, <4>1, <4>2
    <3> QED
      BY <1>1, <1>4, <3>1, <3>2
  <2>3. ASSUME NEW p \in Nat, x < p, p <= y + 1
        PROVE  \E k \in DOMAIN b : b[k].type = "chunk" /\ Place(b[k], F) = p
    <3>1. CASE p = y + 1
      <4>1. L + 1 \in DOMAIN b
        BY <1>1
      <4> QED
        BY <1>1, <1>5, <3>1, <4>1
    <3>2. CASE p # y + 1
      <4>1. PICK k \in DOMAIN ch : ch[k].type = "chunk" /\ Place(ch[k], F) = p
        BY <1>3, <2>3, <3>2 DEF Consecutive
      <4>2. k \in DOMAIN b /\ b[k] = ch[k]
        BY <1>1, <4>1
      <4> QED
        BY <4>1, <4>2
    <3> QED
      BY <3>1, <3>2
  <2>4. x \in Nat /\ y + 1 \in Nat /\ x <= y + 1
    BY <1>3
  <2> QED
    BY <2>1, <2>2, <2>3, <2>4 DEF Consecutive
<1>6. ASSUME c.type # "chunk" PROVE Consecutive(b, F, x, y)
  <2>1. \A k \in DOMAIN b : b[k].type = "chunk" => k \in DOMAIN ch /\ b[k] = ch[k]
    BY <1>1, <1>4, <1>6
  <2>2. \A k \in DOMAIN ch : k \in DOMAIN b /\ b[k] = ch[k]
    BY <1>1
  <2> QED
    BY <1>3, <2>1, <2>2 DEF Consecutive
<1> QED
  BY <1>5, <1>6 DEF b

LEMMA ChunkTaken ==
    ASSUME NEW F \in Nat \ {0}, NEW ch \in Seq(FramesOf(F)), ch # <<>>, NEW x, NEW y,
           Consecutive(ch, F, x, y)
    PROVE  /\ Head(ch).type = "chunk" => /\ Place(Head(ch), F) = x + 1
                                         /\ Consecutive(Tail(ch), F, x + 1, y)
           /\ Head(ch).type # "chunk" => Consecutive(Tail(ch), F, x, y)
<1> DEFINE b == Tail(ch)
           L == Len(ch)
<1>1. /\ L \in Nat \ {0} /\ DOMAIN ch = 1 .. L /\ DOMAIN b = 1 .. L - 1
      /\ \A k \in 1 .. L - 1 : b[k] = ch[k + 1]
      /\ Head(ch) = ch[1]
  <2>1. b \in Seq(FramesOf(F)) /\ Len(b) = L - 1
    BY HeadTailProperties
  <2> QED
    BY <2>1, HeadTailProperties, EmptySeq
<1>2. \A k \in 1 .. L : ch[k].type = "chunk" => Place(ch[k], F) \in Nat
  BY <1>1, FrameKinds
<1>3. x \in Nat /\ y \in Nat /\ x <= y
  BY DEF Consecutive
<1> HIDE DEF b, L
<1>4. 1 \in 1 .. L /\ \A k \in 1 .. L - 1 : k + 1 \in 1 .. L /\ 1 < k + 1
  BY <1>1
<1>5. \A k \in 1 .. L : k # 1 => k - 1 \in 1 .. L - 1 /\ (k - 1) + 1 = k /\ 1 < k
  BY <1>1
<1>6. ASSUME NEW j \in DOMAIN b, NEW k \in DOMAIN b, j < k, b[j].type = "chunk", b[k].type = "chunk"
      PROVE  Place(b[j], F) < Place(b[k], F)
  <2>1. j + 1 \in 1 .. L /\ k + 1 \in 1 .. L /\ j + 1 < k + 1 /\ b[j] = ch[j + 1] /\ b[k] = ch[k + 1]
    BY <1>1, <1>6
  <2> QED
    BY <1>1, <1>6, <2>1 DEF Consecutive
<1>7. ASSUME Head(ch).type = "chunk"
      PROVE  Place(Head(ch), F) = x + 1 /\ Consecutive(b, F, x + 1, y)
  <2>1. Place(Head(ch), F) \in Nat /\ x < Place(Head(ch), F) /\ Place(Head(ch), F) <= y
    BY <1>1, <1>2, <1>4, <1>7 DEF Consecutive
  <2>2. PICK k \in 1 .. L : ch[k].type = "chunk" /\ Place(ch[k], F) = x + 1
    <3>1. x + 1 \in Nat /\ x < x + 1 /\ x + 1 <= y
      BY <1>3, <2>1
    <3> QED
      BY <1>1, <3>1 DEF Consecutive
  <2>3. k = 1
    <3> SUFFICES ASSUME k # 1 PROVE FALSE
      OBVIOUS
    <3>1. Place(ch[1], F) < Place(ch[k], F)
      BY <1>1, <1>4, <1>5, <1>7, <2>2 DEF Consecutive
    <3> QED
      BY <1>1, <1>3, <2>1, <2>2, <3>1
  <2>4. Place(Head(ch), F) = x + 1
    BY <1>1, <2>2, <2>3
  <2>5. ASSUME NEW i \in DOMAIN b, b[i].type = "chunk"
        PROVE  x + 1 < Place(b[i], F) /\ Place(b[i], F) <= y
    <3>1. i + 1 \in 1 .. L /\ 1 < i + 1 /\ b[i] = ch[i + 1]
      BY <1>1, <1>4
    <3>2. Place(ch[1], F) < Place(ch[i + 1], F) /\ Place(ch[i + 1], F) <= y
      BY <1>1, <1>4, <1>7, <2>5, <3>1 DEF Consecutive
    <3> QED
      BY <1>1, <2>4, <3>1, <3>2
  <2>6. ASSUME NEW p \in Nat, x + 1 < p, p <= y
        PROVE  \E i \in DOMAIN b : b[i].type = "chunk" /\ Place(b[i], F) = p
    <3>1. x < p
      BY <1>3, <2>6
    <3>2. PICK i \in 1 .. L : ch[i].type = "chunk" /\ Place(ch[i], F) = p
      BY <1>1, <2>6, <3>1 DEF Consecutive
    <3>3. i # 1
      BY <1>1, <1>3, <2>4, <2>6, <3>2
    <3>4. i - 1 \in DOMAIN b /\ b[i - 1] = ch[i]
      <4>1. i - 1 \in 1 .. L - 1 /\ (i - 1) + 1 = i
        BY <1>5, <3>3
      <4>2. b[i - 1] = ch[(i - 1) + 1]
        BY <1>1, <4>1
      <4> QED
        BY <1>1, <4>1, <4>2
    <3> QED
      BY <3>2, <3>4
  <2>7. x + 1 \in Nat /\ y \in Nat /\ x + 1 <= y
    BY <1>3, <2>1
  <2> QED
    BY <1>6, <2>4, <2>5, <2>6, <2>7 DEF Consecutive
<1>8. ASSUME Head(ch).type # "chunk" PROVE Consecutive(b, F, x, y)
  <2>1. ASSUME NEW i \in DOMAIN b, b[i].type = "chunk"
        PROVE  x < Place(b[i], F) /\ Place(b[i], F) <= y
    BY <1>1, <1>4, <2>1 DEF Consecutive
  <2>2. ASSUME NEW p \in Nat, x < p, p <= y
        PROVE  \E i \in DOMAIN b : b[i].type = "chunk" /\ Place(b[i], F) = p
    <3>1. PICK i \in 1 .. L : ch[i].type = "chunk" /\ Place(ch[i], F) = p
      BY <1>1, <2>2 DEF Consecutive
    <3>2. i # 1
      BY <1>1, <1>8, <3>1
    <3>3. i - 1 \in DOMAIN b /\ b[i - 1] = ch[i]
      <4>1. i - 1 \in 1 .. L - 1 /\ (i - 1) + 1 = i
        BY <1>5, <3>2
      <4>2. b[i - 1] = ch[(i - 1) + 1]
        BY <1>1, <4>1
      <4> QED
        BY <1>1, <4>1, <4>2
    <3> QED
      BY <3>1, <3>3
  <2> QED
    BY <1>3, <1>6, <2>1, <2>2 DEF Consecutive
<1> QED
  BY <1>7, <1>8 DEF b

\* A number has one quotient and one remainder.
LEMMA Division ==
    ASSUME NEW F \in Nat \ {0}, NEW a \in Nat, NEW b \in Nat, NEW q \in 0 .. F - 1, NEW r \in 0 .. F - 1,
           a * F + q = b * F + r
    PROVE  a = b /\ q = r
<1>1. ASSUME NEW c \in Nat, NEW d \in Nat, c < d PROVE c * F + F <= d * F
  <2>1. (d - c) - 1 \in Nat
    BY <1>1
  <2>2. ((d - c) - 1) * F \in Nat
    BY <2>1
  <2>3. d * F = ((d - c) - 1) * F + c * F + F
    OBVIOUS
  <2>4. c * F \in Nat
    OBVIOUS
  <2> QED
    BY <2>2, <2>3, <2>4
<1>2. a * F \in Nat /\ b * F \in Nat
  OBVIOUS
<1>3. ~ (a < b)
  <2> SUFFICES ASSUME a < b PROVE FALSE
    OBVIOUS
  <2>1. a * F + F <= b * F
    BY <1>1
  <2> QED
    BY <1>2, <2>1
<1>4. ~ (b < a)
  <2> SUFFICES ASSUME b < a PROVE FALSE
    OBVIOUS
  <2>1. b * F + F <= a * F
    BY <1>1
  <2> QED
    BY <1>2, <2>1
<1>5. a = b
  BY <1>3, <1>4
<1> QED
  BY <1>2, <1>5

LEMMA Digits ==
    ASSUME NEW F \in Nat \ {0}, NEW a \in Nat, NEW q \in 0 .. F - 1
    PROVE  (a * F + q) \div F = a /\ (a * F + q) % F = q
<1> DEFINE n == a * F + q
<1>1. n \in Nat
  <2>1. a * F \in Nat
    OBVIOUS
  <2> QED
    BY <2>1
<1> HIDE DEF n
<1>2. n \div F \in Nat /\ n % F \in 0 .. F - 1 /\ n = F * (n \div F) + (n % F)
  BY <1>1
<1>3. (n \div F) * F + (n % F) = a * F + q
  BY <1>2 DEF n
<1> QED
  BY <1>2, <1>3, Division DEF n

LEMMA ItemChunks ==
    ASSUME NEW F \in Nat \ {0}, NEW m \in 1 .. Items
    PROVE  [f \in 1 .. F |-> Chunk(m, f)] \in Seq(ChunksOf(F))
<1> USE ChainAssumption
<1> DEFINE t == [f \in 1 .. F |-> Chunk(m, f)]
<1>1. \A f \in 1 .. F : t[f] \in ChunksOf(F)
  <2>1. \A f \in 1 .. F : t[f] = Chunk(m, f)
    OBVIOUS
  <2> HIDE DEF t
  <2> QED
    BY <2>1, FrameKinds
<1> QED
  BY <1>1

\* A handler that reads an item has its chunks to write.
LEMMA ItemAppended ==
    ASSUME NEW F \in Nat \ {0}, NEW ch \in Seq(ChunksOf(F)), NEW m \in 1 .. Items, NEW x, NEW y,
           Consecutive(ch, F, x, y), y = (m - 1) * F
    PROVE  /\ ch \o [f \in 1 .. F |-> Chunk(m, f)] \in Seq(ChunksOf(F))
           /\ Consecutive(ch \o [f \in 1 .. F |-> Chunk(m, f)], F, x, m * F)
<1> USE ChainAssumption
<1> DEFINE t == [f \in 1 .. F |-> Chunk(m, f)]
           b == ch \o t
           L == Len(ch)
<1>1. \A f \in 1 .. F : t[f] \in ChunksOf(F) /\ t[f].type = "chunk" /\ Place(t[f], F) = y + f
  <2>1. \A f \in 1 .. F : t[f] = Chunk(m, f)
    OBVIOUS
  <2> HIDE DEF t
  <2> QED
    BY <2>1, FrameKinds DEF Chunk
<1>2. t \in Seq(ChunksOf(F)) /\ Len(t) = F
  BY <1>1
<1> HIDE DEF t
<1>3. /\ L \in Nat /\ b \in Seq(ChunksOf(F)) /\ Len(b) = L + F
      /\ \A k \in 1 .. L + F : b[k] = IF k <= L THEN ch[k] ELSE t[k - L]
  <2>1. ch \in Seq(ChunksOf(F)) /\ Len(t) = F /\ t \in Seq(ChunksOf(F)) /\ L \in Nat
    BY <1>2
  <2>2. /\ b \in Seq(ChunksOf(F)) /\ Len(b) = Len(ch) + Len(t)
        /\ \A k \in 1 .. Len(ch) + Len(t) : b[k] = IF k <= Len(ch) THEN ch[k] ELSE t[k - Len(ch)]
    <3> DEFINE S == ChunksOf(F)
    <3> HIDE DEF S, b, L
    <3>1. ch \in Seq(S) /\ t \in Seq(S)
      BY <2>1 DEF S
    <3>2. /\ ch \o t \in Seq(S) /\ Len(ch \o t) = Len(ch) + Len(t)
          /\ \A k \in 1 .. Len(ch) + Len(t) : (ch \o t)[k] = IF k <= Len(ch) THEN ch[k] ELSE t[k - Len(ch)]
      BY <3>1, ConcatProperties
    <3> QED
      BY <3>2 DEF S, b
  <2> QED
    BY <2>1, <2>2
<1> HIDE DEF b
<1>4. \A k \in 1 .. L : ch[k] \in ChunksOf(F) /\ ch[k].type = "chunk" /\ Place(ch[k], F) \in Nat
  <2>1. \A k \in 1 .. L : ch[k] \in ChunksOf(F)
    OBVIOUS
  <2> QED
    BY <2>1, FrameKinds
<1>5. x \in Nat /\ y \in Nat /\ x <= y /\ m * F = y + F
  <2>1. m * F = (m - 1) * F + F
    OBVIOUS
  <2> QED
    BY <2>1 DEF Consecutive
<1>6. DOMAIN ch = 1 .. L /\ DOMAIN b = 1 .. L + F
  BY <1>3
<1> HIDE DEF L
<1>7. \A k \in 1 .. L : /\ k \in DOMAIN b /\ b[k] = ch[k] /\ b[k].type = "chunk"
                        /\ Place(b[k], F) = Place(ch[k], F) /\ Place(ch[k], F) \in Nat
                        /\ x < Place(ch[k], F) /\ Place(ch[k], F) <= y
  <2>1. \A k \in 1 .. L : k \in 1 .. L + F /\ k <= L
    BY <1>3
  <2>2. \A k \in 1 .. L : x < Place(ch[k], F) /\ Place(ch[k], F) <= y
    BY <1>4, <1>6 DEF Consecutive
  <2> QED
    BY <1>3, <1>4, <1>6, <2>1, <2>2
<1>8. \A f \in 1 .. F : /\ L + f \in DOMAIN b /\ b[L + f] = t[f] /\ b[L + f].type = "chunk"
                        /\ Place(b[L + f], F) = y + f
  <2>1. \A f \in 1 .. F : L + f \in 1 .. L + F /\ ~ (L + f <= L) /\ (L + f) - L = f
    BY <1>3
  <2>2. \A f \in 1 .. F : b[L + f] = t[(L + f) - L]
    BY <1>3, <2>1
  <2> QED
    BY <1>1, <1>6, <2>1, <2>2
<1>9. \A k \in DOMAIN b : k \in 1 .. L \/ (k - L \in 1 .. F /\ k = L + (k - L) /\ L < k)
  BY <1>3, <1>6
<1>10. ASSUME NEW k \in DOMAIN b PROVE x < Place(b[k], F) /\ Place(b[k], F) <= y + F
  <2>1. CASE k \in 1 .. L
    BY <1>5, <1>7, <2>1
  <2>2. CASE k - L \in 1 .. F /\ k = L + (k - L)
    <3>1. Place(b[k], F) = y + (k - L)
      BY <1>8, <2>2
    <3> QED
      BY <1>5, <2>2, <3>1
  <2> QED
    BY <1>9, <2>1, <2>2
<1>11. ASSUME NEW j \in DOMAIN b, NEW k \in DOMAIN b, j < k PROVE Place(b[j], F) < Place(b[k], F)
  <2>1. CASE k \in 1 .. L
    <3>1. j \in 1 .. L
      BY <1>3, <1>6, <1>11, <2>1
    <3>2. Place(ch[j], F) < Place(ch[k], F)
      BY <1>4, <1>6, <1>11, <2>1, <3>1 DEF Consecutive
    <3> QED
      BY <1>7, <2>1, <3>1, <3>2
  <2>2. CASE k - L \in 1 .. F /\ k = L + (k - L)
    <3>1. Place(b[k], F) = y + (k - L)
      BY <1>8, <2>2
    <3>2. CASE j \in 1 .. L
      <4>1. Place(b[j], F) <= y /\ Place(b[j], F) \in Nat
        BY <1>7, <3>2
      <4> QED
        BY <1>5, <2>2, <3>1, <4>1
    <3>3. CASE j - L \in 1 .. F /\ j = L + (j - L)
      <4>1. Place(b[j], F) = y + (j - L)
        BY <1>8, <3>3
      <4> QED
        BY <1>3, <1>5, <1>6, <1>11, <2>2, <3>1, <3>3, <4>1
    <3> QED
      BY <1>9, <3>2, <3>3
  <2> QED
    BY <1>9, <2>1, <2>2
<1>12. ASSUME NEW p \in Nat, x < p, p <= y + F
       PROVE  \E k \in DOMAIN b : b[k].type = "chunk" /\ Place(b[k], F) = p
  <2>1. CASE p <= y
    <3>1. PICK k \in DOMAIN ch : ch[k].type = "chunk" /\ Place(ch[k], F) = p
      BY <1>12, <2>1 DEF Consecutive
    <3> QED
      BY <1>6, <1>7, <3>1
  <2>2. CASE ~ (p <= y)
    <3>1. p - y \in 1 .. F /\ y + (p - y) = p
      BY <1>5, <1>12, <2>2
    <3>2. L + (p - y) \in DOMAIN b /\ b[L + (p - y)].type = "chunk" /\ Place(b[L + (p - y)], F) = p
      BY <1>8, <3>1
    <3> QED
      BY <3>2
  <2> QED
    BY <2>1, <2>2
<1>13. Consecutive(b, F, x, y + F)
  <2>1. y + F \in Nat /\ x <= y + F
    BY <1>5
  <2>2. \A k \in DOMAIN b : b[k].type = "chunk" => x < Place(b[k], F) /\ Place(b[k], F) <= y + F
    BY <1>10
  <2>3. \A j, k \in DOMAIN b : j < k /\ b[j].type = "chunk" /\ b[k].type = "chunk"
                                 => Place(b[j], F) < Place(b[k], F)
    BY <1>11
  <2>4. \A p \in Nat : x < p /\ p <= y + F
                         => \E k \in DOMAIN b : b[k].type = "chunk" /\ Place(b[k], F) = p
    BY <1>12
  <2> QED
    BY <1>5, <2>1, <2>2, <2>3, <2>4 DEF Consecutive
<1> QED
  BY <1>3, <1>5, <1>13 DEF b, t

(***************************************************************************)
(* Types.                                                                  *)
(***************************************************************************)

LEMMA Indices ==
    /\ N \in Nat \ {0} /\ N \in Caps /\ 1 \in Caps /\ Items \in Nat
    /\ Window \in Nat \ {0} /\ Batch(Window) \in Nat \ {0}
    /\ \A i \in Forwarders : /\ i \in Caps /\ i + 1 \in Caps /\ i # i + 1 /\ i # N /\ i + 1 # 1
                             /\ FramesIn(i + 1) = Frames[i]
    /\ \A i \in Caps : /\ i \in Nat \ {0} /\ i # N => i \in Forwarders
                       /\ i # 1 => i - 1 \in Forwarders /\ (i - 1) + 1 = i
                       /\ i - 1 # i
                       /\ Frames[i] \in Nat \ {0} /\ FramesIn(i) \in Nat \ {0}
                       /\ CapWindow[i] \in Nat \ {0} /\ Window <= CapWindow[i]
                       /\ Batch(CapWindow[i]) \in Nat \ {0}
<1> USE ChainAssumption DEF Caps, Forwarders
<1>1. N \in Nat \ {0} /\ N \in Caps /\ 1 \in Caps /\ Items \in Nat /\ Window \in Nat \ {0}
  OBVIOUS
<1>2. Batch(Window) \in Nat \ {0}
  BY DEF Batch
<1>3. \A i \in Forwarders : /\ i \in Caps /\ i + 1 \in Caps /\ i # i + 1 /\ i # N /\ i + 1 # 1
                            /\ FramesIn(i + 1) = Frames[i]
  BY DEF FramesIn
<1>4. ASSUME NEW i \in Caps
      PROVE  /\ i \in Nat \ {0} /\ i # N => i \in Forwarders
             /\ i # 1 => i - 1 \in Forwarders /\ (i - 1) + 1 = i
             /\ i - 1 # i
             /\ Frames[i] \in Nat \ {0} /\ FramesIn(i) \in Nat \ {0}
             /\ CapWindow[i] \in Nat \ {0} /\ Window <= CapWindow[i]
             /\ Batch(CapWindow[i]) \in Nat \ {0}
  <2>1. CapWindow[i] \in Nat \ {0} /\ Window <= CapWindow[i]
    OBVIOUS
  <2> QED
    BY <2>1 DEF FramesIn, Batch
<1> QED
  BY <1>1, <1>2, <1>3, <1>4

Feeds(i) == ChunksOf(FramesIn(i)) \cup {End}

\* Who does what.
Roles == /\ feed \in {"running", "done", "failed"}
         /\ collector \in {"running", "ok", "err"} /\ result \in {"none", "ok", "failed"}
         /\ cap \in [Caps -> {"running", "ended", "failed"}]
         /\ fwd \in [Forwarders -> {"running", "blocked", "done", "failed"}]
         /\ eof \in [Caps -> BOOLEAN] /\ live \in [Caps -> BOOLEAN]
         /\ \A i \in Caps : Running(i) => live[i]

\* How much there is.
Gates == gate \in [Caps -> [open : BOOLEAN, avail : Nat]]
Accounts == /\ acct \in [Caps -> Int] /\ owedIn \in [Caps -> Nat]
            /\ \A i \in Caps : owedIn[i] < Batch(CapWindow[i])
Returns == /\ outAvail \in [Caps -> Nat] /\ owedOut \in [Caps -> Nat] /\ grants \in [Caps -> Nat]
           /\ \A i \in Caps : owedOut[i] < Batch(Window)
Intake == /\ fed \in 0 .. Items /\ violated \subseteq Caps
          /\ part \in [Caps -> Nat] /\ \A i \in Caps : part[i] < FramesIn(i)
Amounts == Gates /\ Accounts /\ Returns /\ Intake

\* What is on its way.
ToCaps == toCap \in [Caps -> Seq(Messages)] /\ \A i \in Caps : toCap[i] \in Seq(Feeds(i))
FromCaps == /\ fromCap \in [Caps -> Seq(Messages)]
            /\ \A i \in Caps : fromCap[i] \in Seq(FramesOf(Frames[i]))
Outs == out \in [Caps -> Seq(Messages)] /\ \A i \in Caps : out[i] \in Seq(ChunksOf(Frames[i]))
Queues == queue \in [Caps -> Seq(1 .. Items)]
Collection == collected \in Seq(Nat \X Nat)
Channels == ToCaps /\ FromCaps /\ Outs /\ Queues /\ Collection

\* A forwarder that waits for the next cap's window holds a chunk.
Holding == \A i \in Forwarders :
              fwd[i] = "blocked" => fromCap[i] # <<>> /\ Head(fromCap[i]).type = "chunk"

Types == Roles /\ Amounts /\ Channels /\ Holding

LEMMA InitTypes == ASSUME Init PROVE Types
<1>0. ASSUME NEW i \in Caps PROVE 0 < FramesIn(i)
  <2>1. FramesIn(i) \in Nat \ {0}
    BY Indices
  <2> QED
    BY <2>1
<1> USE ChainAssumption, Indices DEF Init
<1>1. Roles
  BY DEF Roles, Running
<1>2. Gates
  BY DEF Gates
<1>4. Accounts
  BY SMTT(30) DEF Accounts
<1>5. Returns
  BY DEF Returns
<1>6. Intake
  <2>1. fed \in 0 .. Items /\ violated \subseteq Caps
    OBVIOUS
  <2>2. part \in [Caps -> Nat] /\ \A i \in Caps : part[i] = 0
    OBVIOUS
  <2> QED
    BY <1>0, <2>1, <2>2 DEF Intake
<1>3. Channels
  BY DEF Channels, ToCaps, FromCaps, Outs, Queues, Collection
<1>7. Holding
  BY DEF Holding
<1> QED
  BY <1>1, <1>2, <1>3, <1>4, <1>5, <1>6, <1>7 DEF Types, Amounts

\* What the operations that several actions share do to the counters.
LEMMA Spends ==
    ASSUME Gates, NEW i \in Caps, gate[i].avail > 0, gate' = [gate EXCEPT ![i].avail = @ - 1]
    PROVE  /\ Gates' /\ gate'[i].open = gate[i].open /\ gate'[i].avail = gate[i].avail - 1
           /\ \A j \in Caps : j # i => gate'[j] = gate[j]
BY DEF Gates

LEMMA Routes ==
    ASSUME Gates, NEW i \in Caps, Head(fromCap[i]).n \in Nat \ {0}, RouteCredit(i)
    PROVE  /\ Gates' /\ gate'[i].open = gate[i].open
           /\ gate'[i].avail = IF gate[i].open THEN gate[i].avail + Head(fromCap[i]).n ELSE gate[i].avail
           /\ \A j \in Caps : j # i => gate'[j] = gate[j]
<1>1. gate[i].open \in BOOLEAN /\ gate[i].avail \in Nat /\ Head(fromCap[i]).n \in Nat
  BY DEF Gates
<1>2. CASE gate[i].open
  <2>1. PICK n \in Nat : n = Head(fromCap[i]).n
    BY <1>1
  <2>2. gate' = [gate EXCEPT ![i].avail = @ + n]
    BY <1>2, <2>1 DEF RouteCredit
  <2>3. /\ Gates' /\ gate'[i].open = gate[i].open /\ gate'[i].avail = gate[i].avail + n
        /\ \A j \in Caps : j # i => gate'[j] = gate[j]
    BY <2>2 DEF Gates
  <2> QED
    BY <1>2, <2>1, <2>3
<1>3. CASE ~ gate[i].open
  <2>1. gate' = gate
    BY <1>3 DEF RouteCredit
  <2>2. Gates' /\ gate'[i].open = gate[i].open /\ \A j \in Caps : j # i => gate'[j] = gate[j]
    BY <2>1 DEF Gates
  <2>3. gate'[i].avail = IF gate[i].open THEN gate[i].avail + Head(fromCap[i]).n ELSE gate[i].avail
    BY <1>3, <2>1
  <2> QED
    BY <2>2, <2>3
<1> QED
  BY <1>2, <1>3

LEMMA Granting ==
    ASSUME Accounts, NEW i \in Caps, NEW n \in Nat, Grant(i, n)
    PROVE  Accounts'
<1>1. acct' \in [Caps -> Int]
  BY DEF Accounts, Grant
<1>2. owedIn' = [owedIn EXCEPT ![i] = 0] /\ \A j \in Caps : 0 < Batch(CapWindow[j])
  BY Indices DEF Grant
<1>3. owedIn' \in [Caps -> Nat] /\ \A j \in Caps : owedIn'[j] < Batch(CapWindow[j])
  BY <1>2 DEF Accounts
<1> QED
  BY <1>1, <1>3 DEF Accounts

LEMMA Counting ==
    ASSUME Returns, Roles, NEW i \in Caps, CountRead(i), UNCHANGED outAvail
    PROVE  Returns'
<1> USE Indices DEF Returns, CountRead, GrantBack
<1>1. outAvail' \in [Caps -> Nat]
  OBVIOUS
<1>2. owedOut' \in [Caps -> Nat] /\ \A j \in Caps : owedOut'[j] < Batch(Window)
  OBVIOUS
<1>3. grants' \in [Caps -> Nat]
  OBVIOUS
<1> QED
  BY <1>1, <1>2, <1>3

LEMMA Flushing ==
    ASSUME Returns, Roles, NEW i \in Caps, FlushBack(i), UNCHANGED outAvail
    PROVE  Returns'
<1> USE Indices DEF Returns, FlushBack, GrantBack
<1>1. outAvail' \in [Caps -> Nat]
  OBVIOUS
<1>2. owedOut' \in [Caps -> Nat] /\ \A j \in Caps : owedOut'[j] < Batch(Window)
  OBVIOUS
<1>3. grants' \in [Caps -> Nat]
  OBVIOUS
<1> QED
  BY <1>1, <1>2, <1>3

LEMMA NextRoles ==
    ASSUME Types, [Next]_vars
    PROVE  Roles'
<1> USE Indices DEF feeding, inside, engine
<1>0. Roles
  BY DEF Types
<1> DEFINE Task == {"running", "blocked", "done", "failed"}
<1>1. ASSUME UNCHANGED <<feed, collector, result, cap, eof, live, fwd>> PROVE Roles'
  BY <1>0, <1>1 DEF Roles, Running
<1>2. ASSUME NEW i \in Forwarders, NEW x \in Task, fwd' = [fwd EXCEPT ![i] = x],
             UNCHANGED <<feed, collector, result, cap, eof, live>>
      PROVE  Roles'
  <2>1. fwd' \in [Forwarders -> Task]
    BY <1>0, <1>2 DEF Roles
  <2> QED
    BY <1>0, <1>2, <2>1 DEF Roles, Running
<1>3. ASSUME NEW i \in Caps, NEW x \in {"ended", "failed"}, Running(i),
             cap' = [cap EXCEPT ![i] = x],
             UNCHANGED <<feed, collector, result, eof, live, fwd>>
      PROVE  Roles'
  <2>1. cap' \in [Caps -> {"running", "ended", "failed"}]
    BY <1>0, <1>3 DEF Roles
  <2>2. \A j \in Caps : Running(j)' => Running(j)
    BY <1>0, <1>3 DEF Roles, Running
  <2> QED
    BY <1>0, <1>3, <2>1, <2>2 DEF Roles
<1>4. CASE FeedEnds \/ FeedReleased
  <2>1. feed' \in {"running", "done", "failed"} /\ UNCHANGED <<collector, result, cap, eof, live, fwd>>
    BY <1>4 DEF FeedEnds, FeedReleased
  <2> QED
    BY <1>0, <2>1 DEF Roles, Running
<1>5. ASSUME NEW i \in Caps, Arrive(i) PROVE Roles'
  <2>1. UNCHANGED <<feed, collector, result, cap, live, fwd>>
    BY <1>5 DEF Arrive
  <2>2. UNCHANGED eof \/ eof' = [eof EXCEPT ![i] = TRUE]
    BY <1>5 DEF Arrive
  <2>3. eof' \in [Caps -> BOOLEAN]
    BY <1>0, <2>2 DEF Roles
  <2> QED
    BY <1>0, <2>1, <2>3 DEF Roles, Running
<1>6. ASSUME NEW i \in Caps, Finish(i) \/ StopEarly(i) PROVE Roles'
  <2>1. Running(i) /\ cap' = [cap EXCEPT ![i] = "ended"]
        /\ UNCHANGED <<feed, collector, result, eof, live, fwd>>
    BY <1>6 DEF Finish, StopEarly, Ends
  <2> QED
    BY <1>3, <2>1
<1>7. ASSUME NEW i \in Caps, Fail(i) PROVE Roles'
  <2>1. Running(i) /\ cap' = [cap EXCEPT ![i] = "failed"]
        /\ UNCHANGED <<feed, collector, result, eof, live, fwd>>
    BY <1>7 DEF Fail, Ends
  <2> QED
    BY <1>3, <2>1
<1>8. ASSUME NEW i \in Caps, Release(i) PROVE Roles'
  <2>1. ~ Running(i) /\ live' = [live EXCEPT ![i] = FALSE]
        /\ UNCHANGED <<feed, collector, result, cap, eof, fwd>>
    BY <1>8 DEF Release
  <2>2. live' \in [Caps -> BOOLEAN] /\ \A j \in Caps : Running(j) => live'[j]
    BY <1>0, <2>1 DEF Roles
  <2> QED
    BY <1>0, <2>1, <2>2 DEF Roles, Running
<1>9. ASSUME NEW i \in Forwarders, ForwardStep(i) PROVE Roles'
  <2>1. UNCHANGED <<feed, collector, result, cap, eof, live>>
    BY <1>9 DEF ForwardStep, ForwardChunk, ForwardBlocked, ForwardReleased, ForwardCredit,
       ForwardEnd, ForwardErr, ForwardIdle
  <2>2. UNCHANGED fwd \/ \E x \in Task : fwd' = [fwd EXCEPT ![i] = x]
    BY <1>9 DEF ForwardStep, ForwardChunk, SendOn, ForwardBlocked, ForwardReleased, ForwardCredit,
       ForwardEnd, ForwardErr, ForwardIdle
  <2> QED
    BY <1>1, <1>2, <2>1, <2>2
<1>10. CASE CollectTerminal \/ Join
  <2>1. /\ collector' \in {"running", "ok", "err"} /\ result' \in {"none", "ok", "failed"}
        /\ UNCHANGED <<feed, cap, eof, live, fwd>>
    BY <1>0, <1>10 DEF CollectTerminal, Join, Roles
  <2> QED
    BY <1>0, <2>1 DEF Roles, Running
<1>11. CASE FeedItem
  <2>1. feed' \in {"running", "done", "failed"} /\ UNCHANGED <<collector, result, cap, eof, live, fwd>>
    BY <1>11 DEF FeedItem
  <2> QED
    BY <1>0, <2>1 DEF Roles, Running
<1>12. CASE Collect \/ CollectCredit \/ CollectIdle \/ CloseGates
  <2>1. UNCHANGED <<feed, collector, result, cap, eof, live, fwd>>
    BY <1>12 DEF Collect, CollectCredit, CollectIdle, CloseGates
  <2> QED
    BY <1>1, <2>1
<1>13. ASSUME NEW i \in Caps,
              Read(i) \/ FlushBeforeWait(i) \/ Emit(i) \/ GrantArrives(i)
       PROVE  Roles'
  <2>1. UNCHANGED <<feed, collector, result, cap, eof, live, fwd>>
    BY <1>13 DEF Read, FlushBeforeWait, Emit, GrantArrives
  <2> QED
    BY <1>1, <2>1
<1>14. CASE UNCHANGED vars
  BY <1>1, <1>14 DEF vars
<1> QED
  BY <1>4, <1>5, <1>6, <1>7, <1>8, <1>9, <1>10, <1>11, <1>12, <1>13, <1>14
     DEF Next, FeedStep, HandlerStep, RunStep

LEMMA CreditAtHead ==
    ASSUME Types, NEW i \in Caps, Heads(fromCap[i], "credit")
    PROVE  Head(fromCap[i]).n \in Nat \ {0}
<1>1. fromCap[i] \in Seq(Messages) /\ fromCap[i] # <<>> /\ Head(fromCap[i]).type = "credit"
  BY DEF Types, Channels, FromCaps, Heads
<1>2. Head(fromCap[i]) \in Messages
  BY <1>1, HeadTailProperties
<1> QED
  BY <1>1, <1>2, Kinds

LEMMA NextGates ==
    ASSUME Types, [Next]_vars
    PROVE  Gates'
<1> USE Indices DEF feeding, inside, engine
<1>1. CASE FeedItem
  <2>1. gate[1].avail > 0 /\ gate' = [gate EXCEPT ![1].avail = @ - 1]
    BY <1>1 DEF FeedItem
  <2> QED
    BY <2>1, Indices, Spends DEF Types, Amounts
<1>2. ASSUME NEW i \in Forwarders, ForwardChunk(i) PROVE Gates'
  <2>1. CASE gate[i + 1].avail > 0 /\ gate' = [gate EXCEPT ![i + 1].avail = @ - 1]
    BY <2>1, Spends DEF Types, Amounts
  <2>2. CASE UNCHANGED gate
    BY <2>2 DEF Types, Amounts, Gates
  <2> QED
    BY <1>2, <2>1, <2>2 DEF ForwardChunk, SendOn
<1>3. ASSUME NEW i \in Forwarders, ForwardBlocked(i) PROVE Gates'
  <2>1. CASE gate[i + 1].avail > 0 /\ gate' = [gate EXCEPT ![i + 1].avail = @ - 1]
    BY <2>1, Spends DEF Types, Amounts
  <2>2. CASE UNCHANGED gate
    BY <2>2 DEF Types, Amounts, Gates
  <2> QED
    BY <1>3, <2>1, <2>2 DEF ForwardBlocked, SendOn
<1>4. ASSUME NEW i \in Forwarders, ForwardCredit(i) PROVE Gates'
  <2>1. Head(fromCap[i]).n \in Nat \ {0}
    BY <1>4, CreditAtHead DEF ForwardCredit
  <2>2. RouteCredit(i)
    BY <1>4 DEF ForwardCredit
  <2> QED
    BY <2>1, <2>2, Routes DEF Types, Amounts
<1>5. CASE CollectCredit
  <2>1. Head(fromCap[N]).n \in Nat \ {0}
    BY <1>5, CreditAtHead DEF CollectCredit
  <2>2. RouteCredit(N)
    BY <1>5 DEF CollectCredit
  <2> QED
    BY <2>1, <2>2, Routes DEF Types, Amounts
<1>6. CASE CloseGates
  <2>1. gate' = [i \in Caps |-> [gate[i] EXCEPT !.open = FALSE]]
    BY <1>6 DEF CloseGates
  <2>2. \A i \in Caps : gate[i] \in [open : BOOLEAN, avail : Nat]
    BY DEF Types, Amounts, Gates
  <2>3. ASSUME NEW i \in Caps PROVE [gate[i] EXCEPT !.open = FALSE] \in [open : BOOLEAN, avail : Nat]
    <3> DEFINE g == gate[i]
    <3>1. g \in [open : BOOLEAN, avail : Nat]
      BY <2>2
    <3> HIDE DEF g
    <3>2. [g EXCEPT !.open = FALSE] \in [open : BOOLEAN, avail : Nat]
      BY <3>1
    <3> QED
      BY <3>2 DEF g
  <2> QED
    BY <2>1, <2>3 DEF Gates
<1>7. CASE FeedEnds \/ FeedReleased \/ Collect \/ CollectIdle \/ CollectTerminal \/ Join
  <2>1. UNCHANGED gate
    BY <1>7 DEF FeedEnds, FeedReleased, Collect, Take, CountRead, GrantBack, Heads,
       CollectIdle, FlushBack, CollectTerminal, Join
  <2> QED
    BY <2>1 DEF Types, Amounts, Gates
<1>8. ASSUME NEW i \in Caps,
             Arrive(i) \/ Read(i) \/ FlushBeforeWait(i) \/ Emit(i) \/ Finish(i) \/ StopEarly(i)
             \/ Fail(i) \/ Release(i) \/ GrantArrives(i)
      PROVE  Gates'
  <2>1. UNCHANGED gate
    BY <1>8 DEF Arrive, TakeChunk, Read, MayRead, Grant, FlushBeforeWait, Emit, Finish, Ends,
       StopEarly, Fail, Release, GrantArrives
  <2> QED
    BY <2>1 DEF Types, Amounts, Gates
<1>9. ASSUME NEW i \in Forwarders,
             ForwardReleased(i) \/ ForwardEnd(i) \/ ForwardErr(i) \/ ForwardIdle(i)
      PROVE  Gates'
  <2>1. UNCHANGED gate
    BY <1>9 DEF ForwardReleased, Take, Heads, ForwardEnd, ForwardErr, ForwardIdle, FlushBack,
       GrantBack
  <2> QED
    BY <2>1 DEF Types, Amounts, Gates
<1>10. CASE UNCHANGED vars
  BY <1>10 DEF vars, Types, Amounts, Gates
<1> QED
  BY <1>1, <1>2, <1>3, <1>4, <1>5, <1>6, <1>7, <1>8, <1>9, <1>10
     DEF Next, FeedStep, HandlerStep, ForwardStep, RunStep

LEMMA NextAccounts ==
    ASSUME Types, [Next]_vars
    PROVE  Accounts'
<1> USE Indices DEF feeding, inside, engine, Types, Amounts
<1>1. ASSUME NEW i \in Caps, Arrive(i) PROVE Accounts'
  <2>1. UNCHANGED owedIn
    BY <1>1 DEF Accounts, Arrive
  <2>2. UNCHANGED acct \/ acct' = [acct EXCEPT ![i] = @ - 1]
    BY <1>1 DEF Accounts, Arrive, TakeChunk
  <2>3. acct' \in [Caps -> Int]
    BY <2>2 DEF Accounts, Accounts
  <2> QED
    BY <2>1, <2>3 DEF Accounts, Accounts
<1>2. ASSUME NEW i \in Caps, Read(i) PROVE Accounts'
  <2>1. CASE owedIn[i] + 1 >= Batch(CapWindow[i])
    <3>1. Grant(i, owedIn[i] + 1) /\ owedIn[i] + 1 \in Nat
      BY <1>2, <2>1, SMTT(30) DEF Read, Accounts
    <3> QED
      BY <3>1, Granting
  <2>2. CASE ~ (owedIn[i] + 1 >= Batch(CapWindow[i]))
    <3>1. UNCHANGED acct /\ owedIn' = [owedIn EXCEPT ![i] = @ + 1]
      BY <1>2, <2>2 DEF Read
    <3>2. owedIn' \in [Caps -> Nat] /\ \A j \in Caps : owedIn'[j] < Batch(CapWindow[j])
      BY <2>2, <3>1 DEF Accounts
    <3> QED
      BY <3>1, <3>2 DEF Accounts
  <2> QED
    BY <2>1, <2>2
<1>3. ASSUME NEW i \in Caps, FlushBeforeWait(i) PROVE Accounts'
  <2>1. Grant(i, owedIn[i]) /\ owedIn[i] \in Nat
    BY <1>3 DEF FlushBeforeWait, Accounts
  <2> QED
    BY <2>1, Granting
<1>4. CASE FeedItem \/ FeedEnds \/ FeedReleased \/ Collect \/ CollectCredit \/ CollectIdle \/
           CollectTerminal \/ CloseGates \/ Join
  <2>1. UNCHANGED <<acct, owedIn>>
    BY <1>4 DEF FeedItem, FeedEnds, FeedReleased, Collect, Take, CountRead, GrantBack, Heads,
       CollectCredit, RouteCredit, CollectIdle, FlushBack, CollectTerminal, CloseGates, Join
  <2> QED
    BY <2>1 DEF Accounts
<1>5. ASSUME NEW i \in Caps,
             Emit(i) \/ Finish(i) \/ StopEarly(i) \/ Fail(i) \/ Release(i) \/ GrantArrives(i)
      PROVE  Accounts'
  <2>1. UNCHANGED <<acct, owedIn>>
    BY <1>5 DEF Emit, Finish, Ends, StopEarly, Fail, Release, GrantArrives
  <2> QED
    BY <2>1 DEF Accounts
<1>6. ASSUME NEW i \in Forwarders,
             ForwardChunk(i) \/ ForwardBlocked(i) \/ ForwardReleased(i) \/ ForwardCredit(i) \/
             ForwardEnd(i) \/ ForwardErr(i) \/ ForwardIdle(i)
      PROVE  Accounts'
  <2>1. UNCHANGED <<acct, owedIn>>
    BY <1>6 DEF ForwardChunk, SendOn, CountRead, GrantBack, FlushBack, Take, Heads,
       ForwardBlocked, ForwardReleased, ForwardCredit, RouteCredit, ForwardEnd, ForwardErr,
       ForwardIdle
  <2> QED
    BY <2>1 DEF Accounts
<1>7. CASE UNCHANGED vars
  BY <1>7 DEF vars, Accounts
<1> QED
  BY <1>1, <1>2, <1>3, <1>4, <1>5, <1>6, <1>7
     DEF Next, FeedStep, HandlerStep, ForwardStep, RunStep

LEMMA NextReturns ==
    ASSUME Types, [Next]_vars
    PROVE  Returns'
<1> USE Indices DEF feeding, inside, engine, Types, Amounts
<1>1. ASSUME NEW i \in Caps, Emit(i) PROVE Returns'
  <2>1. outAvail[i] > 0 /\ outAvail' = [outAvail EXCEPT ![i] = @ - 1] /\ UNCHANGED <<owedOut, grants>>
    BY <1>1 DEF Emit
  <2>2. outAvail' \in [Caps -> Nat]
    BY <2>1 DEF Returns
  <2> QED
    BY <2>1, <2>2 DEF Returns
<1>2. ASSUME NEW i \in Caps, GrantArrives(i) PROVE Returns'
  <2>1. PICK n \in 1 .. grants[i] : /\ grants' = [grants EXCEPT ![i] = @ - n]
                                    /\ outAvail' = IF Running(i) THEN [outAvail EXCEPT ![i] = @ + n] ELSE outAvail
    BY <1>2 DEF GrantArrives
  <2>2. grants[i] \in Nat /\ n \in Nat /\ grants[i] - n \in Nat
    BY <2>1 DEF Returns
  <2>3. grants' \in [Caps -> Nat] /\ outAvail' \in [Caps -> Nat]
    BY <2>1, <2>2 DEF Returns
  <2>4. UNCHANGED owedOut
    BY <1>2 DEF GrantArrives
  <2> QED
    BY <2>3, <2>4 DEF Returns
<1>3. ASSUME NEW i \in Forwarders, ForwardChunk(i) PROVE Returns'
  <2>1. CASE CountRead(i) /\ UNCHANGED outAvail
    BY <2>1, Counting
  <2>2. CASE FlushBack(i) /\ UNCHANGED outAvail
    BY <2>2, Flushing
  <2>3. CASE UNCHANGED <<owedOut, grants, outAvail>>
    BY <2>3 DEF Returns
  <2> QED
    BY <1>3, <2>1, <2>2, <2>3 DEF ForwardChunk, SendOn
<1>4. ASSUME NEW i \in Forwarders, ForwardBlocked(i) PROVE Returns'
  <2>1. CASE CountRead(i) /\ UNCHANGED outAvail
    BY <2>1, Counting
  <2>2. CASE FlushBack(i) /\ UNCHANGED outAvail
    BY <2>2, Flushing
  <2>3. CASE UNCHANGED <<owedOut, grants, outAvail>>
    BY <2>3 DEF Returns
  <2> QED
    BY <1>4, <2>1, <2>2, <2>3 DEF ForwardBlocked, SendOn
<1>5. ASSUME NEW i \in Forwarders, ForwardIdle(i) PROVE Returns'
  BY <1>5, Flushing DEF ForwardIdle
<1>6. CASE Collect
  BY <1>6, Counting DEF Collect
<1>7. CASE CollectIdle
  BY <1>7, Flushing DEF CollectIdle
<1>8. CASE FeedItem \/ FeedEnds \/ FeedReleased \/ CollectCredit \/ CollectTerminal \/
           CloseGates \/ Join
  <2>1. UNCHANGED <<owedOut, grants, outAvail>>
    BY <1>8 DEF FeedItem, FeedEnds, FeedReleased, CollectCredit, RouteCredit, Take, Heads,
       CollectTerminal, CloseGates, Join
  <2> QED
    BY <2>1 DEF Returns
<1>9. ASSUME NEW i \in Caps,
             Arrive(i) \/ Read(i) \/ FlushBeforeWait(i) \/ Finish(i) \/ StopEarly(i) \/ Fail(i)
             \/ Release(i)
      PROVE  Returns'
  <2>1. UNCHANGED <<owedOut, grants, outAvail>>
    BY <1>9 DEF Arrive, TakeChunk, Read, MayRead, Grant, FlushBeforeWait, Finish, Ends,
       StopEarly, Fail, Release
  <2> QED
    BY <2>1 DEF Returns
<1>10. ASSUME NEW i \in Forwarders,
             ForwardReleased(i) \/ ForwardCredit(i) \/ ForwardEnd(i) \/ ForwardErr(i)
      PROVE  Returns'
  <2>1. UNCHANGED <<owedOut, grants, outAvail>>
    BY <1>10 DEF ForwardReleased, Take, Heads, ForwardCredit, RouteCredit, ForwardEnd,
       ForwardErr
  <2> QED
    BY <2>1 DEF Returns
<1>11. CASE UNCHANGED vars
  BY <1>11 DEF vars, Returns
<1> QED
  BY <1>1, <1>2, <1>3, <1>4, <1>5, <1>6, <1>7, <1>8, <1>9, <1>10, <1>11
     DEF Next, FeedStep, HandlerStep, ForwardStep, RunStep


LEMMA ChunkAtHead ==
    ASSUME Types, NEW i \in Caps, toCap[i] # <<>>
    PROVE  /\ Head(toCap[i]) = End \/ Head(toCap[i]) \in ChunksOf(FramesIn(i))
           /\ Head(toCap[i]) # End => /\ Head(toCap[i]).item \in 1 .. Items
                                      /\ Head(toCap[i]).frag \in 1 .. FramesIn(i)
                                      /\ Head(toCap[i]).type = "chunk"
<1>1. toCap[i] \in Seq(Feeds(i))
  BY DEF Types, Channels, ToCaps
<1>2. Head(toCap[i]) \in Feeds(i)
  BY <1>1, HeadTailProperties
<1> QED
  BY <1>2 DEF Feeds, ChunksOf

LEMMA NextIntake ==
    ASSUME Types, [Next]_vars
    PROVE  Intake'
<1> USE Indices DEF feeding, inside, engine
<1>1. CASE FeedItem
  BY <1>1, SMTT(30) DEF FeedItem, Types, Amounts, Intake
<1>2. ASSUME NEW i \in Caps, Arrive(i) PROVE Intake'
  <2>1. /\ part \in [Caps -> Nat] /\ \A j \in Caps : part[j] < FramesIn(j)
        /\ violated \subseteq Caps /\ fed \in 0 .. Items
    BY DEF Types, Amounts, Intake
  <2>2. UNCHANGED fed
    BY <1>2 DEF Arrive
  <2>3. CASE UNCHANGED <<part, violated>>
    BY <2>1, <2>2, <2>3 DEF Intake
  <2>4. CASE ~ (UNCHANGED <<part, violated>>)
    <3>1. Head(toCap[i]) # End /\ TakeChunk(i, Head(toCap[i]).item, Head(toCap[i]).frag)
      BY <1>2, <2>4 DEF Arrive
    <3>2. Head(toCap[i]).frag \in 1 .. FramesIn(i)
      BY <1>2, <3>1, ChunkAtHead DEF Arrive
    <3>3. violated' \subseteq Caps
      <4>1. violated' = violated \/ violated' = violated \cup {i}
        BY <3>1 DEF TakeChunk
      <4> QED
        BY <2>1, <4>1
    <3>4. \/ UNCHANGED part
          \/ part' = [part EXCEPT ![i] = IF Head(toCap[i]).frag = FramesIn(i) THEN 0 ELSE Head(toCap[i]).frag]
      BY <3>1 DEF TakeChunk
    <3>5. FramesIn(i) \in Nat \ {0}
      OBVIOUS
    <3>6. part' \in [Caps -> Nat] /\ \A j \in Caps : part'[j] < FramesIn(j)
      BY <2>1, <3>2, <3>4, <3>5, SMTT(30)
    <3> QED
      BY <2>1, <2>2, <3>3, <3>6 DEF Intake
  <2> QED
    BY <2>3, <2>4
<1>3. CASE FeedEnds \/ FeedReleased \/ Collect \/ CollectCredit \/ CollectIdle \/
           CollectTerminal \/ CloseGates \/ Join
  <2>1. UNCHANGED <<fed, part, violated>>
    BY <1>3 DEF FeedEnds, FeedReleased, Collect, Take, CountRead, GrantBack, Heads,
       CollectCredit, RouteCredit, CollectIdle, FlushBack, CollectTerminal, CloseGates, Join
  <2> QED
    BY <2>1 DEF Types, Amounts, Intake
<1>4. ASSUME NEW i \in Caps,
             Read(i) \/ FlushBeforeWait(i) \/ Emit(i) \/ Finish(i) \/ StopEarly(i) \/ Fail(i) \/
             Release(i) \/ GrantArrives(i)
      PROVE  Intake'
  <2>1. UNCHANGED <<fed, part, violated>>
    BY <1>4 DEF Read, MayRead, Grant, FlushBeforeWait, Emit, Finish, Ends, StopEarly, Fail,
       Release, GrantArrives
  <2> QED
    BY <2>1 DEF Types, Amounts, Intake
<1>5. ASSUME NEW i \in Forwarders,
             ForwardChunk(i) \/ ForwardBlocked(i) \/ ForwardReleased(i) \/ ForwardCredit(i) \/
             ForwardEnd(i) \/ ForwardErr(i) \/ ForwardIdle(i)
      PROVE  Intake'
  <2>1. UNCHANGED <<fed, part, violated>>
    BY <1>5 DEF ForwardChunk, SendOn, CountRead, GrantBack, FlushBack, Take, Heads,
       ForwardBlocked, ForwardReleased, ForwardCredit, RouteCredit, ForwardEnd, ForwardErr,
       ForwardIdle
  <2> QED
    BY <2>1 DEF Types, Amounts, Intake
<1>6. CASE UNCHANGED vars
  BY <1>6 DEF vars, Types, Amounts, Intake
<1> QED
  BY <1>1, <1>2, <1>3, <1>4, <1>5, <1>6
     DEF Next, FeedStep, HandlerStep, ForwardStep, RunStep


LEMMA NextAmounts ==
    ASSUME Types, [Next]_vars
    PROVE  Amounts'
BY NextGates, NextAccounts, NextReturns, NextIntake DEF Amounts

LEMMA InputGrows ==
    ASSUME ToCaps, NEW i \in Caps, NEW x \in Feeds(i), toCap' = [toCap EXCEPT ![i] = Append(@, x)]
    PROVE  ToCaps'
<1>1. x \in Messages
  BY Indices, FrameKinds DEF Feeds, Messages, FramesOf
<1>2. Append(toCap[i], x) \in Seq(Messages) /\ Append(toCap[i], x) \in Seq(Feeds(i))
  BY <1>1 DEF ToCaps
<1>3. \A j \in Caps : toCap'[j] = IF j = i THEN Append(toCap[i], x) ELSE toCap[j]
  BY DEF ToCaps
<1>4. toCap' \in [Caps -> Seq(Messages)]
  BY <1>2 DEF ToCaps
<1> QED
  BY <1>2, <1>3, <1>4 DEF ToCaps

LEMMA InputShrinks ==
    ASSUME ToCaps, NEW i \in Caps, toCap[i] # <<>>, toCap' = [toCap EXCEPT ![i] = Tail(@)]
    PROVE  ToCaps'
<1>1. Tail(toCap[i]) \in Seq(Messages) /\ Tail(toCap[i]) \in Seq(Feeds(i))
  BY HeadTailProperties DEF ToCaps
<1>2. \A j \in Caps : toCap'[j] = IF j = i THEN Tail(toCap[i]) ELSE toCap[j]
  BY DEF ToCaps
<1>3. toCap' \in [Caps -> Seq(Messages)]
  BY <1>1 DEF ToCaps
<1> QED
  BY <1>1, <1>2, <1>3 DEF ToCaps

LEMMA OutputGrows ==
    ASSUME FromCaps, NEW i \in Caps, NEW x \in FramesOf(Frames[i]),
           fromCap' = [fromCap EXCEPT ![i] = Append(@, x)]
    PROVE  FromCaps'
<1>1. x \in Messages
  BY Indices, FrameKinds DEF Feeds, Messages, FramesOf
<1>2. Append(fromCap[i], x) \in Seq(Messages) /\ Append(fromCap[i], x) \in Seq(FramesOf(Frames[i]))
  BY <1>1 DEF FromCaps
<1>3. \A j \in Caps : fromCap'[j] = IF j = i THEN Append(fromCap[i], x) ELSE fromCap[j]
  BY DEF FromCaps
<1>4. fromCap' \in [Caps -> Seq(Messages)]
  BY <1>2 DEF FromCaps
<1> QED
  BY <1>2, <1>3, <1>4 DEF FromCaps

LEMMA OutputShrinks ==
    ASSUME FromCaps, NEW i \in Caps, fromCap[i] # <<>>, fromCap' = [fromCap EXCEPT ![i] = Tail(@)]
    PROVE  FromCaps'
<1>1. Tail(fromCap[i]) \in Seq(Messages) /\ Tail(fromCap[i]) \in Seq(FramesOf(Frames[i]))
  BY HeadTailProperties DEF FromCaps
<1>2. \A j \in Caps : fromCap'[j] = IF j = i THEN Tail(fromCap[i]) ELSE fromCap[j]
  BY DEF FromCaps
<1>3. fromCap' \in [Caps -> Seq(Messages)]
  BY <1>1 DEF FromCaps
<1> QED
  BY <1>1, <1>2, <1>3 DEF FromCaps

LEMMA HeadOfOutput ==
    ASSUME Types, NEW i \in Caps, fromCap[i] # <<>>
    PROVE  /\ fromCap[i] \in Seq(FramesOf(Frames[i])) /\ Head(fromCap[i]) \in FramesOf(Frames[i])
           /\ Head(fromCap[i]).type = "chunk" => Head(fromCap[i]) \in ChunksOf(Frames[i])
<1>1. fromCap[i] \in Seq(FramesOf(Frames[i]))
  BY DEF Types, Channels, FromCaps
<1>2. Head(fromCap[i]) \in FramesOf(Frames[i])
  BY <1>1, HeadTailProperties
<1> QED
  BY <1>1, <1>2, Indices, FrameKinds

LEMMA OutShrinks ==
    ASSUME Outs, NEW i \in Caps, out[i] # <<>>, out' = [out EXCEPT ![i] = Tail(@)]
    PROVE  Outs'
<1>1. Tail(out[i]) \in Seq(Messages) /\ Tail(out[i]) \in Seq(ChunksOf(Frames[i]))
  BY HeadTailProperties DEF Outs
<1>2. \A j \in Caps : out'[j] = IF j = i THEN Tail(out[i]) ELSE out[j]
  BY DEF Outs
<1>3. out' \in [Caps -> Seq(Messages)]
  BY <1>1 DEF Outs
<1> QED
  BY <1>1, <1>2, <1>3 DEF Outs

LEMMA HeadOfOut ==
    ASSUME Types, NEW i \in Caps, out[i] # <<>>
    PROVE  Head(out[i]) \in ChunksOf(Frames[i])
<1>1. out[i] \in Seq(ChunksOf(Frames[i]))
  BY DEF Types, Channels, Outs
<1> QED
  BY <1>1, HeadTailProperties

LEMMA NextToCaps ==
    ASSUME Types, [Next]_vars
    PROVE  ToCaps'
<1> USE Indices DEF feeding, inside, engine
<1>1. CASE FeedItem
  <2>1. CASE live[1]
    <3>1. toCap' = [toCap EXCEPT ![1] = Append(@, Chunk(fed + 1, 1))]
      BY <1>1, <2>1 DEF FeedItem
    <3>2. fed + 1 \in 1 .. Items /\ 1 \in 1 .. FramesIn(1)
      BY <1>1 DEF FeedItem, Types, Amounts, Intake, FramesIn
    <3>3. Chunk(fed + 1, 1) \in Feeds(1) /\ 1 \in Caps
      BY <3>2, FrameKinds DEF Feeds
    <3> QED
      BY <3>1, <3>3, InputGrows DEF Types, Channels
  <2>2. CASE ~ live[1]
    BY <1>1, <2>2 DEF FeedItem, Types, Channels, ToCaps
  <2> QED
    BY <2>1, <2>2
<1>2. CASE FeedEnds
  <2>1. CASE live[1]
    <3>1. toCap' = [toCap EXCEPT ![1] = Append(@, End)]
      BY <1>2, <2>1 DEF FeedEnds
    <3>2. End \in Feeds(1) /\ 1 \in Caps
      BY DEF Feeds
    <3> QED
      BY <3>1, <3>2, InputGrows DEF Types, Channels
  <2>2. CASE ~ live[1]
    BY <1>2, <2>2 DEF FeedEnds, Types, Channels, ToCaps
  <2> QED
    BY <2>1, <2>2
<1>3. ASSUME NEW i \in Caps, Arrive(i) PROVE ToCaps'
  BY <1>3, InputShrinks DEF Arrive, Types, Channels
<1>4. ASSUME NEW i \in Forwarders, ForwardChunk(i) PROVE ToCaps'
  <2>1. CASE UNCHANGED toCap
    BY <2>1 DEF Types, Channels, ToCaps
  <2>2. CASE toCap' = [toCap EXCEPT ![i + 1] = Append(@, Head(fromCap[i]))]
    <3>1. fromCap[i] # <<>> /\ Head(fromCap[i]).type = "chunk"
      BY <1>4 DEF ForwardChunk, Heads
    <3>2. Head(fromCap[i]) \in ChunksOf(Frames[i])
      BY <3>1, HeadOfOutput
    <3>3. Head(fromCap[i]) \in Feeds(i + 1) /\ i + 1 \in Caps
      BY <3>2 DEF Feeds
    <3> QED
      BY <2>2, <3>3, InputGrows DEF Types, Channels
  <2> QED
    BY <1>4, <2>1, <2>2 DEF ForwardChunk, SendOn
<1>5. ASSUME NEW i \in Forwarders, ForwardBlocked(i) PROVE ToCaps'
  <2>1. CASE UNCHANGED toCap
    BY <2>1 DEF Types, Channels, ToCaps
  <2>2. CASE toCap' = [toCap EXCEPT ![i + 1] = Append(@, Head(fromCap[i]))]
    <3>1. fromCap[i] # <<>> /\ Head(fromCap[i]).type = "chunk"
      BY <1>5 DEF ForwardBlocked, Types, Holding
    <3>2. Head(fromCap[i]) \in ChunksOf(Frames[i])
      BY <3>1, HeadOfOutput
    <3>3. Head(fromCap[i]) \in Feeds(i + 1) /\ i + 1 \in Caps
      BY <3>2 DEF Feeds
    <3> QED
      BY <2>2, <3>3, InputGrows DEF Types, Channels
  <2> QED
    BY <1>5, <2>1, <2>2 DEF ForwardBlocked, SendOn
<1>6. ASSUME NEW i \in Forwarders, ForwardEnd(i) PROVE ToCaps'
  <2>1. CASE live[i + 1]
    <3>1. toCap' = [toCap EXCEPT ![i + 1] = Append(@, End)]
      BY <1>6, <2>1 DEF ForwardEnd
    <3>2. End \in Feeds(i + 1) /\ i + 1 \in Caps
      BY DEF Feeds
    <3> QED
      BY <3>1, <3>2, InputGrows DEF Types, Channels
  <2>2. CASE ~ live[i + 1]
    BY <1>6, <2>2 DEF ForwardEnd, Types, Channels, ToCaps
  <2> QED
    BY <2>1, <2>2
<1>7. CASE FeedReleased \/ Collect \/ CollectCredit \/ CollectIdle \/ CollectTerminal \/
           CloseGates \/ Join
  <2>1. UNCHANGED toCap
    BY <1>7 DEF FeedReleased, Collect, Take, CountRead, GrantBack, Heads, CollectCredit,
       RouteCredit, CollectIdle, FlushBack, CollectTerminal, CloseGates, Join
  <2> QED
    BY <2>1 DEF Types, Channels, ToCaps
<1>8. ASSUME NEW i \in Caps,
             Read(i) \/ FlushBeforeWait(i) \/ Emit(i) \/ Finish(i) \/ StopEarly(i) \/ Fail(i) \/
             Release(i) \/ GrantArrives(i)
      PROVE  ToCaps'
  <2>1. UNCHANGED toCap
    BY <1>8 DEF Read, MayRead, Grant, FlushBeforeWait, Emit, Finish, Ends, StopEarly, Fail,
       Release, GrantArrives
  <2> QED
    BY <2>1 DEF Types, Channels, ToCaps
<1>9. ASSUME NEW i \in Forwarders,
             ForwardReleased(i) \/ ForwardCredit(i) \/ ForwardErr(i) \/ ForwardIdle(i)
      PROVE  ToCaps'
  <2>1. UNCHANGED toCap
    BY <1>9 DEF ForwardReleased, Take, Heads, ForwardCredit, RouteCredit, ForwardErr,
       ForwardIdle, FlushBack, GrantBack
  <2> QED
    BY <2>1 DEF Types, Channels, ToCaps
<1>10. CASE UNCHANGED vars
  BY <1>10 DEF vars, Types, Channels, ToCaps
<1> QED
  BY <1>1, <1>2, <1>3, <1>4, <1>5, <1>6, <1>7, <1>8, <1>9, <1>10
     DEF Next, FeedStep, HandlerStep, ForwardStep, RunStep

LEMMA NextFromCaps ==
    ASSUME Types, [Next]_vars
    PROVE  FromCaps'
<1> USE Indices DEF feeding, inside, engine
<1>1. ASSUME NEW i \in Caps, Arrive(i) PROVE FromCaps'
  <2>1. UNCHANGED fromCap \/ fromCap' = [fromCap EXCEPT ![i] = Append(@, Credit(1))]
    BY <1>1 DEF Arrive, TakeChunk
  <2>2. Credit(1) \in FramesOf(Frames[i])
    BY FrameKinds, SMTT(30)
  <2>3. CASE UNCHANGED fromCap
    BY <2>3 DEF Types, Channels, FromCaps
  <2> QED
    BY <2>1, <2>2, <2>3, OutputGrows DEF Types, Channels
<1>2. ASSUME NEW i \in Caps, Read(i) PROVE FromCaps'
  <2>1. owedIn[i] \in Nat
    BY DEF Types, Amounts, Accounts
  <2>2. \/ UNCHANGED fromCap
        \/ fromCap' = [fromCap EXCEPT ![i] = Append(@, Credit(owedIn[i] + 1))]
    BY <1>2 DEF Read, Grant
  <2>3. Credit(owedIn[i] + 1) \in FramesOf(Frames[i])
    BY <2>1, FrameKinds
  <2>4. CASE UNCHANGED fromCap
    BY <2>4 DEF Types, Channels, FromCaps
  <2> QED
    BY <2>2, <2>3, <2>4, OutputGrows DEF Types, Channels
<1>3. ASSUME NEW i \in Caps, FlushBeforeWait(i) PROVE FromCaps'
  <2>1. fromCap' = [fromCap EXCEPT ![i] = Append(@, Credit(owedIn[i]))]
    BY <1>3 DEF FlushBeforeWait, Grant
  <2>2. Credit(owedIn[i]) \in FramesOf(Frames[i])
    BY <1>3, FrameKinds, SMTT(30) DEF FlushBeforeWait, Types, Amounts, Accounts
  <2> QED
    BY <2>1, <2>2, OutputGrows DEF Types, Channels
<1>4. ASSUME NEW i \in Caps, Emit(i) PROVE FromCaps'
  <2>1. fromCap' = [fromCap EXCEPT ![i] = Append(@, Head(out[i]))]
    BY <1>4 DEF Emit
  <2>2. Head(out[i]) \in FramesOf(Frames[i])
    BY <1>4, HeadOfOut, FrameKinds DEF Emit
  <2> QED
    BY <2>1, <2>2, OutputGrows DEF Types, Channels
<1>5. ASSUME NEW i \in Caps, Finish(i) PROVE FromCaps'
  <2>1. fromCap' = [fromCap EXCEPT ![i] = Append(@, End)]
    BY <1>5 DEF Finish, Ends
  <2>2. End \in FramesOf(Frames[i])
    BY FrameKinds
  <2> QED
    BY <2>1, <2>2, OutputGrows DEF Types, Channels
<1>6. ASSUME NEW i \in Caps, StopEarly(i) PROVE FromCaps'
  <2>1. fromCap' = [fromCap EXCEPT ![i] = Append(@, End)]
    BY <1>6 DEF StopEarly, Ends
  <2>2. End \in FramesOf(Frames[i])
    BY FrameKinds
  <2> QED
    BY <2>1, <2>2, OutputGrows DEF Types, Channels
<1>7. ASSUME NEW i \in Caps, Fail(i) PROVE FromCaps'
  <2>1. fromCap' = [fromCap EXCEPT ![i] = Append(@, Err)]
    BY <1>7 DEF Fail, Ends
  <2>2. Err \in FramesOf(Frames[i])
    BY FrameKinds
  <2> QED
    BY <2>1, <2>2, OutputGrows DEF Types, Channels
<1>8. ASSUME NEW i \in Forwarders, ForwardChunk(i) PROVE FromCaps'
  <2>1. fromCap[i] # <<>> /\ (UNCHANGED fromCap \/ fromCap' = [fromCap EXCEPT ![i] = Tail(@)])
    BY <1>8 DEF ForwardChunk, SendOn, Take, Heads
  <2>2. CASE UNCHANGED fromCap
    BY <2>2 DEF Types, Channels, FromCaps
  <2> QED
    BY <2>1, <2>2, OutputShrinks DEF Types, Channels
<1>9. ASSUME NEW i \in Forwarders, ForwardBlocked(i) PROVE FromCaps'
  <2>1. fromCap[i] # <<>> /\ fromCap' = [fromCap EXCEPT ![i] = Tail(@)]
    BY <1>9 DEF ForwardBlocked, SendOn, Take, Types, Holding
  <2> QED
    BY <2>1, OutputShrinks DEF Types, Channels
<1>10. ASSUME NEW i \in Forwarders, ForwardReleased(i) PROVE FromCaps'
  <2>1. fromCap[i] # <<>> /\ fromCap' = [fromCap EXCEPT ![i] = Tail(@)]
    BY <1>10 DEF ForwardReleased, Take, Heads
  <2> QED
    BY <2>1, OutputShrinks DEF Types, Channels
<1>11. ASSUME NEW i \in Forwarders, ForwardCredit(i) PROVE FromCaps'
  <2>1. fromCap[i] # <<>> /\ fromCap' = [fromCap EXCEPT ![i] = Tail(@)]
    BY <1>11 DEF ForwardCredit, Take, Heads
  <2> QED
    BY <2>1, OutputShrinks DEF Types, Channels
<1>12. ASSUME NEW i \in Forwarders, ForwardEnd(i) PROVE FromCaps'
  <2>1. fromCap[i] # <<>> /\ fromCap' = [fromCap EXCEPT ![i] = Tail(@)]
    BY <1>12 DEF ForwardEnd, Take, Heads
  <2> QED
    BY <2>1, OutputShrinks DEF Types, Channels
<1>13. ASSUME NEW i \in Forwarders, ForwardErr(i) PROVE FromCaps'
  <2>1. fromCap[i] # <<>> /\ fromCap' = [fromCap EXCEPT ![i] = Tail(@)]
    BY <1>13 DEF ForwardErr, Take, Heads
  <2> QED
    BY <2>1, OutputShrinks DEF Types, Channels
<1>14. CASE Collect
  <2>1. fromCap[N] # <<>> /\ fromCap' = [fromCap EXCEPT ![N] = Tail(@)]
    BY <1>14 DEF Collect, Take, Heads
  <2> QED
    BY <2>1, OutputShrinks DEF Types, Channels
<1>15. CASE CollectCredit
  <2>1. fromCap[N] # <<>> /\ fromCap' = [fromCap EXCEPT ![N] = Tail(@)]
    BY <1>15 DEF CollectCredit, Take, Heads
  <2> QED
    BY <2>1, OutputShrinks DEF Types, Channels
<1>16. CASE CollectTerminal
  <2>1. fromCap[N] # <<>> /\ fromCap' = [fromCap EXCEPT ![N] = Tail(@)]
    BY <1>16 DEF CollectTerminal, Take, Heads
  <2> QED
    BY <2>1, OutputShrinks DEF Types, Channels
<1>17. CASE FeedItem \/ FeedEnds \/ FeedReleased \/ CollectIdle \/ CloseGates \/ Join
  <2>1. UNCHANGED fromCap
    BY <1>17 DEF FeedItem, FeedEnds, FeedReleased, CollectIdle, FlushBack, GrantBack,
       CloseGates, Join
  <2> QED
    BY <2>1 DEF Types, Channels, FromCaps
<1>18. ASSUME NEW i \in Caps,
             Release(i) \/ GrantArrives(i)
      PROVE  FromCaps'
  <2>1. UNCHANGED fromCap
    BY <1>18 DEF Release, GrantArrives
  <2> QED
    BY <2>1 DEF Types, Channels, FromCaps
<1>19. ASSUME NEW i \in Forwarders,
             ForwardIdle(i)
      PROVE  FromCaps'
  <2>1. UNCHANGED fromCap
    BY <1>19 DEF ForwardIdle, FlushBack, GrantBack
  <2> QED
    BY <2>1 DEF Types, Channels, FromCaps
<1>20. CASE UNCHANGED vars
  BY <1>20 DEF vars, Types, Channels, FromCaps
<1> QED
  BY <1>1, <1>2, <1>3, <1>4, <1>5, <1>6, <1>7, <1>8, <1>9, <1>10, <1>11, <1>12, <1>13, <1>14,
     <1>15, <1>16, <1>17, <1>18, <1>19, <1>20
     DEF Next, FeedStep, HandlerStep, ForwardStep, RunStep

LEMMA NextOuts ==
    ASSUME Types, [Next]_vars
    PROVE  Outs'
<1> USE Indices DEF feeding, inside, engine
<1>1. ASSUME NEW i \in Caps, Read(i) PROVE Outs'
  <2>1. /\ queue[i] # <<>> /\ queue[i] \in Seq(1 .. Items)
        /\ out' = [out EXCEPT ![i] = @ \o [f \in 1 .. Frames[i] |-> Chunk(Head(queue[i]), f)]]
    BY <1>1 DEF Read, Types, Channels, Queues
  <2>2. Head(queue[i]) \in 1 .. Items
    BY <2>1, HeadTailProperties
  <2>3. out \in [Caps -> Seq(Messages)] /\ \A j \in Caps : out[j] \in Seq(ChunksOf(Frames[j]))
    BY DEF Types, Channels, Outs
  <2>4. [f \in 1 .. Frames[i] |-> Chunk(Head(queue[i]), f)] \in Seq(ChunksOf(Frames[i]))
    BY <2>2, ItemChunks
  <2> DEFINE b == out[i] \o [f \in 1 .. Frames[i] |-> Chunk(Head(queue[i]), f)]
  <2>5. b \in Seq(ChunksOf(Frames[i]))
    BY <2>3, <2>4, ConcatProperties
  <2>6. ChunksOf(Frames[i]) \subseteq Messages
    BY FrameKinds
  <2>7. out' = [out EXCEPT ![i] = b]
    BY <2>1
  <2> HIDE DEF b
  <2>8. b \in Seq(Messages)
    BY <2>5, <2>6
  <2> QED
    BY <2>3, <2>5, <2>7, <2>8 DEF Outs
<1>2. ASSUME NEW i \in Caps, Emit(i) PROVE Outs'
  <2>1. out[i] # <<>> /\ out' = [out EXCEPT ![i] = Tail(@)]
    BY <1>2 DEF Emit
  <2> QED
    BY <2>1, OutShrinks DEF Types, Channels
<1>3. CASE FeedItem \/ FeedEnds \/ FeedReleased \/ Collect \/ CollectCredit \/ CollectIdle \/
           CollectTerminal \/ CloseGates \/ Join
  <2>1. UNCHANGED out
    BY <1>3 DEF FeedItem, FeedEnds, FeedReleased, Collect, Take, CountRead, GrantBack, Heads,
       CollectCredit, RouteCredit, CollectIdle, FlushBack, CollectTerminal, CloseGates, Join
  <2> QED
    BY <2>1 DEF Types, Channels, Outs
<1>4. ASSUME NEW i \in Caps,
             Arrive(i) \/ FlushBeforeWait(i) \/ Finish(i) \/ StopEarly(i) \/ Fail(i) \/
             Release(i) \/ GrantArrives(i)
      PROVE  Outs'
  <2>1. UNCHANGED out
    BY <1>4 DEF Arrive, TakeChunk, FlushBeforeWait, MayRead, Grant, Finish, Ends, StopEarly,
       Fail, Release, GrantArrives
  <2> QED
    BY <2>1 DEF Types, Channels, Outs
<1>5. ASSUME NEW i \in Forwarders,
             ForwardChunk(i) \/ ForwardBlocked(i) \/ ForwardReleased(i) \/ ForwardCredit(i) \/
             ForwardEnd(i) \/ ForwardErr(i) \/ ForwardIdle(i)
      PROVE  Outs'
  <2>1. UNCHANGED out
    BY <1>5 DEF ForwardChunk, SendOn, CountRead, GrantBack, FlushBack, Take, Heads,
       ForwardBlocked, ForwardReleased, ForwardCredit, RouteCredit, ForwardEnd, ForwardErr,
       ForwardIdle
  <2> QED
    BY <2>1 DEF Types, Channels, Outs
<1>6. CASE UNCHANGED vars
  BY <1>6 DEF vars, Types, Channels, Outs
<1> QED
  BY <1>1, <1>2, <1>3, <1>4, <1>5, <1>6
     DEF Next, FeedStep, HandlerStep, ForwardStep, RunStep

LEMMA NextQueues ==
    ASSUME Types, [Next]_vars
    PROVE  Queues'
<1> USE Indices DEF feeding, inside, engine
<1>1. ASSUME NEW i \in Caps, Arrive(i) PROVE Queues'
  <2>1. queue \in [Caps -> Seq(1 .. Items)]
    BY DEF Types, Channels, Queues
  <2>2. CASE UNCHANGED queue
    BY <2>1, <2>2 DEF Queues
  <2>3. CASE ~ UNCHANGED queue
    <3>1. Head(toCap[i]) # End /\ TakeChunk(i, Head(toCap[i]).item, Head(toCap[i]).frag)
      BY <1>1, <2>3 DEF Arrive
    <3>2. Head(toCap[i]).item \in 1 .. Items
      BY <1>1, <3>1, ChunkAtHead DEF Arrive
    <3>3. queue' = [queue EXCEPT ![i] = Append(@, Head(toCap[i]).item)]
      BY <2>3, <3>1 DEF TakeChunk
    <3>4. Append(queue[i], Head(toCap[i]).item) \in Seq(1 .. Items)
      BY <2>1, <3>2
    <3> QED
      BY <2>1, <3>3, <3>4 DEF Queues
  <2> QED
    BY <2>2, <2>3
<1>2. ASSUME NEW i \in Caps, Read(i) PROVE Queues'
  <2>1. queue \in [Caps -> Seq(1 .. Items)]
    BY DEF Types, Channels, Queues
  <2>2. queue[i] # <<>> /\ queue' = [queue EXCEPT ![i] = Tail(@)]
    BY <1>2 DEF Read
  <2>3. Tail(queue[i]) \in Seq(1 .. Items)
    BY <2>1, <2>2, HeadTailProperties
  <2> QED
    BY <2>1, <2>2, <2>3 DEF Queues
<1>3. CASE FeedItem \/ FeedEnds \/ FeedReleased \/ Collect \/ CollectCredit \/ CollectIdle \/
           CollectTerminal \/ CloseGates \/ Join
  <2>1. UNCHANGED queue
    BY <1>3 DEF FeedItem, FeedEnds, FeedReleased, Collect, Take, CountRead, GrantBack, Heads,
       CollectCredit, RouteCredit, CollectIdle, FlushBack, CollectTerminal, CloseGates, Join
  <2> QED
    BY <2>1 DEF Types, Channels, Queues
<1>4. ASSUME NEW i \in Caps,
             FlushBeforeWait(i) \/ Emit(i) \/ Finish(i) \/ StopEarly(i) \/ Fail(i) \/ Release(i)
             \/ GrantArrives(i)
      PROVE  Queues'
  <2>1. UNCHANGED queue
    BY <1>4 DEF FlushBeforeWait, MayRead, Grant, Emit, Finish, Ends, StopEarly, Fail,
       Release, GrantArrives
  <2> QED
    BY <2>1 DEF Types, Channels, Queues
<1>5. ASSUME NEW i \in Forwarders,
             ForwardChunk(i) \/ ForwardBlocked(i) \/ ForwardReleased(i) \/ ForwardCredit(i) \/
             ForwardEnd(i) \/ ForwardErr(i) \/ ForwardIdle(i)
      PROVE  Queues'
  <2>1. UNCHANGED queue
    BY <1>5 DEF ForwardChunk, SendOn, CountRead, GrantBack, FlushBack, Take, Heads,
       ForwardBlocked, ForwardReleased, ForwardCredit, RouteCredit, ForwardEnd, ForwardErr,
       ForwardIdle
  <2> QED
    BY <2>1 DEF Types, Channels, Queues
<1>6. CASE UNCHANGED vars
  BY <1>6 DEF vars, Types, Channels, Queues
<1> QED
  BY <1>1, <1>2, <1>3, <1>4, <1>5, <1>6
     DEF Next, FeedStep, HandlerStep, ForwardStep, RunStep

LEMMA NextCollection ==
    ASSUME Types, [Next]_vars
    PROVE  Collection'
<1> USE Indices DEF feeding, inside, engine
<1>1. CASE Collect
  <2>1. Head(fromCap[N]) \in ChunksOf(Frames[N])
    BY <1>1, HeadOfOutput DEF Collect, Heads
  <2>2. <<Head(fromCap[N]).item, Head(fromCap[N]).frag>> \in Nat \X Nat
    BY <2>1 DEF ChunksOf
  <2> QED
    BY <1>1, <2>2 DEF Collect, Types, Channels, Collection
<1>2. CASE FeedItem \/ FeedEnds \/ FeedReleased \/ CollectCredit \/ CollectIdle \/
           CollectTerminal \/ CloseGates \/ Join
  <2>1. UNCHANGED collected
    BY <1>2 DEF FeedItem, FeedEnds, FeedReleased, CollectCredit, RouteCredit, Take, Heads,
       CollectIdle, FlushBack, GrantBack, CollectTerminal, CloseGates, Join
  <2> QED
    BY <2>1 DEF Types, Channels, Collection
<1>3. ASSUME NEW i \in Caps,
             Arrive(i) \/ Read(i) \/ FlushBeforeWait(i) \/ Emit(i) \/ Finish(i) \/ StopEarly(i)
             \/ Fail(i) \/ Release(i) \/ GrantArrives(i)
      PROVE  Collection'
  <2>1. UNCHANGED collected
    BY <1>3 DEF Arrive, TakeChunk, Read, MayRead, Grant, FlushBeforeWait, Emit, Finish, Ends,
       StopEarly, Fail, Release, GrantArrives
  <2> QED
    BY <2>1 DEF Types, Channels, Collection
<1>4. ASSUME NEW i \in Forwarders,
             ForwardChunk(i) \/ ForwardBlocked(i) \/ ForwardReleased(i) \/ ForwardCredit(i) \/
             ForwardEnd(i) \/ ForwardErr(i) \/ ForwardIdle(i)
      PROVE  Collection'
  <2>1. UNCHANGED collected
    BY <1>4 DEF ForwardChunk, SendOn, CountRead, GrantBack, FlushBack, Take, Heads,
       ForwardBlocked, ForwardReleased, ForwardCredit, RouteCredit, ForwardEnd, ForwardErr,
       ForwardIdle
  <2> QED
    BY <2>1 DEF Types, Channels, Collection
<1>5. CASE UNCHANGED vars
  BY <1>5 DEF vars, Types, Channels, Collection
<1> QED
  BY <1>1, <1>2, <1>3, <1>4, <1>5
     DEF Next, FeedStep, HandlerStep, ForwardStep, RunStep

\* A forwarder that waits for the next cap's window holds a chunk.
LEMMA StillHeld ==
    ASSUME Holding, Channels, NEW i \in Caps, UNCHANGED fwd,
           \E x \in Messages : fromCap' = [fromCap EXCEPT ![i] = Append(@, x)] \/ UNCHANGED fromCap
    PROVE  Holding'
<1> USE DEF Channels, FromCaps, Holding
<1>1. PICK x \in Messages : fromCap' = [fromCap EXCEPT ![i] = Append(@, x)] \/ UNCHANGED fromCap
  OBVIOUS
<1>2. CASE UNCHANGED fromCap
  BY <1>2
<1>3. CASE fromCap' = [fromCap EXCEPT ![i] = Append(@, x)]
  <2>1. fromCap[i] \in Seq(Messages)
    OBVIOUS
  <2>2. fromCap[i] # <<>> => Append(fromCap[i], x) # <<>> /\ Head(Append(fromCap[i], x)) = Head(fromCap[i])
    BY <2>1
  <2>3. \A j \in Caps : fromCap'[j] = IF j = i THEN Append(fromCap[i], x) ELSE fromCap[j]
    BY <1>3
  <2>4. \A j \in Forwarders : j \in Caps
    BY Indices
  <2> QED
    BY <2>2, <2>3, <2>4
<1> QED
  BY <1>1, <1>2, <1>3

LEMMA NextHolding ==
    ASSUME Types, [Next]_vars
    PROVE  Holding'
<1> USE Indices DEF feeding, inside, engine
<1>1. ASSUME NEW i \in Caps, Arrive(i) PROVE Holding'
  <2>1. UNCHANGED fwd
    BY <1>1 DEF Arrive
  <2>2. \E x \in Messages : fromCap' = [fromCap EXCEPT ![i] = Append(@, x)] \/ UNCHANGED fromCap
    <3>1. Credit(1) \in Messages
      BY Kinds
    <3> QED
      BY <3>1, <1>1 DEF Arrive, TakeChunk
  <2> QED
    BY <2>1, <2>2, StillHeld DEF Types
<1>2. ASSUME NEW i \in Caps, Read(i) PROVE Holding'
  <2>1. UNCHANGED fwd
    BY <1>2 DEF Read
  <2>2. \E x \in Messages : fromCap' = [fromCap EXCEPT ![i] = Append(@, x)] \/ UNCHANGED fromCap
    <3>1. Credit(owedIn[i] + 1) \in Messages
      BY Kinds DEF Types, Amounts, Accounts
    <3> QED
      BY <3>1, <1>2 DEF Read, Grant
  <2> QED
    BY <2>1, <2>2, StillHeld DEF Types
<1>3. ASSUME NEW i \in Caps, FlushBeforeWait(i) PROVE Holding'
  <2>1. UNCHANGED fwd
    BY <1>3 DEF FlushBeforeWait
  <2>2. \E x \in Messages : fromCap' = [fromCap EXCEPT ![i] = Append(@, x)] \/ UNCHANGED fromCap
    <3>1. Credit(owedIn[i]) \in Messages
      <4>1. owedIn[i] \in Nat \ {0}
        <5>1. owedIn[i] > 0
          BY <1>3 DEF FlushBeforeWait
        <5>2. owedIn[i] \in Nat
          BY DEF Types, Amounts, Accounts
        <5> QED
          BY <5>1, <5>2
      <4> QED
        BY <4>1, Kinds
    <3> QED
      BY <3>1, <1>3 DEF FlushBeforeWait, Grant
  <2> QED
    BY <2>1, <2>2, StillHeld DEF Types
<1>4. ASSUME NEW i \in Caps, Emit(i) PROVE Holding'
  <2>1. UNCHANGED fwd
    BY <1>4 DEF Emit
  <2>2. \E x \in Messages : fromCap' = [fromCap EXCEPT ![i] = Append(@, x)] \/ UNCHANGED fromCap
    <3>1. Head(out[i]) \in Messages
      BY <1>4, HeadOfOut, FrameKinds DEF Emit
    <3> QED
      BY <3>1, <1>4 DEF Emit
  <2> QED
    BY <2>1, <2>2, StillHeld DEF Types
<1>5. ASSUME NEW i \in Caps, Finish(i) PROVE Holding'
  <2>1. UNCHANGED fwd
    BY <1>5 DEF Finish, Ends
  <2>2. \E x \in Messages : fromCap' = [fromCap EXCEPT ![i] = Append(@, x)] \/ UNCHANGED fromCap
    <3>1. End \in Messages
      BY DEF Messages
    <3> QED
      BY <3>1, <1>5 DEF Finish, Ends
  <2> QED
    BY <2>1, <2>2, StillHeld DEF Types
<1>6. ASSUME NEW i \in Caps, StopEarly(i) PROVE Holding'
  <2>1. UNCHANGED fwd
    BY <1>6 DEF StopEarly, Ends
  <2>2. \E x \in Messages : fromCap' = [fromCap EXCEPT ![i] = Append(@, x)] \/ UNCHANGED fromCap
    <3>1. End \in Messages
      BY DEF Messages
    <3> QED
      BY <3>1, <1>6 DEF StopEarly, Ends
  <2> QED
    BY <2>1, <2>2, StillHeld DEF Types
<1>7. ASSUME NEW i \in Caps, Fail(i) PROVE Holding'
  <2>1. UNCHANGED fwd
    BY <1>7 DEF Fail, Ends
  <2>2. \E x \in Messages : fromCap' = [fromCap EXCEPT ![i] = Append(@, x)] \/ UNCHANGED fromCap
    <3>1. Err \in Messages
      BY DEF Messages
    <3> QED
      BY <3>1, <1>7 DEF Fail, Ends
  <2> QED
    BY <2>1, <2>2, StillHeld DEF Types
<1>8. ASSUME NEW i \in Forwarders, ForwardChunk(i) PROVE Holding'
  <2>1. CASE SendOn(i)
    <3>1. /\ fwd'[i] \in {"running", "failed"} /\ \A j \in Forwarders : j # i => fwd'[j] = fwd[j]
          /\ \A j \in Caps : j # i => fromCap'[j] = fromCap[j]
      BY <2>1, SMTT(30) DEF SendOn, Take, Types, Roles, Channels, FromCaps
    <3> QED
      BY <3>1 DEF Types, Roles, Holding
  <2>2. CASE ~ SendOn(i)
    <3>1. /\ fwd' = [fwd EXCEPT ![i] = "blocked"] /\ UNCHANGED fromCap
          /\ fromCap[i] # <<>> /\ Head(fromCap[i]).type = "chunk"
      BY <1>8, <2>2 DEF ForwardChunk, Heads
    <3> QED
      BY <3>1 DEF Types, Roles, Holding
  <2> QED
    BY <2>1, <2>2
<1>9. ASSUME NEW i \in Forwarders, ForwardBlocked(i) PROVE Holding'
  <2>1. /\ fwd'[i] \in {"running", "failed"} /\ \A j \in Forwarders : j # i => fwd'[j] = fwd[j]
        /\ \A j \in Caps : j # i => fromCap'[j] = fromCap[j]
    BY <1>9, SMTT(30) DEF ForwardBlocked, SendOn, Take, Types, Roles, Channels, FromCaps
  <2> QED
    BY <2>1 DEF Types, Roles, Holding
<1>10. ASSUME NEW i \in Forwarders, ForwardReleased(i) PROVE Holding'
  <2>1. /\ fwd'[i] = "done" /\ \A j \in Forwarders : j # i => fwd'[j] = fwd[j]
        /\ \A j \in Caps : j # i => fromCap'[j] = fromCap[j]
    BY <1>10, SMTT(30) DEF ForwardReleased, Take, Types, Roles, Channels, FromCaps
  <2> QED
    BY <2>1 DEF Types, Holding
<1>11. ASSUME NEW i \in Forwarders, ForwardCredit(i) PROVE Holding'
  <2>1. /\ fwd[i] = "running" /\ UNCHANGED fwd
        /\ \A j \in Caps : j # i => fromCap'[j] = fromCap[j]
    BY <1>11 DEF ForwardCredit, Take, Types, Channels, FromCaps
  <2> QED
    BY <2>1 DEF Types, Roles, Holding
<1>12. ASSUME NEW i \in Forwarders, ForwardEnd(i) PROVE Holding'
  <2>1. /\ fwd'[i] \in {"done", "failed"} /\ \A j \in Forwarders : j # i => fwd'[j] = fwd[j]
        /\ \A j \in Caps : j # i => fromCap'[j] = fromCap[j]
    BY <1>12 DEF ForwardEnd, Take, Types, Roles, Channels, FromCaps
  <2> QED
    BY <2>1 DEF Types, Roles, Holding
<1>13. ASSUME NEW i \in Forwarders, ForwardErr(i) PROVE Holding'
  <2>1. /\ fwd'[i] = "failed" /\ \A j \in Forwarders : j # i => fwd'[j] = fwd[j]
        /\ \A j \in Caps : j # i => fromCap'[j] = fromCap[j]
    BY <1>13, SMTT(30) DEF ForwardErr, Take, Types, Roles, Channels, FromCaps
  <2> QED
    BY <2>1 DEF Types, Holding
<1>14. CASE Collect
  <2>1. UNCHANGED fwd /\ \A j \in Caps : j # N => fromCap'[j] = fromCap[j]
    BY <1>14 DEF Collect, Take, Types, Channels, FromCaps
  <2> QED
    BY <2>1 DEF Types, Holding
<1>15. CASE CollectCredit
  <2>1. UNCHANGED fwd /\ \A j \in Caps : j # N => fromCap'[j] = fromCap[j]
    BY <1>15 DEF CollectCredit, Take, Types, Channels, FromCaps
  <2> QED
    BY <2>1 DEF Types, Holding
<1>16. CASE CollectTerminal
  <2>1. UNCHANGED fwd /\ \A j \in Caps : j # N => fromCap'[j] = fromCap[j]
    BY <1>16 DEF CollectTerminal, Take, Types, Channels, FromCaps
  <2> QED
    BY <2>1 DEF Types, Holding
<1>17. CASE FeedItem \/ FeedEnds \/ FeedReleased \/ CollectIdle \/ CloseGates \/ Join
  <2>1. UNCHANGED <<fwd, fromCap>>
    BY <1>17 DEF FeedItem, FeedEnds, FeedReleased, CollectIdle, FlushBack, GrantBack,
       CloseGates, Join
  <2> QED
    BY <2>1 DEF Types, Holding
<1>18. ASSUME NEW i \in Caps,
             Release(i) \/ GrantArrives(i)
      PROVE  Holding'
  <2>1. UNCHANGED <<fwd, fromCap>>
    BY <1>18 DEF Release, GrantArrives
  <2> QED
    BY <2>1 DEF Types, Holding
<1>19. ASSUME NEW i \in Forwarders,
             ForwardIdle(i)
      PROVE  Holding'
  <2>1. UNCHANGED <<fwd, fromCap>>
    BY <1>19 DEF ForwardIdle, FlushBack, GrantBack
  <2> QED
    BY <2>1 DEF Types, Holding
<1>20. CASE UNCHANGED vars
  BY <1>20 DEF vars, Types, Holding
<1> QED
  BY <1>1, <1>2, <1>3, <1>4, <1>5, <1>6, <1>7, <1>8, <1>9, <1>10, <1>11, <1>12, <1>13, <1>14,
     <1>15, <1>16, <1>17, <1>18, <1>19, <1>20
     DEF Next, FeedStep, HandlerStep, ForwardStep, RunStep

(***************************************************************************)
(* What is over stays over.                                                *)
(***************************************************************************)

\* A cap that has ended, a task that has returned and a feed that is done stay
\* so.
Settled == /\ feed = "done" => feed' = "done" /\ fed' = fed
           /\ \A i \in Caps : ~ Running(i) => cap'[i] = cap[i]
           /\ \A i \in Forwarders : fwd[i] \in {"done", "failed"} => fwd'[i] = fwd[i]
           /\ collector # "running" => collector' = collector

LEMMA StepsSettle ==
    ASSUME Types, [Next]_vars
    PROVE  Settled
<1> USE Indices DEF feeding, inside, engine, Types, Roles
<1>1. ASSUME NEW i \in Caps, Finish(i) PROVE Settled
  <2>1. UNCHANGED <<fwd, feed, fed, collector>> /\ (cap' = [cap EXCEPT ![i] = "ended"]) /\ Running(i)
    BY <1>1 DEF Finish, Ends
  <2> QED
    BY <2>1 DEF Settled, Running
<1>2. ASSUME NEW i \in Caps, StopEarly(i) PROVE Settled
  <2>1. UNCHANGED <<fwd, feed, fed, collector>> /\ (cap' = [cap EXCEPT ![i] = "ended"]) /\ Running(i)
    BY <1>2 DEF StopEarly, Ends
  <2> QED
    BY <2>1 DEF Settled, Running
<1>3. ASSUME NEW i \in Caps, Fail(i) PROVE Settled
  <2>1. UNCHANGED <<fwd, feed, fed, collector>> /\ (cap' = [cap EXCEPT ![i] = "failed"]) /\ Running(i)
    BY <1>3 DEF Fail, Ends
  <2> QED
    BY <2>1 DEF Settled, Running
<1>4. ASSUME NEW i \in Forwarders, ForwardChunk(i) PROVE Settled
  <2>1. UNCHANGED <<cap, feed, fed, collector>> /\ fwd[i] \in {"running", "blocked"}
    BY <1>4 DEF ForwardChunk
  <2>2. \A j \in Forwarders : j # i => fwd'[j] = fwd[j]
    <3>1. \E v \in {"running", "blocked", "done", "failed"} : fwd' = [fwd EXCEPT ![i] = v]
      BY <1>4 DEF ForwardChunk, SendOn
    <3> QED
      BY <3>1
  <2> QED
    BY <2>1, <2>2 DEF Settled
<1>5. ASSUME NEW i \in Forwarders, ForwardBlocked(i) PROVE Settled
  <2>1. UNCHANGED <<cap, feed, fed, collector>> /\ fwd[i] \in {"running", "blocked"}
    BY <1>5 DEF ForwardBlocked
  <2>2. \A j \in Forwarders : j # i => fwd'[j] = fwd[j]
    <3>1. \E v \in {"running", "blocked", "done", "failed"} : fwd' = [fwd EXCEPT ![i] = v]
      BY <1>5 DEF ForwardBlocked, SendOn
    <3> QED
      BY <3>1
  <2> QED
    BY <2>1, <2>2 DEF Settled
<1>6. ASSUME NEW i \in Forwarders, ForwardReleased(i) PROVE Settled
  <2>1. UNCHANGED <<cap, feed, fed, collector>> /\ fwd[i] \in {"running", "blocked"}
    BY <1>6 DEF ForwardReleased
  <2>2. \A j \in Forwarders : j # i => fwd'[j] = fwd[j]
    <3>1. \E v \in {"running", "blocked", "done", "failed"} : fwd' = [fwd EXCEPT ![i] = v]
      BY <1>6 DEF ForwardReleased, SendOn
    <3> QED
      BY <3>1
  <2> QED
    BY <2>1, <2>2 DEF Settled
<1>7. ASSUME NEW i \in Forwarders, ForwardEnd(i) PROVE Settled
  <2>1. UNCHANGED <<cap, feed, fed, collector>> /\ fwd[i] \in {"running", "blocked"}
    BY <1>7 DEF ForwardEnd
  <2>2. \A j \in Forwarders : j # i => fwd'[j] = fwd[j]
    <3>1. \E v \in {"running", "blocked", "done", "failed"} : fwd' = [fwd EXCEPT ![i] = v]
      BY <1>7 DEF ForwardEnd, SendOn
    <3> QED
      BY <3>1
  <2> QED
    BY <2>1, <2>2 DEF Settled
<1>8. ASSUME NEW i \in Forwarders, ForwardErr(i) PROVE Settled
  <2>1. UNCHANGED <<cap, feed, fed, collector>> /\ fwd[i] \in {"running", "blocked"}
    BY <1>8 DEF ForwardErr
  <2>2. \A j \in Forwarders : j # i => fwd'[j] = fwd[j]
    <3>1. \E v \in {"running", "blocked", "done", "failed"} : fwd' = [fwd EXCEPT ![i] = v]
      BY <1>8 DEF ForwardErr, SendOn
    <3> QED
      BY <3>1
  <2> QED
    BY <2>1, <2>2 DEF Settled
<1>9. CASE FeedItem
  BY <1>9 DEF FeedItem, Settled
<1>10. CASE FeedEnds
  BY <1>10 DEF FeedEnds, Settled
<1>11. CASE FeedReleased
  BY <1>11 DEF FeedReleased, Settled
<1>12. CASE CollectTerminal
  BY <1>12 DEF CollectTerminal, Settled
<1>13. CASE Collect \/ CollectCredit \/ CollectIdle \/ CloseGates \/ Join
  <2>1. UNCHANGED <<feed, fed, cap, fwd, collector>>
    BY <1>13 DEF Collect, Take, CountRead, GrantBack, Heads, CollectCredit, RouteCredit,
       CollectIdle, FlushBack, CloseGates, Join
  <2> QED
    BY <2>1 DEF Settled
<1>14. ASSUME NEW i \in Caps,
             Arrive(i) \/ Read(i) \/ FlushBeforeWait(i) \/ Emit(i) \/ Release(i) \/
             GrantArrives(i)
      PROVE  Settled
  <2>1. UNCHANGED <<feed, fed, cap, fwd, collector>>
    BY <1>14 DEF Arrive, TakeChunk, Read, MayRead, Grant, FlushBeforeWait, Emit, Release,
       GrantArrives
  <2> QED
    BY <2>1 DEF Settled
<1>15. ASSUME NEW i \in Forwarders,
             ForwardCredit(i) \/ ForwardIdle(i)
      PROVE  Settled
  <2>1. UNCHANGED <<feed, fed, cap, fwd, collector>>
    BY <1>15 DEF ForwardCredit, RouteCredit, Take, Heads, ForwardIdle, FlushBack, GrantBack
  <2> QED
    BY <2>1 DEF Settled
<1>16. CASE UNCHANGED vars
  BY <1>16 DEF vars, Settled
<1> QED
  BY <1>1, <1>2, <1>3, <1>4, <1>5, <1>6, <1>7, <1>8, <1>9, <1>10, <1>11, <1>12, <1>13, <1>14,
     <1>15, <1>16
     DEF Next, FeedStep, HandlerStep, ForwardStep, RunStep


\* The terminal frame of a cap is the last it sends, and a cap that has ended
\* has written all it had to.
Sealed(i) == /\ cap[i] = "ended" => out[i] = <<>>
             /\ \A k \in 1 .. Len(fromCap[i]) : fromCap[i][k].type \in {"end", "err"} =>
                   /\ k = Len(fromCap[i]) /\ ~ Running(i)
                   /\ fromCap[i][k].type = "end" => cap[i] = "ended"
Sealing == \A i \in Caps : Sealed(i)

\* What a step may do to a cap and its channel.
Untouched(i) == cap'[i] = cap[i] /\ fromCap'[i] = fromCap[i] /\ (out'[i] = out[i] \/ Running(i))
Says(i, x) == /\ Running(i) /\ cap'[i] = cap[i] /\ x \in FramesOf(Frames[i])
              /\ ~ (x.type \in {"end", "err"}) /\ fromCap'[i] = Append(fromCap[i], x)
Heard(i) == /\ cap'[i] = cap[i] /\ out'[i] = out[i] /\ fromCap[i] # <<>>
            /\ fromCap'[i] = Tail(fromCap[i])
Closes(i, x) == /\ Running(i) /\ fromCap'[i] = Append(fromCap[i], x)
                /\ \/ x = End /\ cap'[i] = "ended" /\ out'[i] = <<>>
                   \/ x = Err /\ cap'[i] = "failed"

LEMMA Owing ==
    ASSUME Types, NEW i \in Caps
    PROVE  owedIn[i] \in Nat /\ owedIn[i] + 1 \in Nat \ {0}
BY DEF Types, Amounts, Accounts

LEMMA CreditFrames ==
    ASSUME NEW i \in Caps, NEW n \in Nat \ {0}
    PROVE  /\ Credit(n) \in FramesOf(Frames[i]) /\ Credit(n) \in Messages
           /\ Credit(n).type = "credit" /\ Credit(n).n = n
<1>1. Credit(n) \in Messages /\ Credit(n).type = "credit" /\ Credit(n).n = n
  BY Kinds
<1>2. Credit(n) \in FramesOf(Frames[i])
  BY Indices, FrameKinds
<1> QED
  BY <1>1, <1>2

LEMMA StillSealed ==
    ASSUME Types, NEW i \in Caps, Sealed(i),
           \/ Untouched(i) \/ Heard(i)
           \/ \E x \in FramesOf(Frames[i]) : Says(i, x) \/ Closes(i, x)
    PROVE  Sealed(i)'
<1> DEFINE ch == fromCap[i]
<1>1. ch \in Seq(FramesOf(Frames[i]))
  BY DEF Types, Channels, FromCaps
<1>2. CASE Untouched(i)
  BY <1>2 DEF Untouched, Sealed, Running
<1>3. CASE Heard(i)
  <2>1. /\ Len(ch) \in Nat \ {0} /\ Len(Tail(ch)) = Len(ch) - 1
        /\ \A k \in 1 .. Len(Tail(ch)) : Tail(ch)[k] = ch[k + 1] /\ k + 1 \in 1 .. Len(ch)
    BY <1>1, <1>3, HeadTailProperties, EmptySeq DEF Heard
  <2> HIDE DEF ch
  <2>2. /\ cap[i] = "ended" => out[i] = <<>>
        /\ \A k \in 1 .. Len(ch) : ch[k].type \in {"end", "err"} =>
              /\ k = Len(ch) /\ ~ Running(i)
              /\ ch[k].type = "end" => cap[i] = "ended"
    BY DEF Sealed, ch
  <2>3. fromCap'[i] = Tail(ch) /\ cap'[i] = cap[i] /\ out'[i] = out[i]
    BY <1>3 DEF Heard, ch
  <2>4. ASSUME NEW k \in 1 .. Len(fromCap'[i]), fromCap'[i][k].type \in {"end", "err"}
        PROVE  /\ k = Len(fromCap'[i]) /\ cap'[i] # "running"
               /\ fromCap'[i][k].type = "end" => cap'[i] = "ended"
    <3>1. fromCap'[i][k] = ch[k + 1] /\ k + 1 \in 1 .. Len(ch)
      BY <2>1, <2>3
    <3>2. k + 1 = Len(ch) /\ ~ Running(i) /\ (ch[k + 1].type = "end" => cap[i] = "ended")
      BY <2>2, <2>4, <3>1
    <3>3. Len(fromCap'[i]) = Len(ch) - 1 /\ Len(ch) \in Nat /\ k \in Nat
      BY <2>1, <2>3
    <3>4. k = Len(fromCap'[i])
      BY <3>2, <3>3
    <3>5. cap'[i] # "running" /\ (fromCap'[i][k].type = "end" => cap'[i] = "ended")
      <4>1. fromCap'[i][k].type = "end" => cap[i] = "ended"
        BY <3>1, <3>2, Zenon
      <4>2. cap[i] # "running" /\ cap'[i] = cap[i]
        BY <2>3, <3>2, Zenon DEF Running
      <4> QED
        BY <4>1, <4>2, Zenon
    <3> QED
      BY <3>4, <3>5, Zenon
  <2> QED
    BY <2>2, <2>3, <2>4 DEF Sealed, Running
<1>4. ASSUME NEW x \in FramesOf(Frames[i]), Says(i, x) \/ Closes(i, x) PROVE Sealed(i)'
  <2>1. /\ Len(ch) \in Nat /\ Len(Append(ch, x)) = Len(ch) + 1
        /\ \A k \in 1 .. Len(ch) : Append(ch, x)[k] = ch[k]
        /\ Append(ch, x)[Len(ch) + 1] = x
    BY <1>1, AppendProperties
  <2>2. Running(i) /\ fromCap'[i] = Append(ch, x)
    BY <1>4 DEF Says, Closes
  <2> HIDE DEF ch
  <2>3. \A k \in 1 .. Len(ch) : ~ (ch[k].type \in {"end", "err"})
    BY <2>2 DEF Sealed, ch
  <2>4. \A k \in 1 .. Len(fromCap'[i]) : fromCap'[i][k].type \in {"end", "err"}
           => k = Len(fromCap'[i]) /\ fromCap'[i][k] = x
    <3>1. \A k \in 1 .. Len(ch) + 1 : k \in 1 .. Len(ch) \/ k = Len(ch) + 1
      BY <2>1
    <3> QED
      BY <2>1, <2>2, <2>3, <3>1
  <2>5. CASE Says(i, x)
    BY <2>2, <2>4, <2>5 DEF Says, Sealed, Running
  <2>6. CASE Closes(i, x)
    BY <2>4, <2>6, Kinds DEF Closes, Sealed, Running
  <2> QED
    BY <1>4, <2>5, <2>6
<1> QED
  BY <1>2, <1>3, <1>4

LEMMA StepsSeal ==
    ASSUME Types, Sealing, [Next]_vars
    PROVE  Sealing'
<1> USE Indices DEF feeding, inside, engine
<1>0. /\ cap \in [Caps -> {"running", "ended", "failed"}]
      /\ fromCap \in [Caps -> Seq(Messages)] /\ out \in [Caps -> Seq(Messages)]
  BY DEF Types, Roles, Channels, FromCaps, Outs
<1> USE <1>0
<1>1. ASSUME NEW i \in Caps, Arrive(i) PROVE Sealing'
  <2>1. \A j \in Caps : j # i => Untouched(j)
    BY <1>1 DEF Arrive, TakeChunk, Untouched
  <2>2. Untouched(i) \/ Says(i, Credit(1))
    <3>1. Credit(1) \in FramesOf(Frames[i]) /\ Credit(1).type = "credit"
      BY CreditFrames
    <3>2. UNCHANGED <<cap, out>>
      BY <1>1 DEF Arrive
    <3>3. UNCHANGED fromCap \/ (Running(i) /\ fromCap' = [fromCap EXCEPT ![i] = Append(@, Credit(1))])
      BY <1>1 DEF Arrive, TakeChunk
    <3>4. CASE UNCHANGED fromCap
      BY <3>2, <3>4 DEF Untouched
    <3>5. ASSUME Running(i), fromCap' = [fromCap EXCEPT ![i] = Append(@, Credit(1))] PROVE Says(i, Credit(1))
      <4>1. fromCap'[i] = Append(fromCap[i], Credit(1))
        BY <3>5
      <4>2. ~ (Credit(1).type \in {"end", "err"})
        BY <3>1
      <4> QED
        BY <3>1, <3>2, <3>5, <4>1, <4>2 DEF Says
    <3> QED
      BY <3>3, <3>4, <3>5
  <2>3. Credit(1) \in FramesOf(Frames[i])
    BY CreditFrames
  <2> QED
    BY <2>1, <2>2, <2>3, StillSealed DEF Sealing
<1>2. ASSUME NEW i \in Caps, Read(i) PROVE Sealing'
  <2>1. \A j \in Caps : j # i => Untouched(j)
    BY <1>2 DEF Read, Grant, Untouched
  <2>2. Untouched(i) \/ (Says(i, Credit(owedIn[i] + 1)) /\ Credit(owedIn[i] + 1) \in FramesOf(Frames[i]))
    <3>1. owedIn[i] + 1 \in Nat \ {0}
      BY Owing
    <3>2. Credit(owedIn[i] + 1) \in FramesOf(Frames[i]) /\ Credit(owedIn[i] + 1).type = "credit"
      BY <3>1, CreditFrames
    <3> QED
      <4>1. UNCHANGED cap /\ Running(i)
        BY <1>2 DEF Read, MayRead
      <4>2. \/ UNCHANGED fromCap
            \/ fromCap' = [fromCap EXCEPT ![i] = Append(@, Credit(owedIn[i] + 1))]
        BY <1>2 DEF Read, Grant
      <4> DEFINE x == Credit(owedIn[i] + 1)
      <4>3. CASE UNCHANGED fromCap
        BY <4>1, <4>3 DEF Untouched
      <4>4. ASSUME fromCap' = [fromCap EXCEPT ![i] = Append(@, x)] PROVE Says(i, x)
        <5> HIDE DEF x
        <5>1. fromCap'[i] = Append(fromCap[i], x)
          BY <4>4
        <5>2. ~ (x.type \in {"end", "err"}) /\ x \in FramesOf(Frames[i])
          BY <3>2 DEF x
        <5> QED
          BY <4>1, <5>1, <5>2 DEF Says
      <4> QED
        BY <3>2, <4>2, <4>3, <4>4
  <2> QED
    BY <2>1, <2>2, StillSealed DEF Sealing
<1>3. ASSUME NEW i \in Caps, FlushBeforeWait(i) PROVE Sealing'
  <2>1. \A j \in Caps : j # i => Untouched(j)
    BY <1>3 DEF FlushBeforeWait, Grant, Untouched
  <2>2. Says(i, Credit(owedIn[i])) /\ Credit(owedIn[i]) \in FramesOf(Frames[i])
    <3>1. owedIn[i] \in Nat \ {0}
      <4>1. owedIn[i] > 0
        BY <1>3 DEF FlushBeforeWait
      <4> QED
        BY <4>1, Owing, SMTT(30)
    <3>2. Credit(owedIn[i]) \in FramesOf(Frames[i]) /\ Credit(owedIn[i]).type = "credit"
      BY <3>1, CreditFrames
    <3> QED
      BY <1>3, <3>2 DEF FlushBeforeWait, MayRead, Grant, Says
  <2> QED
    BY <2>1, <2>2, StillSealed DEF Sealing
<1>4. ASSUME NEW i \in Caps, Emit(i) PROVE Sealing'
  <2>1. \A j \in Caps : j # i => Untouched(j)
    BY <1>4 DEF Emit, Untouched
  <2>2. Says(i, Head(out[i])) /\ Head(out[i]) \in FramesOf(Frames[i])
    <3>1. Head(out[i]) \in FramesOf(Frames[i]) /\ Head(out[i]).type = "chunk"
      BY <1>4, HeadOfOut, FrameKinds DEF Emit
    <3> QED
      BY <1>4, <3>1 DEF Emit, Says
  <2> QED
    BY <2>1, <2>2, StillSealed DEF Sealing
<1>5. ASSUME NEW i \in Caps, Finish(i) PROVE Sealing'
  <2>1. \A j \in Caps : j # i => Untouched(j)
    BY <1>5 DEF Finish, Ends, Untouched
  <2>2. Closes(i, End) /\ End \in FramesOf(Frames[i])
    <3>1. Running(i) /\ fromCap' = [fromCap EXCEPT ![i] = Append(@, End)] /\ UNCHANGED out
      BY <1>5 DEF Finish, Ends
    <3>2. cap' = [cap EXCEPT ![i] = "ended"] /\ out[i] = <<>>
      BY <1>5 DEF Finish, Ends
    <3>3. End \in FramesOf(Frames[i])
      BY FrameKinds
    <3> QED
      BY <3>1, <3>2, <3>3 DEF Closes
  <2> QED
    BY <2>1, <2>2, StillSealed DEF Sealing
<1>6. ASSUME NEW i \in Caps, StopEarly(i) PROVE Sealing'
  <2>1. \A j \in Caps : j # i => Untouched(j)
    BY <1>6 DEF StopEarly, Ends, Untouched
  <2>2. Closes(i, End) /\ End \in FramesOf(Frames[i])
    <3>1. Running(i) /\ fromCap' = [fromCap EXCEPT ![i] = Append(@, End)] /\ UNCHANGED out
      BY <1>6 DEF StopEarly, Ends
    <3>2. cap' = [cap EXCEPT ![i] = "ended"] /\ out[i] = <<>>
      BY <1>6 DEF StopEarly, Ends
    <3>3. End \in FramesOf(Frames[i])
      BY FrameKinds
    <3> QED
      BY <3>1, <3>2, <3>3 DEF Closes
  <2> QED
    BY <2>1, <2>2, StillSealed DEF Sealing
<1>7. ASSUME NEW i \in Caps, Fail(i) PROVE Sealing'
  <2>1. \A j \in Caps : j # i => Untouched(j)
    BY <1>7 DEF Fail, Ends, Untouched
  <2>2. Closes(i, Err) /\ Err \in FramesOf(Frames[i])
    <3>1. Running(i) /\ fromCap' = [fromCap EXCEPT ![i] = Append(@, Err)] /\ UNCHANGED out
      BY <1>7 DEF Fail, Ends
    <3>2. cap' = [cap EXCEPT ![i] = "failed"]
      BY <1>7 DEF Fail, Ends
    <3>3. Err \in FramesOf(Frames[i])
      BY FrameKinds
    <3> QED
      BY <3>1, <3>2, <3>3 DEF Closes
  <2> QED
    BY <2>1, <2>2, StillSealed DEF Sealing
<1>8. ASSUME NEW i \in Forwarders, ForwardChunk(i) PROVE Sealing'
  <2>1. \A j \in Caps : j # i => Untouched(j)
    <3>1. UNCHANGED <<cap, out>> /\ (UNCHANGED fromCap \/ fromCap' = [fromCap EXCEPT ![i] = Tail(@)])
      BY <1>8 DEF ForwardChunk, SendOn, Take
    <3> QED
      BY <3>1 DEF Untouched
  <2>2. Untouched(i) \/ Heard(i)
    BY <1>8 DEF ForwardChunk, SendOn, Untouched, Heard, Take, Heads, Types, Holding
  <2> QED
    BY <2>1, <2>2, StillSealed DEF Sealing
<1>9. ASSUME NEW i \in Forwarders, ForwardBlocked(i) PROVE Sealing'
  <2>1. \A j \in Caps : j # i => Untouched(j)
    <3>1. UNCHANGED <<cap, out>> /\ (UNCHANGED fromCap \/ fromCap' = [fromCap EXCEPT ![i] = Tail(@)])
      BY <1>9 DEF ForwardBlocked, SendOn, Take
    <3> QED
      BY <3>1 DEF Untouched
  <2>2. Untouched(i) \/ Heard(i)
    BY <1>9 DEF ForwardBlocked, SendOn, Untouched, Heard, Take, Heads, Types, Holding
  <2> QED
    BY <2>1, <2>2, StillSealed DEF Sealing
<1>10. ASSUME NEW i \in Forwarders, ForwardReleased(i) PROVE Sealing'
  <2>1. \A j \in Caps : j # i => Untouched(j)
    BY <1>10 DEF ForwardReleased, Untouched, Take
  <2>2. Heard(i)
    BY <1>10 DEF ForwardReleased, Heard, Take, Heads
  <2> QED
    BY <2>1, <2>2, StillSealed DEF Sealing
<1>11. ASSUME NEW i \in Forwarders, ForwardCredit(i) PROVE Sealing'
  <2>1. \A j \in Caps : j # i => Untouched(j)
    BY <1>11 DEF ForwardCredit, Untouched, Take
  <2>2. Heard(i)
    BY <1>11 DEF ForwardCredit, Heard, Take, Heads
  <2> QED
    BY <2>1, <2>2, StillSealed DEF Sealing
<1>12. ASSUME NEW i \in Forwarders, ForwardEnd(i) PROVE Sealing'
  <2>1. \A j \in Caps : j # i => Untouched(j)
    BY <1>12 DEF ForwardEnd, Untouched, Take
  <2>2. Heard(i)
    BY <1>12 DEF ForwardEnd, Heard, Take, Heads
  <2> QED
    BY <2>1, <2>2, StillSealed DEF Sealing
<1>13. ASSUME NEW i \in Forwarders, ForwardErr(i) PROVE Sealing'
  <2>1. \A j \in Caps : j # i => Untouched(j)
    BY <1>13 DEF ForwardErr, Untouched, Take
  <2>2. Heard(i)
    BY <1>13 DEF ForwardErr, Heard, Take, Heads
  <2> QED
    BY <2>1, <2>2, StillSealed DEF Sealing
<1>14. CASE Collect
  <2>1. \A j \in Caps : j # N => Untouched(j)
    BY <1>14 DEF Collect, Untouched, Take
  <2>2. Heard(N)
    BY <1>14 DEF Collect, Heard, Take, Heads
  <2> QED
    BY <2>1, <2>2, StillSealed DEF Sealing
<1>15. CASE CollectCredit
  <2>1. \A j \in Caps : j # N => Untouched(j)
    BY <1>15 DEF CollectCredit, Untouched, Take
  <2>2. Heard(N)
    BY <1>15 DEF CollectCredit, Heard, Take, Heads
  <2> QED
    BY <2>1, <2>2, StillSealed DEF Sealing
<1>16. CASE CollectTerminal
  <2>1. \A j \in Caps : j # N => Untouched(j)
    BY <1>16 DEF CollectTerminal, Untouched, Take
  <2>2. Heard(N)
    BY <1>16 DEF CollectTerminal, Heard, Take, Heads
  <2> QED
    BY <2>1, <2>2, StillSealed DEF Sealing
<1>17. CASE FeedItem \/ FeedEnds \/ FeedReleased \/ CollectIdle \/ CloseGates \/ Join
  <2>1. UNCHANGED <<cap, fromCap, out>>
    BY <1>17 DEF FeedItem, FeedEnds, FeedReleased, CollectIdle, FlushBack, GrantBack,
       CloseGates, Join
  <2> QED
    BY <2>1 DEF Sealing, Sealed, Running
<1>18. ASSUME NEW i \in Caps,
             Release(i) \/ GrantArrives(i)
      PROVE  Sealing'
  <2>1. UNCHANGED <<cap, fromCap, out>>
    BY <1>18 DEF Release, GrantArrives
  <2> QED
    BY <2>1 DEF Sealing, Sealed, Running
<1>19. ASSUME NEW i \in Forwarders,
             ForwardIdle(i)
      PROVE  Sealing'
  <2>1. UNCHANGED <<cap, fromCap, out>>
    BY <1>19 DEF ForwardIdle, FlushBack, GrantBack
  <2> QED
    BY <2>1 DEF Sealing, Sealed, Running
<1>20. CASE UNCHANGED vars
  BY <1>20 DEF vars, Sealing, Sealed, Running
<1> QED
  BY <1>1, <1>2, <1>3, <1>4, <1>5, <1>6, <1>7, <1>8, <1>9, <1>10, <1>11, <1>12, <1>13, <1>14,
     <1>15, <1>16, <1>17, <1>18, <1>19, <1>20
     DEF Next, FeedStep, HandlerStep, ForwardStep, RunStep


LEMMA SealedAtFirst == ASSUME Init PROVE Sealing
BY Indices DEF Init, Sealing, Sealed, Running

(***************************************************************************)
(* Order: the numbers of the chunks a cap has written, and the run or the  *)
(* next cap has taken from it, and of the items its handler has read.      *)
(***************************************************************************)

Numbers == [Caps -> Nat]

\* How many chunks have been sent to cap i.
SentTo(i, sent) == IF i = 1 THEN fed ELSE sent[i - 1]

\* What cap i has emitted and not sent on is in its channel, and what it has
\* not emitted of the items it has read is before it.
Written(i, sent, emitted, read) ==
    /\ Reader(i) => Consecutive(fromCap[i], Frames[i], sent[i], emitted[i])
    /\ Consecutive(out[i], Frames[i], emitted[i], read[i] * Frames[i])

\* What was sent to cap i and has not arrived is on its way, and what has
\* arrived was read, is queued or is part of an item.
Taken(i, sent, arrived, read) ==
    /\ Running(i) => Consecutive(toCap[i], FramesIn(i), arrived[i], SentTo(i, sent))
    /\ arrived[i] = (read[i] + Len(queue[i])) * FramesIn(i) + part[i]
    /\ \A k \in 1 .. Len(queue[i]) : queue[i][k] = read[i] + k

\* Everything there is for cap i has been sent to it; how many items that is.
InputOver(i, sent, read) ==
    IF i = 1 THEN feed = "done" /\ fed = Items
             ELSE /\ fwd[i - 1] = "done" /\ cap[i - 1] = "ended"
                  /\ sent[i - 1] = read[i - 1] * Frames[i - 1]
Supply(i, read) == IF i = 1 THEN Items ELSE read[i - 1]

\* END is the last frame of an input, and comes when all of it has come.
Closing(i, sent, read) ==
    /\ eof[i] => toCap[i] = <<>> /\ InputOver(i, sent, read)
    /\ \A k \in 1 .. Len(toCap[i]) :
          toCap[i][k] = End => k = Len(toCap[i]) /\ InputOver(i, sent, read)
    /\ cap[i] = "ended" /\ HasRead(i) => read[i] = Supply(i, read)

\* What the run has collected, and when it takes it to be all.
Gathered(sent, read) ==
    /\ sent[N] = Len(collected)
    /\ \A k \in 1 .. Len(collected) :
          /\ collected[k][1] \in 1 .. Items /\ collected[k][2] \in 1 .. Frames[N]
          /\ (collected[k][1] - 1) * Frames[N] + collected[k][2] = k
          /\ collected[k] = <<collected[k][1], collected[k][2]>>
    /\ collector = "ok" => cap[N] = "ended" /\ sent[N] = read[N] * Frames[N]
    /\ result = "ok" => collector = "ok"

Order(sent, emitted, arrived, read) ==
    /\ \A i \in Caps : Written(i, sent, emitted, read)
    /\ \A i \in Caps : Taken(i, sent, arrived, read)
    /\ \A i \in Caps : Closing(i, sent, read)
    /\ Gathered(sent, read)
Orderly == \E sent, emitted, arrived, read \in Numbers : Order(sent, emitted, arrived, read)

LEMMA OrderAtFirst == ASSUME Init PROVE Orderly
<1> DEFINE zero == [i \in Caps |-> 0]
<1>1. zero \in Numbers /\ \A i \in Caps : zero[i] = 0
  BY DEF Numbers
<1> HIDE DEF zero
<1> USE Indices, <1>1
<1>2. ASSUME NEW i \in Caps PROVE Written(i, zero, zero, zero)
  <2>1. fromCap[i] = <<>> /\ out[i] = <<>> /\ zero[i] = 0 /\ zero[i] * Frames[i] = 0
    BY DEF Init
  <2>2. Consecutive(<<>>, Frames[i], 0, 0)
    BY NothingYet
  <2> QED
    BY <2>1, <2>2 DEF Written
<1>3. ASSUME NEW i \in Caps PROVE Taken(i, zero, zero, zero)
  <2>1. /\ toCap[i] = <<>> /\ queue[i] = <<>> /\ Len(queue[i]) = 0 /\ part[i] = 0 /\ zero[i] = 0
        /\ fed = 0
    BY DEF Init
  <2>2. SentTo(i, zero) = 0
    BY <2>1 DEF SentTo, Forwarders, Caps
  <2>3. Consecutive(<<>>, FramesIn(i), 0, 0)
    BY NothingYet
  <2>4. (zero[i] + Len(queue[i])) * FramesIn(i) + part[i] = 0
    BY <2>1
  <2> QED
    BY <2>1, <2>2, <2>3, <2>4 DEF Taken
<1>4. ASSUME NEW i \in Caps PROVE Closing(i, zero, zero)
  BY DEF Init, Closing
<1>5. Gathered(zero, zero)
  BY DEF Init, Gathered
<1>6. Order(zero, zero, zero, zero)
  BY <1>2, <1>3, <1>4, <1>5 DEF Order
<1> QED
  BY <1>1, <1>6 DEF Orderly

\* What a step leaves alone.
LEMMA WrittenKept ==
    ASSUME NEW i \in Caps, NEW s, NEW e, NEW r, NEW s2, NEW e2, NEW r2, Written(i, s, e, r),
           s2[i] = s[i], e2[i] = e[i], r2[i] = r[i],
           fromCap'[i] = fromCap[i], out'[i] = out[i], Reader(i)' => Reader(i)
    PROVE  Written(i, s2, e2, r2)'
BY DEF Written

LEMMA TakenKept ==
    ASSUME NEW i \in Caps, NEW s, NEW a, NEW r, NEW s2, NEW a2, NEW r2, Taken(i, s, a, r),
           a2[i] = a[i], r2[i] = r[i], SentTo(i, s2)' = SentTo(i, s),
           toCap'[i] = toCap[i], queue'[i] = queue[i], part'[i] = part[i], Running(i)' => Running(i)
    PROVE  Taken(i, s2, a2, r2)'
BY DEF Taken

LEMMA ClosingKept ==
    ASSUME NEW i \in Caps, NEW s, NEW r, NEW s2, NEW r2, Closing(i, s, r),
           InputOver(i, s, r) => InputOver(i, s2, r2)',
           cap'[i] = "ended" /\ eof[i] /\ InputOver(i, s, r) =>
              r2[i] = r[i] /\ Supply(i, r2) = Supply(i, r) /\ cap[i] = "ended",
           toCap'[i] = toCap[i], eof'[i] = eof[i], queue'[i] = queue[i]
    PROVE  Closing(i, s2, r2)'
<1>1. HasRead(i)' => HasRead(i) /\ eof[i]
  BY DEF HasRead
<1>2. eof[i] => InputOver(i, s, r)
  BY DEF Closing
<1>3. eof'[i] => toCap'[i] = <<>> /\ InputOver(i, s2, r2)'
  BY DEF Closing
<1>4. \A k \in 1 .. Len(toCap'[i]) :
         toCap'[i][k] = End => k = Len(toCap'[i]) /\ InputOver(i, s2, r2)'
  BY DEF Closing
<1>5. cap'[i] = "ended" /\ HasRead(i)' => r2[i] = Supply(i, r2)
  BY <1>1, <1>2 DEF Closing
<1> QED
  BY <1>3, <1>4, <1>5 DEF Closing, Supply

LEMMA StillOver ==
    ASSUME Types, [Next]_vars, NEW i \in Caps, NEW s, NEW r, NEW s2, NEW r2, InputOver(i, s, r),
           i # 1 => /\ fwd[i - 1] = "done" => s2[i - 1] = s[i - 1]
                    /\ cap[i - 1] = "ended" => r2[i - 1] = r[i - 1]
    PROVE  InputOver(i, s2, r2)' /\ Supply(i, r2) = Supply(i, r)
<1>1. CASE i = 1
  BY <1>1, StepsSettle DEF InputOver, Supply, Settled
<1>2. CASE i # 1
  <2>1. i - 1 \in Forwarders /\ i - 1 \in Caps
    BY <1>2, Indices
  <2>2. fwd[i - 1] = "done" /\ cap[i - 1] = "ended" /\ ~ Running(i - 1)
    BY <1>2 DEF InputOver, Running
  <2>3. fwd'[i - 1] = "done" /\ cap'[i - 1] = "ended"
    BY <2>1, <2>2, StepsSettle DEF Settled
  <2> QED
    BY <1>2, <2>2, <2>3 DEF InputOver, Supply
<1> QED
  BY <1>1, <1>2

LEMMA GatheredKept ==
    ASSUME NEW s, NEW r, NEW s2, NEW r2, Gathered(s, r), s2[N] = s[N], collected' = collected,
           cap[N] = "ended" => cap'[N] = "ended" /\ r2[N] = r[N],
           collector' = "ok" => collector = "ok" \/ (cap[N] = "ended" /\ s[N] = r[N] * Frames[N]),
           result' = "ok" => collector' = "ok"
    PROVE  Gathered(s2, r2)'
<1>1. s2[N] = Len(collected')
  BY DEF Gathered
<1>2. \A k \in 1 .. Len(collected') :
          /\ collected'[k][1] \in 1 .. Items /\ collected'[k][2] \in 1 .. Frames[N]
          /\ (collected'[k][1] - 1) * Frames[N] + collected'[k][2] = k
          /\ collected'[k] = <<collected'[k][1], collected'[k][2]>>
  BY DEF Gathered
<1>3. collector' = "ok" => cap'[N] = "ended" /\ s2[N] = r2[N] * Frames[N]
  BY DEF Gathered
<1> QED
  BY <1>1, <1>2, <1>3 DEF Gathered

\* A cap's channel as it is, with a frame more that is no chunk, or with a
\* frame less that is none.
Minor(i) == \/ fromCap'[i] = fromCap[i]
            \/ \E x \in FramesOf(Frames[i]) : /\ x.type # "chunk"
                                              /\ fromCap'[i] = Append(fromCap[i], x)
            \/ /\ fromCap[i] # <<>> /\ Head(fromCap[i]).type # "chunk"
               /\ fromCap'[i] = Tail(fromCap[i])

LEMMA WrittenMinor ==
    ASSUME Types, NEW i \in Caps, NEW s, NEW e, NEW r, Written(i, s, e, r),
           out'[i] = out[i], Reader(i)' => Reader(i) /\ Minor(i)
    PROVE  Written(i, s, e, r)'
<1>1. fromCap[i] \in Seq(FramesOf(Frames[i])) /\ Frames[i] \in Nat \ {0}
  BY Indices DEF Types, Channels, FromCaps
<1>2. ASSUME Reader(i)' PROVE Consecutive(fromCap'[i], Frames[i], s[i], e[i])
  <2>1. Consecutive(fromCap[i], Frames[i], s[i], e[i]) /\ Minor(i)
    BY <1>2 DEF Written
  <2>2. CASE fromCap'[i] = fromCap[i]
    BY <2>1, <2>2
  <2>3. ASSUME NEW x \in FramesOf(Frames[i]), x.type # "chunk", fromCap'[i] = Append(fromCap[i], x)
        PROVE  Consecutive(fromCap'[i], Frames[i], s[i], e[i])
    BY <1>1, <2>1, <2>3, ChunkAppended
  <2>4. CASE fromCap[i] # <<>> /\ Head(fromCap[i]).type # "chunk" /\ fromCap'[i] = Tail(fromCap[i])
    BY <1>1, <2>1, <2>4, ChunkTaken
  <2> QED
    BY <2>1, <2>2, <2>3, <2>4 DEF Minor
<1>3. Consecutive(out'[i], Frames[i], e[i], r[i] * Frames[i])
  BY DEF Written
<1> QED
  BY <1>2, <1>3 DEF Written

LEMMA NumbersAre ==
    ASSUME NEW s2 \in Numbers, NEW e2 \in Numbers, NEW a2 \in Numbers, NEW r2 \in Numbers,
           \A i \in Caps : Written(i, s2, e2, r2)', \A i \in Caps : Taken(i, s2, a2, r2)',
           \A i \in Caps : Closing(i, s2, r2)', Gathered(s2, r2)'
    PROVE  Orderly'
BY DEF Orderly, Order

\* Steps that change no number.
SameNumbers(s, r) ==
    /\ UNCHANGED <<fed, toCap, out, queue, part, eof, collected>>
    /\ \A i \in Caps : /\ Reader(i)' => Reader(i) /\ Minor(i)
                       /\ Running(i)' => Running(i)
                       /\ cap'[i] = "ended" /\ cap[i] # "ended" /\ HasRead(i) => r[i] = Supply(i, r)
    /\ collector' = "ok" => collector = "ok" \/ (cap[N] = "ended" /\ s[N] = r[N] * Frames[N])
    /\ result' = "ok" => collector' = "ok"

LEMMA MinorSteps ==
    ASSUME Types, [Next]_vars, NEW s \in Numbers, NEW e \in Numbers, NEW a \in Numbers,
           NEW r \in Numbers, Order(s, e, a, r), SameNumbers(s, r)
    PROVE  Orderly'
<1>1. ASSUME NEW i \in Caps PROVE Written(i, s, e, r)'
  <2>1. Written(i, s, e, r) /\ out'[i] = out[i] /\ (Reader(i)' => Reader(i) /\ Minor(i))
    BY DEF Order, SameNumbers
  <2> QED
    BY <2>1, WrittenMinor
<1>2. ASSUME NEW i \in Caps PROVE Taken(i, s, a, r)'
  <2>1. /\ Taken(i, s, a, r) /\ (Running(i)' => Running(i)) /\ SentTo(i, s)' = SentTo(i, s)
        /\ toCap'[i] = toCap[i] /\ queue'[i] = queue[i] /\ part'[i] = part[i]
    BY DEF Order, SameNumbers, SentTo
  <2> QED
    BY <2>1, TakenKept
<1>3. ASSUME NEW i \in Caps PROVE Closing(i, s, r)'
  <2>1. /\ Closing(i, s, r)
        /\ toCap'[i] = toCap[i] /\ queue'[i] = queue[i] /\ eof'[i] = eof[i]
        /\ cap'[i] = "ended" /\ cap[i] # "ended" /\ HasRead(i) => r[i] = Supply(i, r)
    BY DEF Order, SameNumbers
  <2>2. InputOver(i, s, r) => InputOver(i, s, r)'
    BY StillOver
  <2>3. HasRead(i)' <=> HasRead(i)
    BY <2>1 DEF HasRead
  <2>4. eof'[i] => toCap'[i] = <<>> /\ InputOver(i, s, r)'
    BY <2>1, <2>2 DEF Closing
  <2>5. \A k \in 1 .. Len(toCap'[i]) :
           toCap'[i][k] = End => k = Len(toCap'[i]) /\ InputOver(i, s, r)'
    BY <2>1, <2>2 DEF Closing
  <2>6. cap'[i] = "ended" /\ HasRead(i)' => r[i] = Supply(i, r)
    BY <2>1, <2>3 DEF Closing
  <2> QED
    BY <2>4, <2>5, <2>6 DEF Closing, Supply
<1>4. Gathered(s, r)'
  <2>1. cap[N] = "ended" => cap'[N] = "ended"
    BY Indices, StepsSettle DEF Settled, Running
  <2>2. Gathered(s, r) /\ collected' = collected
    BY DEF Order, SameNumbers
  <2>3. /\ collector' = "ok" => collector = "ok" \/ (cap[N] = "ended" /\ s[N] = r[N] * Frames[N])
        /\ result' = "ok" => collector' = "ok"
    BY DEF SameNumbers
  <2> QED
    BY <2>1, <2>2, <2>3, GatheredKept
<1> QED
  BY <1>1, <1>2, <1>3, <1>4, NumbersAre

\* While more may come, END has not.
LEMMA NotOver ==
    ASSUME NEW i \in Caps, NEW s, NEW r, Closing(i, s, r), ~ InputOver(i, s, r)
    PROVE  ~ eof[i] /\ ~ HasRead(i) /\ \A k \in 1 .. Len(toCap[i]) : toCap[i][k] # End
BY DEF Closing, HasRead

LEMMA InputFrames ==
    ASSUME Types, NEW i \in Caps
    PROVE  /\ toCap[i] \in Seq(Feeds(i)) /\ toCap[i] \in Seq(FramesOf(FramesIn(i)))
           /\ FramesIn(i) \in Nat \ {0}
<1>1. Feeds(i) \subseteq FramesOf(FramesIn(i))
  BY Indices, FrameKinds DEF Feeds
<1>2. toCap[i] \in Seq(Feeds(i)) /\ FramesIn(i) \in Nat \ {0}
  BY Indices DEF Types, Channels, ToCaps
<1> QED
  BY <1>1, <1>2

\* A frame more on its way to a cap.
LEMMA ClosingSent ==
    ASSUME Types, NEW i \in Caps, NEW s, NEW r, NEW s2, NEW r2, Closing(i, s, r), ~ InputOver(i, s, r),
           NEW x, toCap'[i] = Append(toCap[i], x), x = End => InputOver(i, s2, r2)',
           eof'[i] = eof[i], queue'[i] = queue[i]
    PROVE  Closing(i, s2, r2)'
<1>1. ~ eof[i] /\ \A k \in 1 .. Len(toCap[i]) : toCap[i][k] # End
  BY NotOver
<1>2. ~ eof'[i] /\ ~ HasRead(i)'
  BY <1>1 DEF HasRead
<1>3. toCap[i] \in Seq(Feeds(i))
  BY InputFrames
<1> DEFINE ch == toCap[i]
<1>4. /\ Len(ch) \in Nat /\ Len(Append(ch, x)) = Len(ch) + 1
      /\ \A k \in 1 .. Len(ch) : Append(ch, x)[k] = ch[k]
      /\ Append(ch, x)[Len(ch) + 1] = x
  BY <1>3, AppendProperties
<1>5. ASSUME NEW k \in 1 .. Len(toCap'[i]), toCap'[i][k] = End
      PROVE  k = Len(toCap'[i]) /\ InputOver(i, s2, r2)'
  <2>1. k \in 1 .. Len(ch) \/ k = Len(ch) + 1
    BY <1>4
  <2>2. k = Len(ch) + 1
    BY <1>1, <1>4, <1>5, <2>1
  <2> QED
    BY <1>4, <1>5, <2>2
<1> QED
  BY <1>2, <1>5 DEF Closing

LEMMA FeedItemInOrder ==
    ASSUME Types, [Next]_vars, NEW s \in Numbers, NEW e \in Numbers, NEW a \in Numbers,
           NEW r \in Numbers, Order(s, e, a, r), FeedItem
    PROVE  Orderly'
<1> USE Indices DEF inside, engine
<1>1. CASE ~ live[1]
  <2>1. UNCHANGED <<fed, inside, fromCap, toCap, engine, live>>
    BY <1>1 DEF FeedItem
  <2>2. SameNumbers(s, r)
    BY <2>1 DEF SameNumbers, Minor, Reader, Running, Order, Gathered
  <2> QED
    BY <2>2, MinorSteps
<1>2. CASE live[1]
  <2>1. /\ feed = "running" /\ fed' = fed + 1 /\ UNCHANGED <<feed, inside, fromCap, engine>>
        /\ toCap' = [toCap EXCEPT ![1] = Append(@, Chunk(fed + 1, 1))]
        /\ fed + 1 \in 1 .. Items /\ fed \in Nat /\ 1 \in 1 .. 1
    BY <1>2, SMTT(30) DEF FeedItem, Types, Amounts, Intake
  <2>2. /\ toCap'[1] = Append(toCap[1], Chunk(fed + 1, 1))
        /\ \A i \in Caps : i # 1 => toCap'[i] = toCap[i]
    BY <2>1 DEF Types, Channels, ToCaps
  <2>3. FramesIn(1) = 1
    BY DEF FramesIn
  <2>4. /\ Chunk(fed + 1, 1) \in FramesOf(1) /\ Chunk(fed + 1, 1).type = "chunk"
        /\ Place(Chunk(fed + 1, 1), 1) = fed + 1
    <3>1. Chunk(fed + 1, 1) \in ChunksOf(1) /\ Place(Chunk(fed + 1, 1), 1) = ((fed + 1) - 1) * 1 + 1
      BY <2>1, FrameKinds
    <3>2. ((fed + 1) - 1) * 1 + 1 = fed + 1
      BY <2>1
    <3> QED
      BY <3>1, <3>2, FrameKinds DEF Chunk
  <2>5. ASSUME NEW i \in Caps PROVE Written(i, s, e, r)'
    <3>1. /\ Written(i, s, e, r) /\ fromCap'[i] = fromCap[i] /\ out'[i] = out[i]
          /\ (Reader(i)' => Reader(i))
      BY <2>1 DEF Order, Reader
    <3> QED
      BY <3>1, WrittenKept
  <2>6. ASSUME NEW i \in Caps PROVE Taken(i, s, a, r)'
    <3>1. /\ Taken(i, s, a, r) /\ queue'[i] = queue[i] /\ part'[i] = part[i]
          /\ (Running(i)' => Running(i))
      BY <2>1 DEF Order, Running
    <3>2. CASE i # 1
      <4>1. SentTo(i, s)' = SentTo(i, s) /\ toCap'[i] = toCap[i]
        BY <2>2, <3>2 DEF SentTo
      <4> QED
        BY <3>1, <4>1, TakenKept
    <3>3. CASE i = 1
      <4>1. SentTo(1, s) = fed /\ SentTo(1, s)' = fed + 1
        BY <2>1 DEF SentTo
      <4>2. ASSUME Running(1) PROVE Consecutive(toCap'[1], 1, a[1], fed + 1)
        <5>1. Consecutive(toCap[1], 1, a[1], fed) /\ toCap[1] \in Seq(FramesOf(1))
          BY <2>3, <3>1, <3>3, <4>1, <4>2, InputFrames DEF Taken
        <5> QED
          BY <2>2, <2>4, <5>1, ChunkAppended
      <4> QED
        BY <2>3, <3>1, <3>3, <4>1, <4>2 DEF Taken
    <3> QED
      BY <3>2, <3>3
  <2>7. ASSUME NEW i \in Caps PROVE Closing(i, s, r)'
    <3>1. Closing(i, s, r) /\ eof'[i] = eof[i] /\ queue'[i] = queue[i] /\ cap'[i] = cap[i]
      BY <2>1 DEF Order
    <3>2. CASE i # 1
      <4>1. InputOver(i, s, r) => InputOver(i, s, r)'
        BY StillOver
      <4> QED
        BY <2>2, <3>1, <3>2, <4>1, ClosingKept
    <3>3. CASE i = 1
      <4>1. ~ InputOver(1, s, r) /\ Chunk(fed + 1, 1) # End
        BY <2>1, <2>4, Kinds DEF InputOver
      <4> QED
        BY <2>2, <3>1, <3>3, <4>1, ClosingSent
    <3> QED
      BY <3>2, <3>3
  <2>8. Gathered(s, r)'
    <3>1. Gathered(s, r)
      BY DEF Order
    <3> QED
      BY <2>1, <3>1 DEF Gathered
  <2> QED
    BY <2>5, <2>6, <2>7, <2>8, NumbersAre
<1> QED
  BY <1>1, <1>2

LEMMA FeedEndsInOrder ==
    ASSUME Types, [Next]_vars, NEW s \in Numbers, NEW e \in Numbers, NEW a \in Numbers,
           NEW r \in Numbers, Order(s, e, a, r), FeedEnds
    PROVE  Orderly'
<1> USE Indices DEF inside, engine
<1>1. CASE ~ live[1]
  <2>1. UNCHANGED <<fed, inside, fromCap, toCap, engine, live>>
    BY <1>1 DEF FeedEnds
  <2>2. SameNumbers(s, r)
    BY <2>1 DEF SameNumbers, Minor, Reader, Running, Order, Gathered
  <2> QED
    BY <2>2, MinorSteps
<1>2. CASE live[1]
  <2>1. /\ feed = "running" /\ feed' = "done" /\ fed = Items /\ UNCHANGED <<fed, inside, fromCap, engine>>
        /\ toCap' = [toCap EXCEPT ![1] = Append(@, End)]
    BY <1>2 DEF FeedEnds
  <2>2. toCap'[1] = Append(toCap[1], End) /\ \A i \in Caps : i # 1 => toCap'[i] = toCap[i]
    BY <2>1 DEF Types, Channels, ToCaps
  <2>3. ASSUME NEW i \in Caps PROVE Written(i, s, e, r)'
    <3>1. /\ Written(i, s, e, r) /\ fromCap'[i] = fromCap[i] /\ out'[i] = out[i]
          /\ (Reader(i)' => Reader(i))
      BY <2>1 DEF Order, Reader
    <3> QED
      BY <3>1, WrittenKept
  <2>4. ASSUME NEW i \in Caps PROVE Taken(i, s, a, r)'
    <3>1. /\ Taken(i, s, a, r) /\ queue'[i] = queue[i] /\ part'[i] = part[i]
          /\ (Running(i)' => Running(i)) /\ SentTo(i, s)' = SentTo(i, s)
      BY <2>1 DEF Order, Running, SentTo
    <3>2. CASE i # 1
      BY <2>2, <3>1, <3>2, TakenKept
    <3>3. CASE i = 1
      <4>1. ASSUME Running(1) PROVE Consecutive(toCap'[1], FramesIn(1), a[1], SentTo(1, s))
        <5>1. /\ Consecutive(toCap[1], FramesIn(1), a[1], SentTo(1, s))
              /\ toCap[1] \in Seq(FramesOf(FramesIn(1)))
          BY <3>1, <3>3, <4>1, InputFrames DEF Taken
        <5>2. End \in FramesOf(FramesIn(1)) /\ End.type # "chunk"
          BY FrameKinds, Kinds
        <5> QED
          BY <2>2, <5>1, <5>2, ChunkAppended, SMTT(30)
      <4> QED
        BY <3>1, <3>3, <4>1 DEF Taken
    <3> QED
      BY <3>2, <3>3
  <2>5. ASSUME NEW i \in Caps PROVE Closing(i, s, r)'
    <3>1. Closing(i, s, r) /\ eof'[i] = eof[i] /\ queue'[i] = queue[i] /\ cap'[i] = cap[i]
      BY <2>1 DEF Order
    <3>2. CASE i # 1
      <4>1. InputOver(i, s, r) => InputOver(i, s, r)'
        BY StillOver
      <4> QED
        BY <2>2, <3>1, <3>2, <4>1, ClosingKept
    <3>3. CASE i = 1
      <4>1. ~ InputOver(1, s, r) /\ InputOver(1, s, r)'
        BY <2>1 DEF InputOver
      <4> QED
        BY <2>2, <3>1, <3>3, <4>1, ClosingSent
    <3> QED
      BY <3>2, <3>3
  <2>6. Gathered(s, r)'
    <3>1. Gathered(s, r)
      BY DEF Order
    <3> QED
      BY <2>1, <3>1 DEF Gathered
  <2> QED
    BY <2>3, <2>4, <2>5, <2>6, NumbersAre
<1> QED
  BY <1>1, <1>2

\* The account of a cap covers the chunk that arrives.
Covered(i) == Running(i) /\ toCap[i] # <<>> /\ Head(toCap[i]) # End => acct[i] > 0

\* The chunk that arrives is the next one: of the item being put together, or
\* the first of the next item.
LEMMA NextFragment ==
    ASSUME Types, NEW i \in Caps, NEW s \in Numbers, NEW a \in Numbers, NEW r \in Numbers,
           Taken(i, s, a, r), Running(i), toCap[i] # <<>>, Head(toCap[i]) # End
    PROVE  /\ Head(toCap[i]).frag = part[i] + 1
           /\ Head(toCap[i]).item = r[i] + Len(queue[i]) + 1
           /\ Consecutive(Tail(toCap[i]), FramesIn(i), a[i] + 1, SentTo(i, s))
<1> DEFINE F == FramesIn(i)
           c == Head(toCap[i])
           L == Len(queue[i])
<1>1. F \in Nat \ {0} /\ toCap[i] \in Seq(FramesOf(F))
  BY InputFrames
<1>2. c.item \in 1 .. Items /\ c.frag \in 1 .. F /\ c.type = "chunk"
  BY ChunkAtHead
<1>3. Consecutive(toCap[i], F, a[i], SentTo(i, s)) /\ a[i] = (r[i] + L) * F + part[i]
  BY DEF Taken
<1>4. Place(c, F) = a[i] + 1 /\ Consecutive(Tail(toCap[i]), F, a[i] + 1, SentTo(i, s))
  BY <1>1, <1>2, <1>3, ChunkTaken
<1>5. r[i] \in Nat /\ L \in Nat /\ part[i] \in Nat /\ part[i] < F
  BY DEF Numbers, Types, Channels, Queues, Amounts, Intake
<1> HIDE DEF F, c, L
<1>6. c.item - 1 \in Nat /\ c.frag - 1 \in 0 .. F - 1 /\ part[i] \in 0 .. F - 1 /\ r[i] + L \in Nat
  <2>1. Items \in Nat
    BY Indices
  <2>2. c.item - 1 \in Nat
    BY <1>2, <2>1
  <2>3. c.frag - 1 \in 0 .. F - 1 /\ part[i] \in 0 .. F - 1
    BY <1>1, <1>2, <1>5
  <2> QED
    BY <1>5, <2>2, <2>3
<1>7. (c.item - 1) * F + (c.frag - 1) = (r[i] + L) * F + part[i]
  <2>1. (c.item - 1) * F \in Nat /\ (r[i] + L) * F \in Nat
    BY <1>1, <1>6
  <2>2. (c.item - 1) * F + c.frag = (r[i] + L) * F + part[i] + 1
    BY <1>3, <1>4 DEF Place
  <2>3. c.frag \in Int /\ part[i] \in Int
    BY <1>1, <1>2, <1>5
  <2> DEFINE p == (c.item - 1) * F
             q == (r[i] + L) * F
  <2>4. p \in Nat /\ q \in Nat /\ p + c.frag = q + part[i] + 1
    BY <2>1, <2>2
  <2> HIDE DEF p, q
  <2>5. p + (c.frag - 1) = q + part[i]
    BY <2>3, <2>4
  <2> QED
    BY <2>5 DEF p, q
<1>8. c.item - 1 = r[i] + L /\ c.frag - 1 = part[i]
  <2> DEFINE u == c.item - 1
             v == r[i] + L
             x == c.frag - 1
             y == part[i]
  <2>1. u \in Nat /\ v \in Nat /\ x \in 0 .. F - 1 /\ y \in 0 .. F - 1 /\ u * F + x = v * F + y
    BY <1>6, <1>7
  <2> HIDE DEF u, v, x, y
  <2>2. F \in Nat \ {0}
    BY <1>1
  <2>3. ASSUME NEW G \in Nat \ {0}, G = F PROVE u = v /\ x = y
    <3>1. x \in 0 .. G - 1 /\ y \in 0 .. G - 1 /\ u * G + x = v * G + y
      BY <2>1, <2>3
    <3> QED
      BY <2>1, <3>1, Division
  <2>4. u = v /\ x = y
    BY <2>2, <2>3
  <2> QED
    BY <2>4 DEF u, v, x, y
<1>9. c.frag = part[i] + 1 /\ c.item = r[i] + L + 1
  <2>1. c.frag \in Int /\ c.item \in Int
    BY <1>1, <1>2, Indices
  <2>2. c.frag = part[i] + 1
    BY <1>8, <2>1
  <2> DEFINE v == r[i] + L
             y == c.item
  <2>3. v \in Nat /\ y \in Int /\ y - 1 = v
    BY <1>5, <1>8, <2>1
  <2> HIDE DEF v, y
  <2>4. y = v + 1
    BY <2>3
  <2> QED
    BY <2>2, <2>4 DEF v, y
<1> QED
  BY <1>4, <1>9 DEF F, c, L

LEMMA ArriveInOrder ==
    ASSUME Types, [Next]_vars, NEW s \in Numbers, NEW e \in Numbers, NEW a \in Numbers,
           NEW r \in Numbers, Order(s, e, a, r), NEW i \in Caps, Arrive(i), Covered(i)
    PROVE  Orderly'
<1> DEFINE c == Head(toCap[i])
           F == FramesIn(i)
           L == Len(queue[i])
<1>1. /\ toCap[i] # <<>> /\ toCap' = [toCap EXCEPT ![i] = Tail(@)]
      /\ UNCHANGED <<feed, fed, cap, out, fwd, collector, collected, result>>
  BY DEF Arrive, feeding, engine
<1>2. /\ toCap'[i] = Tail(toCap[i]) /\ \A j \in Caps : j # i => toCap'[j] = toCap[j]
      /\ toCap[i] \in Seq(Feeds(i)) /\ toCap[i] \in Seq(FramesOf(F)) /\ F \in Nat \ {0}
  BY <1>1, InputFrames DEF Types, Channels, ToCaps
<1>3. PICK a2 \in Numbers : /\ \A j \in Caps : j # i => a2[j] = a[j]
                            /\ Running(i) /\ c # End => a2[i] = a[i] + 1
                            /\ ~ Running(i) \/ c = End => a2[i] = a[i]
  <2>1. CASE Running(i) /\ c # End
    <3>1. [a EXCEPT ![i] = @ + 1] \in Numbers
      BY DEF Numbers
    <3>2. /\ \A j \in Caps : j # i => [a EXCEPT ![i] = @ + 1][j] = a[j]
          /\ [a EXCEPT ![i] = @ + 1][i] = a[i] + 1
      BY DEF Numbers
    <3> QED
      BY <2>1, <3>1, <3>2
  <2>2. CASE ~ (Running(i) /\ c # End)
    BY <2>2
  <2> QED
    BY <2>1, <2>2
<1>4. /\ ~ Running(i) => UNCHANGED <<part, queue, eof, fromCap>>
      /\ Running(i) /\ c = End => UNCHANGED <<part, queue, fromCap>> /\ eof' = [eof EXCEPT ![i] = TRUE]
      /\ Running(i) /\ c # End =>
            /\ UNCHANGED eof
            /\ part' = [part EXCEPT ![i] = IF c.frag = F THEN 0 ELSE c.frag]
            /\ queue' = IF c.frag = F THEN [queue EXCEPT ![i] = Append(@, c.item)] ELSE queue
            /\ UNCHANGED fromCap \/ fromCap' = [fromCap EXCEPT ![i] = Append(@, Credit(1))]
  <2>1. ~ Running(i) => UNCHANGED <<part, queue, eof, fromCap>>
    BY DEF Arrive
  <2>2. Running(i) /\ c = End => UNCHANGED <<part, queue, fromCap>> /\ eof' = [eof EXCEPT ![i] = TRUE]
    BY DEF Arrive
  <2>3. ASSUME Running(i), c # End
        PROVE  /\ UNCHANGED eof
               /\ part' = [part EXCEPT ![i] = IF c.frag = F THEN 0 ELSE c.frag]
               /\ queue' = IF c.frag = F THEN [queue EXCEPT ![i] = Append(@, c.item)] ELSE queue
               /\ UNCHANGED fromCap \/ fromCap' = [fromCap EXCEPT ![i] = Append(@, Credit(1))]
    <3>1. TakeChunk(i, c.item, c.frag) /\ UNCHANGED eof
      BY <2>3 DEF Arrive
    <3>2. acct[i] > 0 /\ acct[i] \in Int
      BY <1>1, <2>3 DEF Covered, Types, Amounts, Accounts
    <3>3. ~ (acct[i] <= 0)
      BY <3>2
    <3> QED
      BY <3>1, <3>3 DEF TakeChunk
  <2> QED
    BY <2>1, <2>2, <2>3
<1>5. \A j \in Caps : j # i => /\ part'[j] = part[j] /\ queue'[j] = queue[j] /\ eof'[j] = eof[j]
                               /\ fromCap'[j] = fromCap[j]
  <2>1. /\ part \in [Caps -> Nat] /\ queue \in [Caps -> Seq(1 .. Items)]
        /\ eof \in [Caps -> BOOLEAN] /\ fromCap \in [Caps -> Seq(Messages)]
    BY DEF Types, Roles, Amounts, Intake, Channels, Queues, FromCaps
  <2> HIDE DEF c, F
  <2>2. CASE ~ Running(i)
    BY <1>4, <2>2
  <2>3. CASE Running(i) /\ c = End
    BY <1>4, <2>1, <2>3
  <2>4. CASE Running(i) /\ c # End
    <3>1. /\ UNCHANGED eof /\ \E n : part' = [part EXCEPT ![i] = n]
          /\ UNCHANGED queue \/ queue' = [queue EXCEPT ![i] = Append(@, c.item)]
          /\ UNCHANGED fromCap \/ fromCap' = [fromCap EXCEPT ![i] = Append(@, Credit(1))]
      BY <1>4, <2>4
    <3> QED
      BY <2>1, <3>1
  <2> QED
    BY <2>2, <2>3, <2>4
<1>6. ASSUME NEW j \in Caps PROVE Written(j, s, e, r)'
  <2>1. Written(j, s, e, r) /\ out'[j] = out[j] /\ (Reader(j)' => Reader(j))
    BY <1>1 DEF Order, Reader
  <2>2. Minor(j)
    <3>1. Credit(1) \in FramesOf(Frames[j]) /\ Credit(1).type # "chunk"
      BY CreditFrames
    <3>2. CASE j # i
      BY <1>5, <3>2 DEF Minor
    <3>3. CASE j = i
      <4>1. fromCap \in [Caps -> Seq(Messages)]
        BY DEF Types, Channels, FromCaps
      <4>2. fromCap'[i] = fromCap[i] \/ fromCap'[i] = Append(fromCap[i], Credit(1))
        <5>1. UNCHANGED fromCap \/ fromCap' = [fromCap EXCEPT ![i] = Append(@, Credit(1))]
          BY <1>4
        <5> QED
          BY <4>1, <5>1
      <4> QED
        BY <3>1, <3>3, <4>2 DEF Minor
    <3> QED
      BY <3>2, <3>3
  <2> QED
    BY <2>1, <2>2, WrittenMinor
<1>7. ASSUME NEW j \in Caps PROVE Taken(j, s, a2, r)'
  <2>1. /\ Taken(j, s, a, r) /\ (Running(j)' <=> Running(j)) /\ SentTo(j, s)' = SentTo(j, s)
    BY <1>1 DEF Order, Running, SentTo
  <2>2. CASE j # i
    BY <1>2, <1>3, <1>5, <2>1, <2>2, TakenKept
  <2>3. CASE j = i /\ ~ Running(i)
    <3>1. a2[i] = a[i] /\ part'[i] = part[i] /\ queue'[i] = queue[i]
      BY <1>3, <1>4, <2>3
    <3> QED
      BY <2>1, <2>3, <3>1 DEF Taken
  <2>4. CASE j = i /\ Running(i) /\ c = End
    <3>1. a2[i] = a[i] /\ part'[i] = part[i] /\ queue'[i] = queue[i]
      BY <1>3, <1>4, <2>4
    <3>2. Consecutive(toCap[i], F, a[i], SentTo(i, s))
      BY <2>1, <2>4 DEF Taken
    <3>3. Head(toCap[i]).type # "chunk"
      BY <2>4, Kinds
    <3>4. Consecutive(Tail(toCap[i]), F, a[i], SentTo(i, s))
      BY <1>1, <1>2, <3>2, <3>3, ChunkTaken
    <3> QED
      BY <1>2, <2>1, <2>4, <3>1, <3>4 DEF Taken
  <2>5. CASE j = i /\ Running(i) /\ c # End
    <3>1. /\ c.frag = part[i] + 1 /\ c.item = r[i] + L + 1
          /\ Consecutive(Tail(toCap[i]), F, a[i] + 1, SentTo(i, s))
      BY <1>1, <2>1, <2>5, NextFragment
    <3>2. /\ a[i] = (r[i] + L) * F + part[i] /\ \A k \in 1 .. L : queue[i][k] = r[i] + k
          /\ a2[i] = a[i] + 1
      BY <1>3, <2>1, <2>5 DEF Taken
    <3>3. /\ part \in [Caps -> Nat] /\ queue \in [Caps -> Seq(1 .. Items)] /\ r[i] \in Nat /\ L \in Nat
          /\ part[i] < F /\ part[i] \in Nat
      <4>1. part \in [Caps -> Nat] /\ part[i] < F
        BY DEF Types, Amounts, Intake
      <4>2. queue \in [Caps -> Seq(1 .. Items)]
        BY DEF Types, Channels, Queues
      <4>3. r[i] \in Nat
        BY DEF Numbers
      <4> QED
        BY <4>1, <4>2, <4>3
    <3>4. Consecutive(toCap'[i], F, a2[i], SentTo(i, s))
      BY <1>2, <3>1, <3>2
    <3> HIDE DEF c, F, L
    <3>5. CASE c.frag = F
      <4>1. part'[i] = 0 /\ queue'[i] = Append(queue[i], c.item)
        BY <1>4, <2>5, <3>3, <3>5
      <4>2. /\ Len(queue'[i]) = L + 1 /\ \A k \in 1 .. L : queue'[i][k] = queue[i][k]
            /\ queue'[i][L + 1] = c.item
        BY <3>3, <4>1, AppendProperties DEF L
      <4>3. \A k \in 1 .. L + 1 : queue'[i][k] = r[i] + k
        <5> SUFFICES ASSUME NEW k \in 1 .. L + 1 PROVE queue'[i][k] = r[i] + k
          OBVIOUS
        <5>1. CASE k \in 1 .. L
          BY <3>2, <4>2, <5>1
        <5>2. CASE k = L + 1
          <6>1. queue'[i][k] = c.item
            BY <4>2, <5>2
          <6>2. r[i] + k = r[i] + L + 1
            BY <3>3, <5>2
          <6> QED
            BY <3>1, <6>1, <6>2
        <5> QED
          BY <3>3, <5>1, <5>2
      <4>4. a2[i] = (r[i] + (L + 1)) * F + 0
        <5>1. (r[i] + L) * F \in Nat /\ (r[i] + (L + 1)) * F = (r[i] + L) * F + F
          <6>1. r[i] + L \in Nat /\ r[i] + (L + 1) = (r[i] + L) + 1
            BY <3>3
          <6>2. \A v \in Nat : v * F \in Nat /\ (v + 1) * F = v * F + F
            BY <1>2
          <6> QED
            BY <6>1, <6>2
        <5>2. F = part[i] + 1
          BY <3>1, <3>5
        <5> DEFINE p == (r[i] + L) * F
                   q == (r[i] + (L + 1)) * F
        <5>3. p \in Nat /\ q = p + F /\ a2[i] = (p + part[i]) + 1
          BY <3>2, <5>1
        <5> HIDE DEF p, q
        <5>4. a2[i] = q + 0
          BY <3>3, <5>2, <5>3
        <5> QED
          BY <5>4 DEF q
      <4>5. Taken(i, s, a2, r)'
        BY <2>1, <2>5, <3>4, <4>1, <4>2, <4>3, <4>4 DEF Taken, F, L
      <4> QED
        BY <2>5, <4>5
    <3>6. CASE c.frag # F
      <4>1. part'[i] = part[i] + 1 /\ queue'[i] = queue[i]
        BY <1>4, <2>5, <3>1, <3>3, <3>6
      <4>2. a2[i] = (r[i] + L) * F + (part[i] + 1)
        <5> DEFINE p == (r[i] + L) * F
        <5>1. p \in Nat /\ a2[i] = (p + part[i]) + 1
          <6>1. r[i] + L \in Nat
            BY <3>3
          <6> QED
            BY <1>2, <3>2, <6>1
        <5> HIDE DEF p
        <5>2. a2[i] = p + (part[i] + 1)
          BY <3>3, <5>1
        <5> QED
          BY <5>2 DEF p
      <4>3. Taken(i, s, a2, r)'
        BY <2>1, <2>5, <3>2, <3>4, <4>1, <4>2 DEF Taken, F, L
      <4> QED
        BY <2>5, <4>3
    <3> QED
      BY <3>5, <3>6
  <2> QED
    BY <2>2, <2>3, <2>4, <2>5
<1>8. ASSUME NEW j \in Caps PROVE Closing(j, s, r)'
  <2>1. Closing(j, s, r) /\ cap'[j] = cap[j]
    BY <1>1 DEF Order
  <2>2. InputOver(j, s, r) => InputOver(j, s, r)'
    BY StillOver
  <2>3. CASE j # i
    BY <1>2, <1>5, <2>1, <2>2, <2>3, ClosingKept
  <2>4. CASE j = i
    <3>1. ~ eof[i] /\ \A k \in 1 .. Len(toCap[i]) : toCap[i][k] = End => k = Len(toCap[i]) /\ InputOver(i, s, r)'
      BY <1>1, <2>1, <2>2, <2>4 DEF Closing
    <3>2. /\ Len(toCap[i]) \in Nat \ {0} /\ Len(Tail(toCap[i])) = Len(toCap[i]) - 1
          /\ \A k \in 1 .. Len(Tail(toCap[i])) : /\ Tail(toCap[i])[k] = toCap[i][k + 1]
                                                 /\ k + 1 \in 1 .. Len(toCap[i])
          /\ c = toCap[i][1] /\ Tail(toCap[i]) \in Seq(Feeds(i))
      BY <1>1, <1>2, HeadTailProperties, EmptySeq
    <3>3. \A k \in 1 .. Len(toCap'[i]) :
             toCap'[i][k] = End => k = Len(toCap'[i]) /\ InputOver(i, s, r)'
      <4> SUFFICES ASSUME NEW k \in 1 .. Len(toCap'[i]), toCap'[i][k] = End
                   PROVE  k = Len(toCap'[i]) /\ InputOver(i, s, r)'
        OBVIOUS
      <4>1. k + 1 = Len(toCap[i]) /\ InputOver(i, s, r)'
        BY <1>2, <3>1, <3>2
      <4> QED
        BY <1>2, <3>2, <4>1
    <3>4. eof'[i] => Running(i) /\ c = End
      BY <1>4, <3>1
    <3>5. eof'[i] => toCap'[i] = <<>> /\ InputOver(i, s, r)'
      <4> SUFFICES ASSUME eof'[i] PROVE toCap'[i] = <<>> /\ InputOver(i, s, r)'
        OBVIOUS
      <4>1. 1 = Len(toCap[i]) /\ InputOver(i, s, r)'
        <5>1. 1 \in 1 .. Len(toCap[i]) /\ toCap[i][1] = End
          BY <3>2, <3>4
        <5> QED
          BY <3>1, <5>1
      <4>2. Tail(toCap[i]) = <<>>
        <5>1. Len(Tail(toCap[i])) = 0 /\ Tail(toCap[i]) \in Seq(Feeds(i))
          BY <3>2, <4>1
        <5> QED
          BY <5>1, EmptySeq
      <4> QED
        BY <1>2, <4>1, <4>2
    <3>6. ~ (cap'[i] = "ended" /\ HasRead(i)')
      BY <2>1, <2>4, <3>4 DEF HasRead, Running
    <3>7. Closing(i, s, r)'
      BY <3>3, <3>5, <3>6 DEF Closing
    <3> QED
      BY <2>4, <3>7
  <2> QED
    BY <2>3, <2>4
<1>9. Gathered(s, r)'
  <2>1. Gathered(s, r)
    BY DEF Order
  <2> QED
    BY <1>1, <2>1 DEF Gathered
<1> QED
  BY <1>3, <1>6, <1>7, <1>8, <1>9, NumbersAre

\* One number more.
LEMMA OneMore ==
    ASSUME NEW x \in Numbers, NEW i \in Caps
    PROVE  \E y \in Numbers : y[i] = x[i] + 1 /\ \A j \in Caps : j # i => y[j] = x[j]
<1> DEFINE y == [x EXCEPT ![i] = @ + 1]
<1>1. y \in Numbers /\ y[i] = x[i] + 1 /\ \A j \in Caps : j # i => y[j] = x[j]
  BY DEF Numbers
<1> QED
  BY <1>1

LEMMA ReadInOrder ==
    ASSUME Types, [Next]_vars, NEW s \in Numbers, NEW e \in Numbers, NEW a \in Numbers,
           NEW r \in Numbers, Order(s, e, a, r), NEW i \in Caps, Read(i)
    PROVE  Orderly'
<1> DEFINE F == Frames[i]
           L == Len(queue[i])
           m == Head(queue[i])
           items == [f \in 1 .. F |-> Chunk(m, f)]
<1>1. /\ Running(i) /\ queue[i] # <<>> /\ queue' = [queue EXCEPT ![i] = Tail(@)]
      /\ out' = [out EXCEPT ![i] = @ \o items]
      /\ UNCHANGED <<feed, fed, toCap, part, eof, cap, fwd, collector, collected, result>>
      /\ UNCHANGED fromCap \/ fromCap' = [fromCap EXCEPT ![i] = Append(@, Credit(owedIn[i] + 1))]
  BY DEF Read, MayRead, Grant, feeding, engine
<1>2. PICK r2 \in Numbers : r2[i] = r[i] + 1 /\ \A j \in Caps : j # i => r2[j] = r[j]
  BY OneMore
<1>3. /\ queue[i] \in Seq(1 .. Items) /\ out[i] \in Seq(ChunksOf(F)) /\ F \in Nat \ {0}
      /\ queue'[i] = Tail(queue[i]) /\ \A j \in Caps : j # i => queue'[j] = queue[j]
  BY <1>1, Indices DEF Types, Channels, Queues, Outs
<1>4. out'[i] = out[i] \o items /\ \A j \in Caps : j # i => out'[j] = out[j]
  <2> HIDE DEF items
  <2> QED
    BY <1>1 DEF Types, Channels, Outs
<1>5. /\ L \in Nat \ {0} /\ Len(queue'[i]) = L - 1 /\ m \in 1 .. Items /\ m = queue[i][1]
      /\ \A k \in 1 .. Len(queue'[i]) : queue'[i][k] = queue[i][k + 1] /\ k + 1 \in 1 .. L
  <2> HIDE DEF F, items
  <2>1. /\ queue[i] # <<>> /\ queue[i] \in Seq(1 .. Items) /\ queue'[i] = Tail(queue[i])
    BY <1>1, <1>3
  <2>2. /\ Head(queue[i]) \in 1 .. Items /\ Tail(queue[i]) \in Seq(1 .. Items)
        /\ Len(Tail(queue[i])) = Len(queue[i]) - 1 /\ Len(queue[i]) # 0
    BY <2>1, HeadTailProperties, EmptySeq
  <2>3. Len(queue[i]) \in Nat /\ Head(queue[i]) = queue[i][1]
    BY <2>1
  <2>4. \A k \in 1 .. Len(Tail(queue[i])) : Tail(queue[i])[k] = queue[i][k + 1]
    BY <2>1
  <2> QED
    BY <2>1, <2>2, <2>3, <2>4
<1>6. \A j \in Caps : r[j] \in Nat
  BY DEF Numbers
<1>7. ASSUME NEW j \in Caps PROVE Written(j, s, e, r2)'
  <2>1. Written(j, s, e, r) /\ (Reader(j)' => Reader(j))
    BY <1>1 DEF Order, Reader
  <2>2. CASE j # i
    <3>1. fromCap'[j] = fromCap[j] /\ out'[j] = out[j] /\ r2[j] = r[j]
      BY <1>1, <1>2, <1>4, <2>2 DEF Types, Channels, FromCaps
    <3> QED
      BY <2>1, <3>1, WrittenKept
  <2>3. CASE j = i
    <3>1. m = r[i] + 1
      <4>1. Taken(i, s, a, r)
        BY DEF Order
      <4> QED
        BY <1>5, <4>1 DEF Taken
    <3>2. Consecutive(out[i], F, e[i], r[i] * F)
      BY <2>1, <2>3 DEF Written
    <3>3. r[i] * F = (m - 1) * F /\ m * F = r2[i] * F
      BY <1>2, <1>6, <3>1
    <3>4. Consecutive(out'[i], F, e[i], r2[i] * F)
      <4>1. Consecutive(out[i] \o items, F, e[i], m * F)
        BY <1>3, <1>5, <3>2, <3>3, ItemAppended
      <4> QED
        BY <1>4, <3>3, <4>1
    <3>5. ASSUME Reader(i)' PROVE Consecutive(fromCap'[i], F, s[i], e[i])
      <4>1. Consecutive(fromCap[i], F, s[i], e[i])
        BY <2>1, <2>3, <3>5 DEF Written
      <4>2. fromCap'[i] = fromCap[i] \/ fromCap'[i] = Append(fromCap[i], Credit(owedIn[i] + 1))
        BY <1>1 DEF Types, Channels, FromCaps
      <4>3. Credit(owedIn[i] + 1) \in FramesOf(F) /\ Credit(owedIn[i] + 1).type # "chunk"
        <5>1. owedIn[i] + 1 \in Nat \ {0}
          BY Owing
        <5> QED
          BY <5>1, CreditFrames
      <4>4. fromCap[i] \in Seq(FramesOf(F))
        BY DEF Types, Channels, FromCaps
      <4> QED
        BY <1>3, <4>1, <4>2, <4>3, <4>4, ChunkAppended
    <3>6. Written(i, s, e, r2)'
      BY <3>4, <3>5 DEF Written
    <3> QED
      BY <2>3, <3>6
  <2> QED
    BY <2>2, <2>3
<1>8. ASSUME NEW j \in Caps PROVE Taken(j, s, a, r2)'
  <2>1. /\ Taken(j, s, a, r) /\ (Running(j)' => Running(j)) /\ SentTo(j, s)' = SentTo(j, s)
        /\ toCap'[j] = toCap[j] /\ part'[j] = part[j]
    BY <1>1 DEF Order, Running, SentTo
  <2>2. CASE j # i
    BY <1>2, <1>3, <2>1, <2>2, TakenKept
  <2>3. CASE j = i
    <3>1. a[i] = (r2[i] + Len(queue'[i])) * FramesIn(i) + part[i]
      <4>1. r[i] + L = r2[i] + Len(queue'[i])
        BY <1>2, <1>5, <1>6
      <4> QED
        BY <2>1, <2>3, <4>1 DEF Taken
    <3>2. \A k \in 1 .. Len(queue'[i]) : queue'[i][k] = r2[i] + k
      <4>1. \A k \in 1 .. L : queue[i][k] = r[i] + k
        BY <2>1, <2>3 DEF Taken
      <4> SUFFICES ASSUME NEW k \in 1 .. Len(queue'[i]) PROVE queue'[i][k] = r2[i] + k
        OBVIOUS
      <4>2. queue'[i][k] = r[i] + (k + 1)
        BY <1>5, <4>1
      <4>3. r[i] + (k + 1) = r2[i] + k
        <5>1. k \in Nat /\ r[i] \in Nat /\ r2[i] = r[i] + 1
          BY <1>2, <1>5, <1>6
        <5> QED
          BY <5>1
      <4> QED
        BY <4>2, <4>3
    <3>3. Taken(i, s, a, r2)'
      BY <2>1, <2>3, <3>1, <3>2 DEF Taken
    <3> QED
      BY <2>3, <3>3
  <2> QED
    BY <2>2, <2>3
<1>9. ASSUME NEW j \in Caps PROVE Closing(j, s, r2)'
  <2>1. Closing(j, s, r) /\ toCap'[j] = toCap[j] /\ eof'[j] = eof[j] /\ cap'[j] = cap[j]
    BY <1>1 DEF Order
  <2>2. ASSUME InputOver(j, s, r) PROVE InputOver(j, s, r2)' /\ Supply(j, r2) = Supply(j, r)
    <3>1. j # 1 => j - 1 \in Caps /\ (cap[j - 1] = "ended" => r2[j - 1] = r[j - 1])
      BY <1>1, <1>2, Indices DEF Running
    <3> QED
      BY <2>2, <3>1, StillOver
  <2>3. CASE j # i
    BY <1>2, <1>3, <2>1, <2>2, <2>3, ClosingKept
  <2>4. CASE j = i
    BY <1>1, <2>1, <2>2, <2>4 DEF Closing, Running
  <2> QED
    BY <2>3, <2>4
<1>10. Gathered(s, r2)'
  <2>1. Gathered(s, r) /\ N \in Caps
    BY Indices DEF Order
  <2>2. cap[N] = "ended" => cap'[N] = "ended" /\ r2[N] = r[N]
    BY <1>1, <1>2, <2>1 DEF Running
  <2>3. result' = "ok" => collector' = "ok"
    BY <1>1, <2>1 DEF Gathered
  <2> QED
    BY <1>1, <2>1, <2>2, <2>3, GatheredKept
<1> QED
  BY <1>2, <1>7, <1>8, <1>9, <1>10, NumbersAre

LEMMA EmitInOrder ==
    ASSUME Types, [Next]_vars, NEW s \in Numbers, NEW e \in Numbers, NEW a \in Numbers,
           NEW r \in Numbers, Order(s, e, a, r), NEW i \in Caps, Emit(i)
    PROVE  Orderly'
<1> DEFINE F == Frames[i]
           c == Head(out[i])
<1>1. /\ Running(i) /\ out[i] # <<>> /\ out' = [out EXCEPT ![i] = Tail(@)]
      /\ fromCap' = [fromCap EXCEPT ![i] = Append(@, c)]
      /\ UNCHANGED <<feed, fed, toCap, part, queue, eof, cap, fwd, collector, collected, result>>
  BY DEF Emit, feeding, engine
<1>2. PICK e2 \in Numbers : e2[i] = e[i] + 1 /\ \A j \in Caps : j # i => e2[j] = e[j]
  BY OneMore
<1>3. /\ out'[i] = Tail(out[i]) /\ fromCap'[i] = Append(fromCap[i], c)
      /\ \A j \in Caps : j # i => out'[j] = out[j] /\ fromCap'[j] = fromCap[j]
      /\ fromCap[i] \in Seq(FramesOf(F)) /\ out[i] \in Seq(ChunksOf(F)) /\ F \in Nat \ {0}
  <2> HIDE DEF c
  <2> QED
    BY <1>1, Indices DEF Types, Channels, Outs, FromCaps
<1>4. out[i] \in Seq(FramesOf(F)) /\ c \in FramesOf(F) /\ c.type = "chunk"
  <2>1. c \in ChunksOf(F) /\ ChunksOf(F) \subseteq FramesOf(F)
    BY <1>1, <1>3, HeadOfOut, FrameKinds
  <2> QED
    BY <1>3, <2>1, FrameKinds
<1>5. ASSUME NEW j \in Caps PROVE Written(j, s, e2, r)'
  <2>1. Written(j, s, e, r) /\ (Reader(j)' => Reader(j))
    BY <1>1 DEF Order, Reader
  <2>2. CASE j # i
    BY <1>2, <1>3, <2>1, <2>2, WrittenKept
  <2>3. CASE j = i
    <3>1. Consecutive(out[i], F, e[i], r[i] * F)
      BY <2>1, <2>3 DEF Written
    <3>2. Place(c, F) = e[i] + 1 /\ Consecutive(Tail(out[i]), F, e[i] + 1, r[i] * F)
      BY <1>1, <1>3, <1>4, <3>1, ChunkTaken
    <3>3. Consecutive(fromCap[i], F, s[i], e[i]) => Consecutive(fromCap'[i], F, s[i], e[i] + 1)
      BY <1>3, <1>4, <3>2, ChunkAppended
    <3>4. Written(i, s, e2, r)'
      BY <1>2, <1>3, <2>1, <2>3, <3>2, <3>3 DEF Written
    <3> QED
      BY <2>3, <3>4
  <2> QED
    BY <2>2, <2>3
<1>6. ASSUME NEW j \in Caps PROVE Taken(j, s, a, r)'
  <2>1. /\ Taken(j, s, a, r) /\ (Running(j)' => Running(j)) /\ SentTo(j, s)' = SentTo(j, s)
        /\ toCap'[j] = toCap[j] /\ part'[j] = part[j] /\ queue'[j] = queue[j]
    BY <1>1 DEF Order, Running, SentTo
  <2> QED
    BY <2>1, TakenKept
<1>7. ASSUME NEW j \in Caps PROVE Closing(j, s, r)'
  <2>1. /\ Closing(j, s, r) /\ toCap'[j] = toCap[j] /\ eof'[j] = eof[j] /\ cap'[j] = cap[j]
        /\ queue'[j] = queue[j]
    BY <1>1 DEF Order
  <2>2. InputOver(j, s, r) => InputOver(j, s, r)'
    BY StillOver
  <2> QED
    BY <2>1, <2>2, ClosingKept
<1>8. Gathered(s, r)'
  <2>1. Gathered(s, r)
    BY DEF Order
  <2> QED
    BY <1>1, <2>1 DEF Gathered
<1> QED
  BY <1>2, <1>5, <1>6, <1>7, <1>8, NumbersAre

\* A forwarder that has sent a chunk on.
LEMMA SendOnInOrder ==
    ASSUME Types, [Next]_vars, NEW s \in Numbers, NEW e \in Numbers, NEW a \in Numbers,
           NEW r \in Numbers, Order(s, e, a, r), NEW i \in Forwarders, SendOn(i), live[i + 1],
           fwd[i] \in {"running", "blocked"}, fromCap[i] # <<>>, Head(fromCap[i]).type = "chunk",
           UNCHANGED <<feeding, inside, live, collector, collected, result>>
    PROVE  Orderly'
<1> DEFINE F == Frames[i]
           c == Head(fromCap[i])
           n == i + 1
<1>1. /\ n \in Caps /\ i \in Caps /\ n # i /\ n # 1 /\ i # N /\ FramesIn(n) = F /\ F \in Nat \ {0}
      /\ n - 1 = i
  <2>1. i \in Int
    BY DEF Forwarders
  <2> QED
    BY <2>1, Indices
<1>2. /\ fromCap' = [fromCap EXCEPT ![i] = Tail(@)] /\ toCap' = [toCap EXCEPT ![n] = Append(@, c)]
      /\ fwd' = [fwd EXCEPT ![i] = "running"]
      /\ UNCHANGED <<feed, fed, out, queue, part, eof, cap, collector, collected, result>>
  BY DEF SendOn, Take, feeding, inside
<1>3. PICK s2 \in Numbers : s2[i] = s[i] + 1 /\ \A j \in Caps : j # i => s2[j] = s[j]
  BY <1>1, OneMore
<1>4. /\ fromCap'[i] = Tail(fromCap[i]) /\ toCap'[n] = Append(toCap[n], c)
      /\ \A j \in Caps : j # i => fromCap'[j] = fromCap[j]
      /\ \A j \in Caps : j # n => toCap'[j] = toCap[j]
  <2> HIDE DEF c, n
  <2> QED
    BY <1>1, <1>2 DEF Types, Channels, FromCaps, ToCaps
<1>5. fromCap[i] \in Seq(FramesOf(F)) /\ c \in FramesOf(F) /\ c.type = "chunk" /\ c # End
  BY <1>1, HeadOfOutput, Kinds
<1>6. fwd[i] # "done" /\ (\A j \in Caps : Reader(j)' => Reader(j)) /\ Reader(i)
  BY <1>1, <1>2 DEF Reader, Types, Roles
<1>7. Place(c, F) = s[i] + 1 /\ Consecutive(Tail(fromCap[i]), F, s[i] + 1, e[i])
  <2>1. Consecutive(fromCap[i], F, s[i], e[i])
    BY <1>1, <1>6 DEF Order, Written
  <2> QED
    BY <1>1, <1>5, <2>1, ChunkTaken
<1>8. ASSUME NEW j \in Caps PROVE Written(j, s2, e, r)'
  <2>1. Written(j, s, e, r) /\ out'[j] = out[j]
    BY <1>2 DEF Order
  <2>2. CASE j # i
    BY <1>3, <1>4, <1>6, <2>1, <2>2, WrittenKept
  <2>3. CASE j = i
    BY <1>3, <1>4, <1>7, <2>1, <2>3 DEF Written
  <2> QED
    BY <2>2, <2>3
<1>9. ASSUME NEW j \in Caps PROVE Taken(j, s2, a, r)'
  <2>1. /\ Taken(j, s, a, r) /\ (Running(j)' => Running(j))
        /\ queue'[j] = queue[j] /\ part'[j] = part[j]
    BY <1>2 DEF Order, Running
  <2>2. CASE j # n
    <3>1. SentTo(j, s2)' = SentTo(j, s)
      <4>1. j # 1 => j - 1 \in Caps /\ j - 1 # i
        BY <1>1, <2>2, Indices
      <4> QED
        BY <1>2, <1>3, <4>1 DEF SentTo
    <3> QED
      BY <1>4, <2>1, <2>2, <3>1, TakenKept
  <2>3. CASE j = n
    <3>1. SentTo(n, s) = s[i] /\ SentTo(n, s2)' = s[i] + 1
      BY <1>1, <1>3 DEF SentTo
    <3>2. ASSUME Running(n) PROVE Consecutive(toCap'[n], F, a[n], s[i] + 1)
      <4>1. Consecutive(toCap[n], F, a[n], s[i]) /\ toCap[n] \in Seq(FramesOf(F))
        BY <1>1, <2>1, <2>3, <3>1, <3>2, InputFrames DEF Taken
      <4> HIDE DEF c, n, F
      <4> QED
        BY <1>1, <1>4, <1>5, <1>7, <4>1, ChunkAppended
    <3> QED
      BY <1>1, <2>1, <2>3, <3>1, <3>2 DEF Taken
  <2> QED
    BY <2>2, <2>3
<1>10. ASSUME NEW j \in Caps PROVE Closing(j, s2, r)'
  <2>1. /\ Closing(j, s, r) /\ eof'[j] = eof[j] /\ queue'[j] = queue[j] /\ cap'[j] = cap[j]
    BY <1>2 DEF Order
  <2>2. CASE j # n
    <3>1. j # 1 => j - 1 \in Caps /\ j - 1 # i
      BY <1>1, <2>2, Indices
    <3>2. InputOver(j, s, r) => InputOver(j, s2, r)'
      BY <1>3, <3>1, StillOver
    <3> QED
      BY <1>4, <2>1, <2>2, <3>2, ClosingKept
  <2>3. CASE j = n
    <3>1. ~ InputOver(n, s, r)
      BY <1>1, <1>6 DEF InputOver
    <3> HIDE DEF c, n
    <3> QED
      BY <1>1, <1>4, <1>5, <2>1, <2>3, <3>1, ClosingSent
  <2> QED
    BY <2>2, <2>3
<1>11. Gathered(s2, r)'
  <2>1. Gathered(s, r) /\ N \in Caps
    BY Indices DEF Order
  <2> QED
    BY <1>1, <1>2, <1>3, <2>1, GatheredKept DEF Gathered
<1> QED
  BY <1>3, <1>8, <1>9, <1>10, <1>11, NumbersAre

\* A run that has collected a chunk.
LEMMA CollectInOrder ==
    ASSUME Types, [Next]_vars, NEW s \in Numbers, NEW e \in Numbers, NEW a \in Numbers,
           NEW r \in Numbers, Order(s, e, a, r), Collect
    PROVE  Orderly'
<1> DEFINE F == Frames[N]
           c == Head(fromCap[N])
<1>1. /\ collector = "running" /\ fromCap[N] # <<>> /\ c.type = "chunk"
      /\ collected' = Append(collected, <<c.item, c.frag>>)
      /\ fromCap' = [fromCap EXCEPT ![N] = Tail(@)]
      /\ UNCHANGED <<feed, fed, toCap, out, queue, part, eof, cap, fwd, collector, result>>
  BY DEF Collect, Heads, Take, feeding, inside
<1>2. N \in Caps /\ F \in Nat \ {0}
  BY Indices
<1>3. PICK s2 \in Numbers : s2[N] = s[N] + 1 /\ \A j \in Caps : j # N => s2[j] = s[j]
  BY <1>2, OneMore
<1>4. /\ fromCap'[N] = Tail(fromCap[N]) /\ \A j \in Caps : j # N => fromCap'[j] = fromCap[j]
  BY <1>1, <1>2 DEF Types, Channels, FromCaps
<1>5. fromCap[N] \in Seq(FramesOf(F)) /\ c \in ChunksOf(F)
  BY <1>1, <1>2, HeadOfOutput
<1>6. Reader(N) /\ \A j \in Caps : Reader(j)' => Reader(j)
  BY <1>1 DEF Reader
<1>7. Place(c, F) = s[N] + 1 /\ Consecutive(Tail(fromCap[N]), F, s[N] + 1, e[N])
  <2>1. Consecutive(fromCap[N], F, s[N], e[N])
    BY <1>2, <1>6 DEF Order, Written
  <2> QED
    BY <1>1, <1>2, <1>5, <2>1, ChunkTaken
<1>8. ASSUME NEW j \in Caps PROVE Written(j, s2, e, r)'
  <2>1. Written(j, s, e, r) /\ out'[j] = out[j]
    BY <1>1 DEF Order
  <2>2. CASE j # N
    BY <1>3, <1>4, <1>6, <2>1, <2>2, WrittenKept
  <2>3. CASE j = N
    BY <1>3, <1>4, <1>7, <2>1, <2>3 DEF Written
  <2> QED
    BY <2>2, <2>3
<1>9. \A j \in Caps : j # 1 => j - 1 \in Caps /\ j - 1 # N
  <2> SUFFICES ASSUME NEW j \in Caps, j # 1 PROVE j - 1 \in Caps /\ j - 1 # N
    OBVIOUS
  <2>1. j - 1 \in Forwarders
    BY Indices
  <2> QED
    BY <2>1, Indices
<1>10. ASSUME NEW j \in Caps PROVE Taken(j, s2, a, r)'
  <2>1. /\ Taken(j, s, a, r) /\ (Running(j)' => Running(j)) /\ toCap'[j] = toCap[j]
        /\ queue'[j] = queue[j] /\ part'[j] = part[j]
    BY <1>1 DEF Order, Running
  <2>2. SentTo(j, s2)' = SentTo(j, s)
    BY <1>1, <1>3, <1>9 DEF SentTo
  <2> QED
    BY <2>1, <2>2, TakenKept
<1>11. ASSUME NEW j \in Caps PROVE Closing(j, s2, r)'
  <2>1. /\ Closing(j, s, r) /\ eof'[j] = eof[j] /\ queue'[j] = queue[j] /\ cap'[j] = cap[j]
        /\ toCap'[j] = toCap[j]
    BY <1>1 DEF Order
  <2>2. InputOver(j, s, r) => InputOver(j, s2, r)'
    BY <1>3, <1>9, StillOver
  <2> QED
    BY <2>1, <2>2, ClosingKept
<1>12. Gathered(s2, r)'
  <2>1. Gathered(s, r) /\ collected \in Seq(Nat \X Nat)
    BY DEF Order, Types, Channels, Collection
  <2> DEFINE x == <<c.item, c.frag>>
             L == Len(collected)
  <2>2. c.item \in 1 .. Items /\ c.frag \in 1 .. F
    BY <1>5 DEF ChunksOf
  <2>3. (c.item - 1) * F + c.frag = L + 1 /\ L \in Nat
    BY <1>7, <2>1 DEF Place, Gathered
  <2>4. /\ x[1] = c.item /\ x[2] = c.frag /\ x = <<x[1], x[2]>>
        /\ x \in Nat \X Nat
    BY <1>2, <2>2, Indices
  <2> HIDE DEF x, F, c
  <2>5. /\ Len(Append(collected, x)) = L + 1 /\ Append(collected, x)[L + 1] = x
        /\ \A k \in 1 .. L : Append(collected, x)[k] = collected[k]
    BY <2>1, <2>4, AppendProperties
  <2>6. collected' = Append(collected, x)
    BY <1>1 DEF x
  <2>7. ASSUME NEW k \in 1 .. Len(collected')
        PROVE  /\ collected'[k][1] \in 1 .. Items /\ collected'[k][2] \in 1 .. Frames[N]
               /\ (collected'[k][1] - 1) * Frames[N] + collected'[k][2] = k
               /\ collected'[k] = <<collected'[k][1], collected'[k][2]>>
    <3>1. k \in 1 .. L \/ k = L + 1
      BY <2>3, <2>5, <2>6
    <3>2. CASE k \in 1 .. L
      <4>1. collected'[k] = collected[k]
        BY <2>5, <2>6, <3>2
      <4> QED
        BY <2>1, <3>2, <4>1 DEF Gathered
    <3>3. CASE k = L + 1
      <4>1. collected'[k] = x
        BY <2>5, <2>6, <3>3
      <4> QED
        BY <2>2, <2>3, <2>4, <3>3, <4>1 DEF F
    <3> QED
      BY <3>1, <3>2, <3>3
  <2>8. s2[N] = Len(collected')
    BY <1>3, <2>1, <2>5, <2>6 DEF Gathered
  <2>9. (result' = "ok" => collector' = "ok") /\ collector' # "ok"
    BY <1>1, <2>1 DEF Gathered
  <2> QED
    BY <2>7, <2>8, <2>9 DEF Gathered
<1> QED
  BY <1>3, <1>8, <1>10, <1>11, <1>12, NumbersAre

\* END at the head of a cap's channel: it is all there is, and all the cap made
\* of what it read was sent on.
LEMMA EndIsLast ==
    ASSUME Types, NEW s \in Numbers, NEW e \in Numbers, NEW r \in Numbers, NEW i \in Caps,
           Written(i, s, e, r), Sealed(i),
           Reader(i), fromCap[i] # <<>>, Head(fromCap[i]).type = "end"
    PROVE  cap[i] = "ended" /\ s[i] = r[i] * Frames[i]
<1> DEFINE F == Frames[i]
           ch == fromCap[i]
<1>1. ch \in Seq(FramesOf(F)) /\ ch # <<>>
  BY HeadOfOutput
<1>2. Len(ch) \in Nat /\ 1 \in 1 .. Len(ch) /\ Head(ch) = ch[1] /\ DOMAIN ch = 1 .. Len(ch)
  BY <1>1, EmptySeq
<1>3. Len(ch) = 1 /\ cap[i] = "ended" /\ out[i] = <<>>
  BY <1>2 DEF Sealed
<1>4. s[i] = e[i]
  <2>1. Consecutive(ch, F, s[i], e[i])
    BY DEF Written
  <2>2. \A k \in DOMAIN ch : ch[k].type # "chunk"
    BY <1>2, <1>3
  <2> HIDE DEF F, ch
  <2> QED
    BY <2>1, <2>2, NothingBetween
<1>5. e[i] = r[i] * F
  <2>1. Consecutive(<<>>, F, e[i], r[i] * F)
    BY <1>3 DEF Written
  <2>2. \A k \in DOMAIN <<>> : <<>>[k].type # "chunk"
    OBVIOUS
  <2> DEFINE p == r[i] * F
  <2> HIDE DEF F, ch, p
  <2>3. Consecutive(<<>>, F, e[i], p)
    BY <2>1 DEF p
  <2>4. e[i] = p
    BY <2>2, <2>3, NothingBetween
  <2> QED
    BY <2>4 DEF p
<1> QED
  BY <1>3, <1>4, <1>5

\* A handler that has its END and nothing queued has read all there was for it.
LEMMA ReadAll ==
    ASSUME Types, NEW s \in Numbers, NEW a \in Numbers, NEW r \in Numbers, NEW i \in Caps,
           Taken(i, s, a, r), Closing(i, s, r), Running(i), HasRead(i)
    PROVE  r[i] = Supply(i, r)
<1> DEFINE F == FramesIn(i)
           all == Supply(i, r)
<1>1. F \in Nat \ {0} /\ part[i] \in Nat /\ part[i] < F /\ r[i] \in Nat
  BY Indices DEF Types, Amounts, Intake, Numbers
<1>2. toCap[i] = <<>> /\ InputOver(i, s, r) /\ queue[i] = <<>>
  BY DEF Closing, HasRead
<1>3. a[i] = SentTo(i, s)
  <2>1. Consecutive(<<>>, F, a[i], SentTo(i, s))
    BY <1>2 DEF Taken
  <2>2. \A k \in DOMAIN <<>> : <<>>[k].type # "chunk"
    OBVIOUS
  <2> HIDE DEF F
  <2> QED
    BY <2>1, <2>2, NothingBetween
<1>4. a[i] = r[i] * F + part[i]
  <2>1. Len(queue[i]) = 0
    BY <1>2
  <2>2. r[i] + Len(queue[i]) = r[i]
    BY <1>1, <2>1
  <2> QED
    BY <2>2 DEF Taken
<1>5. all \in Nat /\ SentTo(i, s) = all * F
  <2>1. CASE i = 1
    <3>1. F = 1 /\ all = Items /\ SentTo(i, s) = Items
      BY <1>2, <2>1 DEF FramesIn, Supply, SentTo, InputOver
    <3> QED
      BY <3>1, Indices
  <2>2. CASE i # 1
    <3>1. i - 1 \in Caps /\ FramesIn(i) = Frames[i - 1]
      BY <2>2, Indices DEF FramesIn
    <3> QED
      BY <1>2, <2>2, <3>1 DEF Supply, SentTo, InputOver, Numbers
  <2> QED
    BY <2>1, <2>2
<1>6. r[i] * F + part[i] = all * F + 0 /\ part[i] \in 0 .. F - 1 /\ 0 \in 0 .. F - 1
  <2>1. all * F + 0 = all * F
    BY <1>1, <1>5
  <2>2. r[i] * F + part[i] = all * F
    BY <1>3, <1>4, <1>5
  <2>3. part[i] \in 0 .. F - 1 /\ 0 \in 0 .. F - 1
    BY <1>1
  <2> QED
    BY <2>1, <2>2, <2>3
<1> HIDE DEF F, all
<1> DEFINE u == r[i]
           q == part[i]
<1>7. u \in Nat /\ q \in 0 .. F - 1 /\ u * F + q = all * F + 0
  BY <1>1, <1>6
<1> HIDE DEF u, q
<1>8. u = all
  BY <1>1, <1>5, <1>6, <1>7, Division
<1> QED
  BY <1>8 DEF u, all

LEMMA ForwardEndInOrder ==
    ASSUME Types, Sealing, [Next]_vars, NEW s \in Numbers, NEW e \in Numbers, NEW a \in Numbers,
           NEW r \in Numbers, Order(s, e, a, r), NEW i \in Forwarders, ForwardEnd(i), live[i + 1]
    PROVE  Orderly'
<1> DEFINE F == Frames[i]
           n == i + 1
<1>1. /\ n \in Caps /\ i \in Caps /\ n # i /\ n # 1 /\ i # N /\ FramesIn(n) = F /\ F \in Nat \ {0}
      /\ n - 1 = i
  <2>1. i \in Int
    BY DEF Forwarders
  <2> QED
    BY <2>1, Indices
<1>2. /\ fwd[i] = "running" /\ fromCap[i] # <<>> /\ Head(fromCap[i]).type = "end"
      /\ fromCap' = [fromCap EXCEPT ![i] = Tail(@)] /\ toCap' = [toCap EXCEPT ![n] = Append(@, End)]
      /\ fwd' = [fwd EXCEPT ![i] = "done"]
      /\ UNCHANGED <<feed, fed, out, queue, part, eof, cap, collector, collected, result>>
  BY DEF ForwardEnd, Take, Heads, feeding, inside
<1>3. /\ toCap'[n] = Append(toCap[n], End) /\ fwd'[i] = "done"
      /\ \A j \in Caps : j # i => fromCap'[j] = fromCap[j]
      /\ \A j \in Caps : j # n => toCap'[j] = toCap[j]
  <2> HIDE DEF n
  <2> QED
    BY <1>1, <1>2 DEF Types, Channels, FromCaps, ToCaps, Roles
<1>4. (\A j \in Caps : Reader(j)' => Reader(j)) /\ Reader(i) /\ ~ Reader(i)'
  <2>1. \A j \in Forwarders : j # i => fwd'[j] = fwd[j]
    BY <1>2 DEF Types, Roles
  <2>2. Reader(i) /\ ~ Reader(i)'
    BY <1>1, <1>2, <1>3 DEF Reader
  <2>3. ASSUME NEW j \in Caps, Reader(j)' PROVE Reader(j)
    <3>1. CASE j = N
      BY <1>2, <2>3, <3>1 DEF Reader
    <3>2. CASE j # N
      <4>1. j \in Forwarders
        BY <3>2, Indices DEF Caps, Forwarders
      <4>2. CASE j = i
        BY <2>2, <4>2
      <4>3. CASE j # i
        BY <2>1, <2>3, <3>2, <4>1, <4>3 DEF Reader
      <4> QED
        BY <4>2, <4>3
    <3> QED
      BY <3>1, <3>2
  <2> QED
    BY <2>2, <2>3
<1>5. cap[i] = "ended" /\ s[i] = r[i] * F
  <2>1. Written(i, s, e, r) /\ Sealed(i)
    BY <1>1 DEF Order, Sealing
  <2>2. i \in Caps /\ Reader(i) /\ fromCap[i] # <<>> /\ Head(fromCap[i]).type = "end"
    BY <1>1, <1>2, <1>4
  <2>3. cap[i] = "ended" /\ s[i] = r[i] * Frames[i]
    BY <2>1, <2>2, EndIsLast
  <2> QED
    BY <2>3
<1>6. ASSUME NEW j \in Caps PROVE Written(j, s, e, r)'
  <2>1. Written(j, s, e, r) /\ out'[j] = out[j]
    BY <1>2 DEF Order
  <2>2. Reader(j)' => Minor(j)
    BY <1>3, <1>4 DEF Minor
  <2> QED
    BY <1>4, <2>1, <2>2, WrittenMinor
<1>7. ASSUME NEW j \in Caps PROVE Taken(j, s, a, r)'
  <2>1. /\ Taken(j, s, a, r) /\ (Running(j)' => Running(j)) /\ SentTo(j, s)' = SentTo(j, s)
        /\ queue'[j] = queue[j] /\ part'[j] = part[j]
    BY <1>2 DEF Order, Running, SentTo
  <2>2. CASE j # n
    BY <1>3, <2>1, <2>2, TakenKept
  <2>3. CASE j = n
    <3>1. ASSUME Running(n) PROVE Consecutive(toCap'[n], F, a[n], SentTo(n, s))
      <4>1. Consecutive(toCap[n], F, a[n], SentTo(n, s)) /\ toCap[n] \in Seq(FramesOf(F))
        BY <1>1, <2>1, <2>3, <3>1, InputFrames DEF Taken
      <4>2. End \in FramesOf(F) /\ End.type # "chunk"
        BY <1>1, FrameKinds, Kinds
      <4> HIDE DEF n, F
      <4> QED
        BY <1>1, <1>3, <4>1, <4>2, ChunkAppended
    <3> QED
      BY <1>1, <2>1, <2>3, <3>1 DEF Taken
  <2> QED
    BY <2>2, <2>3
<1>8. ASSUME NEW j \in Caps PROVE Closing(j, s, r)'
  <2>1. Closing(j, s, r) /\ eof'[j] = eof[j] /\ queue'[j] = queue[j] /\ cap'[j] = cap[j]
    BY <1>2 DEF Order
  <2>2. CASE j # n
    <3>1. InputOver(j, s, r) => InputOver(j, s, r)'
      BY StillOver
    <3> QED
      BY <1>3, <2>1, <2>2, <3>1, ClosingKept
  <2>3. CASE j = n
    <3>1. ~ InputOver(n, s, r) /\ InputOver(n, s, r)'
      BY <1>1, <1>2, <1>3, <1>5 DEF InputOver
    <3> HIDE DEF n, F
    <3> QED
      BY <1>1, <1>3, <2>1, <2>3, <3>1, ClosingSent
  <2> QED
    BY <2>2, <2>3
<1>9. Gathered(s, r)'
  <2>1. Gathered(s, r)
    BY DEF Order
  <2> QED
    BY <1>2, <2>1 DEF Gathered
<1> QED
  BY <1>6, <1>7, <1>8, <1>9, NumbersAre

\* A cap says something that is no chunk, and may end with it.
LEMMA SaysInOrder ==
    ASSUME Types, [Next]_vars, NEW s \in Numbers, NEW e \in Numbers, NEW a \in Numbers,
           NEW r \in Numbers, Order(s, e, a, r), NEW i \in Caps,
           FlushBeforeWait(i) \/ Finish(i) \/ StopEarly(i) \/ Fail(i)
    PROVE  Orderly'
<1>1. /\ \E x \in FramesOf(Frames[i]) : /\ x.type # "chunk"
                                        /\ fromCap' = [fromCap EXCEPT ![i] = Append(@, x)]
      /\ UNCHANGED <<feed, fed, toCap, out, queue, part, eof, fwd, collector, collected, result>>
      /\ Running(i)
  <2>1. CASE FlushBeforeWait(i)
    <3>1. Credit(owedIn[i]) \in FramesOf(Frames[i]) /\ Credit(owedIn[i]).type # "chunk"
      <4>1. owedIn[i] \in Nat \ {0}
        BY <2>1, Owing DEF FlushBeforeWait
      <4> QED
        BY <4>1, CreditFrames
    <3> QED
      BY <2>1, <3>1 DEF FlushBeforeWait, Grant, MayRead, feeding, engine
  <2>2. CASE Finish(i) \/ StopEarly(i)
    <3>1. End \in FramesOf(Frames[i]) /\ End.type # "chunk"
      BY Indices, FrameKinds, Kinds
    <3> QED
      BY <2>2, <3>1 DEF Finish, StopEarly, Ends, feeding, engine
  <2>3. CASE Fail(i)
    <3>1. Err \in FramesOf(Frames[i]) /\ Err.type # "chunk"
      BY Indices, FrameKinds, Kinds
    <3> QED
      BY <2>3, <3>1 DEF Fail, Ends, feeding, engine
  <2> QED
    BY <2>1, <2>2, <2>3
<1>2. \A j \in Caps : Minor(j) /\ (Reader(j)' => Reader(j))
  <2>1. PICK x \in FramesOf(Frames[i]) : /\ x.type # "chunk"
                                         /\ fromCap' = [fromCap EXCEPT ![i] = Append(@, x)]
    BY <1>1
  <2>2. fromCap'[i] = Append(fromCap[i], x) /\ \A j \in Caps : j # i => fromCap'[j] = fromCap[j]
    BY <2>1 DEF Types, Channels, FromCaps
  <2> QED
    BY <1>1, <2>1, <2>2 DEF Minor, Reader
<1>3. \A j \in Caps : /\ Running(j)' => Running(j)
                      /\ cap'[j] = "ended" /\ cap[j] # "ended" /\ HasRead(j) => r[j] = Supply(j, r)
  <2>1. ASSUME NEW j \in Caps, cap'[j] = "ended", cap[j] # "ended", HasRead(j)
        PROVE  r[j] = Supply(j, r)
    <3>1. Running(j)
      <4>1. ~ Running(j) => cap'[j] = cap[j]
        BY StepsSettle DEF Settled
      <4> QED
        BY <2>1, <4>1
    <3> QED
      BY <2>1, <3>1, ReadAll DEF Order
  <2>2. \A j \in Caps : ~ Running(j) => cap'[j] = cap[j]
    BY StepsSettle DEF Settled
  <2> QED
    BY <2>1, <2>2 DEF Running
<1>4. Gathered(s, r)
  BY DEF Order
<1>5. SameNumbers(s, r)
  BY <1>1, <1>2, <1>3, <1>4 DEF SameNumbers, Gathered
<1> QED
  BY <1>5, MinorSteps

\* A reader takes a frame that is no chunk, or stops reading.
LEMMA HearsInOrder ==
    ASSUME Types, [Next]_vars, NEW s \in Numbers, NEW e \in Numbers, NEW a \in Numbers,
           NEW r \in Numbers, Order(s, e, a, r), NEW i \in Caps,
           fromCap[i] # <<>>, fromCap' = [fromCap EXCEPT ![i] = Tail(@)],
           Reader(i)' => Head(fromCap[i]).type # "chunk",
           \A j \in Caps : Reader(j)' => Reader(j),
           UNCHANGED <<fed, toCap, out, queue, part, eof, cap, collected, result>>,
           collector' = "ok" => collector = "ok" \/ (cap[N] = "ended" /\ s[N] = r[N] * Frames[N]),
           collector' = collector \/ collector = "running"
    PROVE  Orderly'
<1>1. fromCap'[i] = Tail(fromCap[i]) /\ \A j \in Caps : j # i => fromCap'[j] = fromCap[j]
  BY DEF Types, Channels, FromCaps
<1>2. \A j \in Caps : Reader(j)' => Reader(j) /\ Minor(j)
  BY <1>1 DEF Minor
<1>3. result' = "ok" => collector' = "ok"
  BY DEF Order, Gathered
<1>4. SameNumbers(s, r)
  BY <1>2, <1>3 DEF SameNumbers, Running
<1> QED
  BY <1>4, MinorSteps

\* Nothing moves in the channels of the caps.
LEMMA SilentInOrder ==
    ASSUME Types, [Next]_vars, NEW s \in Numbers, NEW e \in Numbers, NEW a \in Numbers,
           NEW r \in Numbers, Order(s, e, a, r),
           UNCHANGED <<fromCap, fed, toCap, out, queue, part, eof, cap, collected, collector>>,
           \A j \in Caps : Reader(j)' => Reader(j),
           result' = "ok" => result = "ok" \/ collector = "ok"
    PROVE  Orderly'
<1>1. result' = "ok" => collector' = "ok"
  BY DEF Order, Gathered
<1>2. SameNumbers(s, r)
  BY <1>1 DEF SameNumbers, Running, Minor
<1> QED
  BY <1>2, MinorSteps

\* A forwarder that goes on, waits or returns.
LEMMA ReadersFall ==
    ASSUME Types, NEW i \in Forwarders, NEW v, fwd' = [fwd EXCEPT ![i] = v],
           fwd[i] \in {"running", "blocked"}, UNCHANGED collector
    PROVE  /\ \A j \in Caps : Reader(j)' => Reader(j)
           /\ v \in {"done", "failed"} => ~ Reader(i)'
<1>1. i # N /\ fwd'[i] = v /\ \A j \in Forwarders : j # i => fwd'[j] = fwd[j]
  BY Indices DEF Types, Roles
<1>2. Reader(i) /\ (v \in {"done", "failed"} => ~ Reader(i)')
  BY <1>1 DEF Reader
<1>3. ASSUME NEW j \in Caps, Reader(j)' PROVE Reader(j)
  <2>1. CASE j = N
    BY <1>3, <2>1 DEF Reader
  <2>2. CASE j # N
    <3>1. j \in Forwarders
      BY <2>2, Indices DEF Caps, Forwarders
    <3>2. CASE j = i
      BY <1>2, <3>2
    <3>3. CASE j # i
      BY <1>1, <1>3, <2>2, <3>1, <3>3 DEF Reader
    <3> QED
      BY <3>2, <3>3
  <2> QED
    BY <2>1, <2>2
<1> QED
  BY <1>2, <1>3

LEMMA NextOrder ==
    ASSUME Types, Sealing, Orderly, \A i \in Caps : Covered(i), [Next]_vars
    PROVE  Orderly'
<1> PICK s \in Numbers, e \in Numbers, a \in Numbers, r \in Numbers : Order(s, e, a, r)
  BY DEF Orderly
<1>1. CASE FeedItem \/ FeedEnds
  BY <1>1, FeedItemInOrder, FeedEndsInOrder
<1>2. CASE FeedReleased \/ CollectIdle \/ CloseGates \/ Join
  <2>1. /\ UNCHANGED <<fromCap, fed, toCap, out, queue, part, eof, cap, collected, collector, fwd>>
        /\ result' = "ok" => result = "ok" \/ collector = "ok"
    BY <1>2 DEF FeedReleased, CollectIdle, CloseGates, Join, feeding, inside, engine
  <2>2. \A j \in Caps : Reader(j)' => Reader(j)
    BY <2>1 DEF Reader
  <2> QED
    BY <2>1, <2>2, SilentInOrder
<1>3. ASSUME NEW i \in Caps, Arrive(i) PROVE Orderly'
  BY <1>3, ArriveInOrder
<1>4. ASSUME NEW i \in Caps, Read(i) \/ Emit(i) PROVE Orderly'
  BY <1>4, ReadInOrder, EmitInOrder
<1>5. ASSUME NEW i \in Caps, FlushBeforeWait(i) \/ Finish(i) \/ StopEarly(i) \/ Fail(i) PROVE Orderly'
  BY <1>5, SaysInOrder
<1>6. ASSUME NEW i \in Caps, Release(i) \/ GrantArrives(i) PROVE Orderly'
  <2>1. UNCHANGED <<fromCap, fed, toCap, out, queue, part, eof, cap, collected, collector, fwd, result>>
    BY <1>6 DEF Release, GrantArrives, feeding, inside, engine
  <2>2. \A j \in Caps : Reader(j)' => Reader(j)
    BY <2>1 DEF Reader
  <2> QED
    BY <2>1, <2>2, SilentInOrder
<1>7. ASSUME NEW i \in Forwarders, ForwardChunk(i) \/ ForwardBlocked(i) PROVE Orderly'
  <2>1. /\ fwd[i] \in {"running", "blocked"} /\ i \in Caps
        /\ UNCHANGED <<feeding, inside, live, collector, collected, result>>
    BY <1>7, Indices DEF ForwardChunk, ForwardBlocked
  <2>2. fromCap[i] # <<>> /\ Head(fromCap[i]).type = "chunk"
    BY <1>7 DEF ForwardChunk, ForwardBlocked, Heads, Types, Holding
  <2>3. UNCHANGED <<fed, out, queue, part, eof, cap>>
    BY <2>1 DEF feeding, inside
  <2>4. CASE SendOn(i) /\ live[i + 1]
    BY <2>1, <2>2, <2>4, SendOnInOrder
  <2>5. CASE SendOn(i) /\ ~ live[i + 1]
    <3>1. /\ fwd' = [fwd EXCEPT ![i] = "failed"] /\ fromCap' = [fromCap EXCEPT ![i] = Tail(@)]
          /\ toCap' = toCap
      BY <2>5 DEF SendOn, Take
    <3>2. (\A j \in Caps : Reader(j)' => Reader(j)) /\ ~ Reader(i)'
      BY <2>1, <3>1, ReadersFall
    <3> QED
      BY <2>1, <2>2, <2>3, <3>1, <3>2, HearsInOrder
  <2>6. CASE ~ SendOn(i)
    <3>1. UNCHANGED <<fromCap, toCap>> /\ fwd' = [fwd EXCEPT ![i] = "blocked"]
      BY <1>7, <2>6 DEF ForwardChunk, ForwardBlocked
    <3>2. \A j \in Caps : Reader(j)' => Reader(j)
      BY <2>1, <3>1, ReadersFall
    <3> QED
      BY <2>1, <2>3, <3>1, <3>2, SilentInOrder
  <2> QED
    BY <2>4, <2>5, <2>6
<1>8. ASSUME NEW i \in Forwarders, ForwardReleased(i) \/ ForwardErr(i) PROVE Orderly'
  <2>1. /\ fwd[i] \in {"running", "blocked"} /\ i \in Caps /\ fromCap[i] # <<>>
        /\ fromCap' = [fromCap EXCEPT ![i] = Tail(@)]
        /\ UNCHANGED <<fed, toCap, out, queue, part, eof, cap, collected, collector, result>>
    BY <1>8, Indices DEF ForwardReleased, ForwardErr, Take, Heads, feeding, inside
  <2>2. (\A j \in Caps : Reader(j)' => Reader(j)) /\ ~ Reader(i)'
    <3>1. \E v \in {"done", "failed"} : fwd' = [fwd EXCEPT ![i] = v]
      BY <1>8 DEF ForwardReleased, ForwardErr
    <3> QED
      BY <2>1, <3>1, ReadersFall
  <2> QED
    BY <2>1, <2>2, HearsInOrder
<1>9. ASSUME NEW i \in Forwarders, ForwardCredit(i) PROVE Orderly'
  <2>1. /\ i \in Caps /\ fromCap[i] # <<>> /\ Head(fromCap[i]).type = "credit"
        /\ fromCap' = [fromCap EXCEPT ![i] = Tail(@)]
        /\ UNCHANGED <<fed, toCap, out, queue, part, eof, cap, collected, collector, fwd, result>>
    BY <1>9, Indices DEF ForwardCredit, Take, Heads, feeding, inside, engine
  <2>2. \A j \in Caps : Reader(j)' => Reader(j)
    BY <2>1 DEF Reader
  <2> QED
    BY <2>1, <2>2, HearsInOrder
<1>10. ASSUME NEW i \in Forwarders, ForwardEnd(i) PROVE Orderly'
  <2>1. CASE live[i + 1]
    BY <1>10, <2>1, ForwardEndInOrder
  <2>2. CASE ~ live[i + 1]
    <3>1. /\ fwd[i] \in {"running", "blocked"} /\ i \in Caps /\ fromCap[i] # <<>>
          /\ fromCap' = [fromCap EXCEPT ![i] = Tail(@)] /\ fwd' = [fwd EXCEPT ![i] = "failed"]
          /\ UNCHANGED <<fed, toCap, out, queue, part, eof, cap, collected, collector, result>>
      BY <1>10, <2>2, Indices DEF ForwardEnd, Take, Heads, feeding, inside
    <3>2. (\A j \in Caps : Reader(j)' => Reader(j)) /\ ~ Reader(i)'
      BY <3>1, ReadersFall
    <3> QED
      BY <3>1, <3>2, HearsInOrder
  <2> QED
    BY <2>1, <2>2
<1>11. ASSUME NEW i \in Forwarders, ForwardIdle(i) PROVE Orderly'
  <2>1. UNCHANGED <<fromCap, fed, toCap, out, queue, part, eof, cap, collected, collector, fwd, result>>
    BY <1>11 DEF ForwardIdle, feeding, inside
  <2>2. \A j \in Caps : Reader(j)' => Reader(j)
    BY <2>1 DEF Reader
  <2> QED
    BY <2>1, <2>2, SilentInOrder
<1>12. CASE Collect
  BY <1>12, CollectInOrder
<1>13. CASE CollectCredit
  <2>1. /\ N \in Caps /\ fromCap[N] # <<>> /\ Head(fromCap[N]).type = "credit"
        /\ fromCap' = [fromCap EXCEPT ![N] = Tail(@)]
        /\ UNCHANGED <<fed, toCap, out, queue, part, eof, cap, collected, collector, fwd, result>>
    BY <1>13, Indices DEF CollectCredit, Take, Heads, feeding, inside, engine
  <2>2. \A j \in Caps : Reader(j)' => Reader(j)
    BY <2>1 DEF Reader
  <2> QED
    BY <2>1, <2>2, HearsInOrder
<1>14. CASE CollectTerminal
  <2>1. /\ N \in Caps /\ fromCap[N] # <<>> /\ collector = "running"
        /\ fromCap' = [fromCap EXCEPT ![N] = Tail(@)] /\ collector' # "running"
        /\ Head(fromCap[N]).type # "chunk"
        /\ collector' = "ok" => Head(fromCap[N]).type = "end"
        /\ UNCHANGED <<fed, toCap, out, queue, part, eof, cap, collected, fwd, result>>
    BY <1>14, Indices DEF CollectTerminal, Take, Heads, feeding, inside
  <2>2. \A j \in Caps : Reader(j)' => Reader(j)
    BY <2>1 DEF Reader
  <2>3. Reader(N) /\ Written(N, s, e, r) /\ Sealed(N)
    BY <2>1 DEF Reader, Order, Sealing
  <2>4. collector' = "ok" => cap[N] = "ended" /\ s[N] = r[N] * Frames[N]
    BY <2>1, <2>3, EndIsLast
  <2> QED
    BY <2>1, <2>2, <2>4, HearsInOrder
<1>15. CASE UNCHANGED vars
  <2>1. UNCHANGED <<fromCap, fed, toCap, out, queue, part, eof, cap, collected, collector, fwd, result>>
    BY <1>15 DEF vars, feeding, inside, engine
  <2>2. \A j \in Caps : Reader(j)' => Reader(j)
    BY <2>1 DEF Reader
  <2> QED
    BY <2>1, <2>2, SilentInOrder
<1> QED
  BY <1>1, <1>2, <1>3, <1>4, <1>5, <1>6, <1>7, <1>8, <1>9, <1>10, <1>11, <1>12, <1>13, <1>14, <1>15
     DEF Next, FeedStep, HandlerStep, ForwardStep, RunStep

(***************************************************************************)
(* Every input stream is a credit hop.                                     *)
(***************************************************************************)

\* Every chunk in the circle of a cap's credits has a place in its account.
Account(i) == acct[i] + Held(i) + owedIn[i] = CapWindow[i]

\* The circle of credits of a cap's input stream, and the account that covers
\* what its gate may still let through.
HopInv(i) == Hop(i)!TypeOK /\ Hop(i)!CreditsConserved /\ Hop(i)!NoViolation /\ Account(i)

LEMMA HopTypes ==
    ASSUME Types, NEW i \in Caps
    PROVE  Hop(i)!TypeOK
<1>1. gate[i].open \in BOOLEAN /\ gate[i].avail \in Nat
  BY DEF Types, Amounts, Gates
<1>2. /\ toCap[i] \in Seq(Messages) /\ fromCap[i] \in Seq(Messages) /\ Len(queue[i]) \in Nat
  BY DEF Types, Channels, ToCaps, FromCaps, Queues
<1>3. Count(toCap[i]) \in Nat /\ Granted(fromCap[i]) \in Nat
  BY <1>2, Counted
<1>4. Held(i) \in Nat
  <2>1. Len(queue[i]) \in Nat
    BY <1>2
  <2> DEFINE b == IF part[i] > 0 THEN 1 ELSE 0
             l == Len(queue[i])
  <2>2. b \in Nat
    OBVIOUS
  <2>3. l + b \in Nat
    <3> HIDE DEF b, l
    <3>1. l \in Nat
      BY <2>1 DEF l
    <3> QED
      BY <2>2, <3>1
  <2> QED
    BY <2>3 DEF Held
<1>5. owedIn[i] \in Nat /\ acct[i] \in Int
  BY DEF Types, Amounts, Accounts
<1>6. (~ Running(i)) \in BOOLEAN /\ (i \in violated) \in BOOLEAN
  <2>1. (~ (cap[i] = "running")) \in BOOLEAN
    OBVIOUS
  <2>2. (i \in violated) \in BOOLEAN
    OBVIOUS
  <2> QED
    BY <2>1, <2>2, Zenon DEF Running
<1> QED
  BY <1>1, <1>3, <1>4, <1>5, <1>6 DEF Hop!TypeOK

LEMMA HopAtFirst ==
    ASSUME Init, NEW i \in Caps
    PROVE  Hop(i)!Init /\ HopInv(i)
<1>1. /\ gate[i].open = TRUE /\ gate[i].avail = Window /\ toCap[i] = <<>> /\ fromCap[i] = <<>>
      /\ queue[i] = <<>> /\ part[i] = 0 /\ owedIn[i] = 0 /\ acct[i] = CapWindow[i] /\ ~ (i \in violated)
      /\ Running(i)
  BY DEF Init, Running
<1>2. Count(toCap[i]) = 0 /\ Granted(fromCap[i]) = 0 /\ Held(i) = 0
  <2>1. <<>> \in Seq(Messages)
    OBVIOUS
  <2>2. Count(<<>>) = 0 /\ Granted(<<>>) = 0
    BY <2>1, Counted
  <2> QED
    BY <1>1, <2>2 DEF Held
<1>3. Hop(i)!Init
  BY <1>1, <1>2 DEF Hop!Init
<1>4. Hop(i)!TypeOK
  BY InitTypes, HopTypes
<1>5. Window \in Nat /\ CapWindow[i] \in Nat /\ Window <= CapWindow[i]
  BY Indices
<1>6. Hop(i)!CreditsConserved
  BY <1>1, <1>2, <1>5 DEF Hop!CreditsConserved, Hop!Total
<1>7. Hop(i)!NoViolation
  BY <1>1, <1>2, <1>5 DEF Hop!NoViolation
<1>8. Account(i)
  BY <1>1, <1>2, <1>5 DEF Account
<1> QED
  BY <1>3, <1>4, <1>6, <1>7, <1>8 DEF HopInv

\* What CreditHop's actions do to the circle; a chunk never meets an empty
\* account.
LEMMA HopNext ==
    ASSUME NEW i \in Caps, HopInv(i), [Hop(i)!Next]_(Hop(i)!vars)
    PROVE  HopInv(i)'
<1> USE Indices DEF HopInv, Hop!TypeOK, Hop!CreditsConserved, Hop!Total, Hop!NoViolation, Account
<1>1. CASE Hop(i)!Send
  BY <1>1 DEF Hop!Send
<1>2. ASSUME NEW c \in BOOLEAN, Hop(i)!Arrive(c) PROVE HopInv(i)'
  <2>1. CASE c = TRUE
    BY <1>2, <2>1 DEF Hop!Arrive
  <2>2. CASE c = FALSE
    BY <1>2, <2>2 DEF Hop!Arrive
  <2> QED
    BY <2>1, <2>2
<1>3. CASE Hop(i)!Violate
  BY <1>3 DEF Hop!Violate
<1>4. CASE Hop(i)!Consume
  BY <1>4 DEF Hop!Consume
<1>5. CASE Hop(i)!ConsumeAndGrant
  BY <1>5 DEF Hop!ConsumeAndGrant
<1>6. CASE Hop(i)!Flush
  BY <1>6 DEF Hop!Flush
<1>7. CASE Hop(i)!Credited
  BY <1>7 DEF Hop!Credited
<1>8. CASE Hop(i)!Close
  BY <1>8 DEF Hop!Close
<1>9. CASE Hop(i)!End
  BY <1>9 DEF Hop!End
<1>10. CASE Hop(i)!SendLost
  BY <1>10 DEF Hop!SendLost
<1>11. CASE Hop(i)!LoseChunks
  BY <1>11 DEF Hop!LoseChunks
<1>12. CASE Hop(i)!LoseCredit
  BY <1>12 DEF Hop!LoseCredit
<1>13. CASE UNCHANGED Hop(i)!vars
  BY <1>13 DEF Hop!vars
<1> QED
  BY <1>1, <1>2, <1>3, <1>4, <1>5, <1>6, <1>7, <1>8, <1>9, <1>10, <1>11, <1>12, <1>13 DEF Hop!Next

\* A hop makes a step of CreditHop, or none.
Hops(i) == [Hop(i)!Next]_(Hop(i)!vars)

\* What most steps leave alone: all of a hop but its gate and the frames on
\* their way to the cap.
Apart(i) == /\ cap'[i] = cap[i] /\ queue'[i] = queue[i] /\ part'[i] = part[i]
            /\ owedIn'[i] = owedIn[i] /\ acct'[i] = acct[i] /\ violated' = violated
            /\ Granted(fromCap'[i]) = Granted(fromCap[i])

LEMMA ApartIs ==
    ASSUME NEW i \in Caps, Apart(i)
    PROVE  /\ (~ Running(i))' = ~ Running(i) /\ Held(i)' = Held(i) /\ owedIn'[i] = owedIn[i]
           /\ Granted(fromCap'[i]) = Granted(fromCap[i]) /\ acct'[i] = acct[i]
           /\ (i \in violated)' = (i \in violated)
BY DEF Apart, Running, Held

LEMMA HopStays ==
    ASSUME NEW i \in Caps, Apart(i), gate'[i] = gate[i], Count(toCap'[i]) = Count(toCap[i])
    PROVE  Hops(i)
<1>1. UNCHANGED Hop(i)!vars
  BY ApartIs DEF Hop!vars
<1> QED
  BY <1>1 DEF Hops

LEMMA HopSends ==
    ASSUME NEW i \in Caps, Apart(i), gate[i].open, gate[i].avail > 0, gate'[i].open = gate[i].open,
           gate'[i].avail = gate[i].avail - 1,
           \/ Count(toCap'[i]) = Count(toCap[i]) + 1
           \/ ~ Running(i) /\ Count(toCap'[i]) = Count(toCap[i])
    PROVE  Hops(i)
<1>1. CASE Count(toCap'[i]) = Count(toCap[i]) + 1
  <2>1. Hop(i)!Send
    BY <1>1, ApartIs DEF Hop!Send
  <2> QED
    BY <2>1 DEF Hops, Hop!Next
<1>2. CASE ~ Running(i) /\ Count(toCap'[i]) = Count(toCap[i])
  <2>1. Hop(i)!SendLost
    BY <1>2, ApartIs DEF Hop!SendLost
  <2> QED
    BY <2>1 DEF Hops, Hop!Next
<1> QED
  BY <1>1, <1>2

\* A step that only takes from, and adds to, the frames to and from the caps.
Still == UNCHANGED <<cap, queue, part, owedIn, acct, violated>>

LEMMA NoneTaken ==
    ASSUME Types, NEW i \in Caps, fromCap[i] # <<>>, Head(fromCap[i]).type # "credit",
           fromCap' = [fromCap EXCEPT ![i] = Tail(@)]
    PROVE  \A j \in Caps : Granted(fromCap'[j]) = Granted(fromCap[j])
<1>1. fromCap[i] \in Seq(Messages) /\ fromCap'[i] = Tail(fromCap[i])
      /\ \A j \in Caps : j # i => fromCap'[j] = fromCap[j]
  BY DEF Types, Channels, FromCaps
<1>2. Granted(fromCap[i]) = Granted(Tail(fromCap[i]))
  <2>1. Granted(Tail(fromCap[i])) \in Nat /\ Granted(fromCap[i]) = 0 + Granted(Tail(fromCap[i]))
    BY <1>1, Counted
  <2> QED
    BY <2>1
<1> QED
  BY <1>1, <1>2

LEMMA NoneAdded ==
    ASSUME Types, NEW i \in Caps, NEW x \in Messages, x.type # "credit",
           fromCap' = [fromCap EXCEPT ![i] = Append(@, x)]
    PROVE  \A j \in Caps : Granted(fromCap'[j]) = Granted(fromCap[j])
<1>1. fromCap[i] \in Seq(Messages) /\ fromCap'[i] = Append(fromCap[i], x)
      /\ \A j \in Caps : j # i => fromCap'[j] = fromCap[j]
  BY DEF Types, Channels, FromCaps
<1>2. Granted(fromCap[i]) = Granted(Append(fromCap[i], x))
  <2>1. Granted(fromCap[i]) \in Nat /\ Granted(Append(fromCap[i], x)) = Granted(fromCap[i]) + 0
    BY <1>1, Counted
  <2> QED
    BY <2>1
<1> QED
  BY <1>1, <1>2

\* A frame more on its way to cap i.
LEMMA WireGrows ==
    ASSUME Types, NEW i \in Caps, NEW x \in Messages, toCap' = [toCap EXCEPT ![i] = Append(@, x)]
    PROVE  /\ x.type = "chunk" => Count(toCap'[i]) = Count(toCap[i]) + 1
           /\ x.type # "chunk" => Count(toCap'[i]) = Count(toCap[i])
           /\ \A j \in Caps : j # i => toCap'[j] = toCap[j]
<1>1. toCap[i] \in Seq(Messages) /\ toCap'[i] = Append(toCap[i], x)
      /\ \A j \in Caps : j # i => toCap'[j] = toCap[j]
  BY DEF Types, Channels, ToCaps
<1>2. /\ Count(toCap[i]) \in Nat
      /\ Count(Append(toCap[i], x)) = Count(toCap[i]) + (IF x.type = "chunk" THEN 1 ELSE 0)
  BY <1>1, Counted
<1>3. CASE x.type = "chunk"
  BY <1>1, <1>2, <1>3
<1>4. CASE x.type # "chunk"
  <2>1. Count(toCap[i]) \in Nat /\ Count(Append(toCap[i], x)) = Count(toCap[i]) + 0
    BY <1>2, <1>4
  <2> QED
    BY <1>1, <1>4, <2>1
<1> QED
  BY <1>3, <1>4

LEMMA AllStay ==
    ASSUME Types, \A j \in Caps : Apart(j), UNCHANGED gate,
           \/ UNCHANGED toCap
           \/ \E k \in Caps : toCap' = [toCap EXCEPT ![k] = Append(@, End)]
    PROVE  \A j \in Caps : Hops(j)
<1> SUFFICES ASSUME NEW j \in Caps PROVE Hops(j)
  OBVIOUS
<1>1. Count(toCap'[j]) = Count(toCap[j])
  <2>1. CASE UNCHANGED toCap
    BY <2>1
  <2>2. CASE \E k \in Caps : toCap' = [toCap EXCEPT ![k] = Append(@, End)]
    <3>1. PICK k \in Caps : toCap' = [toCap EXCEPT ![k] = Append(@, End)]
      BY <2>2
    <3>2. End \in Messages /\ End.type # "chunk"
      BY Kinds DEF Messages
    <3> QED
      BY <3>1, <3>2, WireGrows
  <2> QED
    BY <2>1, <2>2
<1> QED
  BY <1>1, HopStays

\* A chunk sent to cap k through its gate, or refused behind it.
LEMMA OneSends ==
    ASSUME Types, \A j \in Caps : Apart(j), NEW k \in Caps, gate[k].open, gate[k].avail > 0,
           gate' = [gate EXCEPT ![k].avail = @ - 1],
           \/ live[k] /\ \E x \in Chunks : toCap' = [toCap EXCEPT ![k] = Append(@, x)]
           \/ ~ live[k] /\ UNCHANGED toCap
    PROVE  \A j \in Caps : Hops(j)
<1>1. /\ gate'[k].open = gate[k].open /\ gate'[k].avail = gate[k].avail - 1
      /\ \A j \in Caps : j # k => gate'[j] = gate[j]
  BY Spends DEF Types, Amounts
<1>2. CASE ~ live[k] /\ UNCHANGED toCap
  <2>1. ~ Running(k)
    BY <1>2 DEF Types, Roles
  <2> QED
    BY <1>1, <1>2, <2>1, HopSends, HopStays
<1>3. CASE \E x \in Chunks : toCap' = [toCap EXCEPT ![k] = Append(@, x)]
  <2>1. PICK x \in Chunks : toCap' = [toCap EXCEPT ![k] = Append(@, x)]
    BY <1>3
  <2>2. x \in Messages /\ x.type = "chunk"
    BY Kinds DEF Messages
  <2>3. Count(toCap'[k]) = Count(toCap[k]) + 1 /\ \A j \in Caps : j # k => toCap'[j] = toCap[j]
    BY <2>1, <2>2, WireGrows
  <2> QED
    BY <1>1, <2>3, HopSends, HopStays
<1> QED
  BY <1>2, <1>3

LEMMA ArriveHops ==
    ASSUME Types, Orderly, NEW i \in Caps, Arrive(i), Covered(i)
    PROVE  \A j \in Caps : Hops(j)
<1> DEFINE c == Head(toCap[i])
<1> USE DEF feeding, engine
<1>1. /\ toCap[i] # <<>> /\ toCap' = [toCap EXCEPT ![i] = Tail(@)]
      /\ UNCHANGED <<gate, owedIn, cap>>
  BY DEF Arrive
<1>2. toCap[i] \in Seq(Messages) /\ toCap'[i] = Tail(toCap[i]) /\ c \in Messages
      /\ \A j \in Caps : j # i => toCap'[j] = toCap[j]
  BY <1>1 DEF Types, Channels, ToCaps
<1>3. /\ Count(toCap'[i]) \in Nat
      /\ Count(toCap[i]) = (IF c.type = "chunk" THEN 1 ELSE 0) + Count(toCap'[i])
  BY <1>1, <1>2, Counted
<1>4. c = End => Count(toCap'[i]) = Count(toCap[i])
  <2>1. ASSUME c = End PROVE Count(toCap[i]) = 0 + Count(toCap'[i])
    BY <1>3, <2>1, Kinds
  <2> QED
    BY <1>3, <2>1
<1>5. c # End => c.type = "chunk" /\ Count(toCap[i]) = 1 + Count(toCap'[i])
  BY <1>1, <1>3, ChunkAtHead
<1> HIDE DEF c
<1>6. CASE ~ Running(i) \/ c = End
  <2>1. UNCHANGED <<queue, part, acct, violated, fromCap>>
    BY <1>6 DEF Arrive, c
  <2>2. \A j \in Caps : Apart(j)
    BY <1>1, <2>1 DEF Apart
  <2>3. ASSUME NEW j \in Caps PROVE Hops(j)
    <3>1. CASE j # i \/ c = End
      BY <1>1, <1>2, <1>4, <2>2, <3>1, HopStays
    <3>2. CASE j = i /\ c # End
      <4>1. ~ Running(i)
        BY <1>6, <3>2
      <4>2. 1 \in 1 .. Count(toCap[i]) /\ Count(toCap'[i]) = Count(toCap[i]) - 1
        BY <1>3, <1>5, <3>2
      <4>3. Apart(i)
        BY <2>2
      <4>4. gate'[i] = gate[i]
        BY <1>1
      <4>5. Hop(i)!LoseChunks
        BY <4>1, <4>2, <4>3, <4>4, ApartIs DEF Hop!LoseChunks
      <4> QED
        BY <3>2, <4>5 DEF Hops, Hop!Next
    <3> QED
      BY <3>1, <3>2
  <2> QED
    BY <2>3
<1>7. CASE Running(i) /\ c # End
  <2> DEFINE F == FramesIn(i)
  <2>1. acct[i] > 0 /\ c.type = "chunk" /\ c.item \in 1 .. Items /\ c.frag \in 1 .. F
    BY <1>1, <1>7, ChunkAtHead DEF Covered, c
  <2>2. c.frag = part[i] + 1
    <3>1. PICK s \in Numbers, e \in Numbers, a \in Numbers, r \in Numbers : Order(s, e, a, r)
      BY DEF Orderly
    <3>2. Taken(i, s, a, r)
      BY <3>1 DEF Order
    <3> QED
      BY <1>1, <1>7, <3>2, NextFragment DEF c
  <2>3. /\ violated' = violated
        /\ part' = [part EXCEPT ![i] = IF c.frag = F THEN 0 ELSE c.frag]
        /\ queue' = IF c.frag = F THEN [queue EXCEPT ![i] = Append(@, c.item)] ELSE queue
        /\ IF c.frag > 1
             THEN fromCap' = [fromCap EXCEPT ![i] = Append(@, Credit(1))] /\ UNCHANGED acct
             ELSE acct' = [acct EXCEPT ![i] = @ - 1] /\ UNCHANGED fromCap
    <3>1. TakeChunk(i, c.item, c.frag)
      BY <1>7 DEF Arrive, c
    <3>2. ~ (acct[i] <= 0)
      <4>1. acct[i] \in Int
        BY DEF Types, Amounts, Accounts
      <4> QED
        BY <2>1, <4>1
    <3> QED
      BY <3>1, <3>2 DEF TakeChunk
  <2>4. /\ part \in [Caps -> Nat] /\ acct \in [Caps -> Int] /\ queue \in [Caps -> Seq(1 .. Items)]
        /\ fromCap \in [Caps -> Seq(Messages)] /\ part[i] \in Nat /\ F \in Nat \ {0}
    BY Indices DEF Types, Amounts, Accounts, Intake, Channels, Queues, FromCaps
  <2>5. ASSUME NEW j \in Caps, j # i PROVE Hops(j)
    <3>1. part'[j] = part[j] /\ acct'[j] = acct[j] /\ fromCap'[j] = fromCap[j]
      BY <2>3, <2>4, <2>5
    <3>2. queue'[j] = queue[j]
      BY <2>3, <2>4, <2>5
    <3>3. Apart(j)
      BY <1>1, <2>3, <3>1, <3>2 DEF Apart
    <3> QED
      BY <1>1, <1>2, <2>5, <3>3, HopStays
  <2>6. Held(i)' = Held(i) + (IF c.frag = 1 THEN 1 ELSE 0)
    <3>1. part'[i] = IF c.frag = F THEN 0 ELSE c.frag
      BY <2>3, <2>4
    <3>2. Len(queue[i]) \in Nat /\ Len(queue'[i]) = Len(queue[i]) + (IF c.frag = F THEN 1 ELSE 0)
      <4>1. Len(queue[i]) \in Nat /\ queue[i] \in Seq(1 .. Items)
        BY <2>4
      <4>2. CASE c.frag = F
        <5>1. queue'[i] = Append(queue[i], c.item)
          BY <2>3, <2>4, <4>2
        <5>2. Len(queue'[i]) = Len(queue[i]) + 1
          BY <2>1, <4>1, <5>1, AppendProperties
        <5> QED
          BY <4>1, <4>2, <5>2
      <4>3. CASE c.frag # F
        <5>1. queue'[i] = queue[i]
          BY <2>3, <4>3
        <5> QED
          BY <4>1, <4>3, <5>1
      <4> QED
        BY <4>2, <4>3
    <3> DEFINE l == Len(queue[i])
               m == Len(queue'[i])
               p == part[i]
               q == part'[i]
               f == c.frag
    <3>3. l \in Nat /\ p \in Nat /\ f = p + 1 /\ f \in 1 .. F
      BY <2>1, <2>2, <2>4, <3>2
    <3>4. q = (IF f = F THEN 0 ELSE f) /\ m = l + (IF f = F THEN 1 ELSE 0)
      BY <3>1, <3>2
    <3> HIDE DEF l, m, p, q, f, F
    <3>5. m + (IF q > 0 THEN 1 ELSE 0) = (l + (IF p > 0 THEN 1 ELSE 0)) + (IF f = 1 THEN 1 ELSE 0)
      <4>1. CASE f = F
        BY <2>4, <3>3, <3>4, <4>1
      <4>2. CASE f # F
        BY <2>4, <3>3, <3>4, <4>2
      <4> QED
        BY <4>1, <4>2
    <3> QED
      BY <3>5 DEF l, m, p, q, f, Held
  <2>7. Held(i) \in Nat
    BY HopTypes DEF Hop!TypeOK
  <2>8. /\ (~ Running(i))' = ~ Running(i) /\ gate'[i] = gate[i] /\ owedIn'[i] = owedIn[i]
        /\ (i \in violated)' = (i \in violated)
    BY <1>1, <2>3 DEF Running
  <2>9. Count(toCap[i]) > 0 /\ Count(toCap'[i]) = Count(toCap[i]) - 1
    BY <1>3, <1>5, <1>7
  <2>10. CASE c.frag = 1
    <3>1. acct'[i] = acct[i] - 1 /\ fromCap'[i] = fromCap[i] /\ Held(i)' = Held(i) + 1
      BY <2>3, <2>4, <2>6, <2>10
    <3>2. Hop(i)!Arrive(FALSE)
      BY <2>1, <2>8, <2>9, <3>1 DEF Hop!Arrive
    <3> QED
      BY <2>5, <3>2 DEF Hops, Hop!Next
  <2>11. CASE c.frag # 1
    <3>1. c.frag > 1
      BY <2>1, <2>11
    <3>2. acct'[i] = acct[i] /\ fromCap'[i] = Append(fromCap[i], Credit(1))
      BY <2>3, <2>4, <3>1
    <3>3. Held(i)' = Held(i)
      <4>1. Held(i)' = Held(i) + 0
        BY <2>6, <2>11
      <4> QED
        BY <2>7, <4>1
    <3>4. Granted(fromCap'[i]) = Granted(fromCap[i]) + 1
      <4>1. Credit(1) \in Messages /\ Credit(1).type = "credit" /\ Credit(1).n = 1
        BY Kinds
      <4>2. fromCap[i] \in Seq(Messages)
        BY <2>4
      <4> QED
        BY <3>2, <4>1, <4>2, Counted
    <3>5. Hop(i)!Arrive(TRUE)
      BY <2>1, <2>8, <2>9, <3>2, <3>3, <3>4 DEF Hop!Arrive
    <3> QED
      BY <2>5, <3>5 DEF Hops, Hop!Next
  <2> QED
    BY <2>10, <2>11
<1> QED
  BY <1>6, <1>7

LEMMA ReadHops ==
    ASSUME Types, NEW i \in Caps, Read(i)
    PROVE  \A j \in Caps : Hops(j)
<1>1. /\ queue[i] # <<>> /\ queue' = [queue EXCEPT ![i] = Tail(@)]
      /\ UNCHANGED <<gate, toCap, part, violated, cap>>
  BY DEF Read
<1>2. /\ queue \in [Caps -> Seq(1 .. Items)] /\ fromCap \in [Caps -> Seq(Messages)]
      /\ acct \in [Caps -> Int] /\ owedIn \in [Caps -> Nat] /\ acct[i] \in Int
  BY DEF Types, Channels, Queues, FromCaps, Amounts, Accounts
<1>3. owedIn[i] \in Nat /\ owedIn[i] + 1 \in Nat \ {0}
  BY Owing
<1>4. \/ owedIn' = [owedIn EXCEPT ![i] = @ + 1] /\ UNCHANGED <<fromCap, acct>>
      \/ Grant(i, owedIn[i] + 1)
  BY DEF Read
<1>5. Held(i) \in Nat /\ Held(i) > 0 /\ Held(i)' = Held(i) - 1
  <2>1. Len(queue[i]) \in Nat \ {0} /\ Len(queue'[i]) = Len(queue[i]) - 1 /\ part'[i] = part[i]
    <3>1. queue[i] \in Seq(1 .. Items) /\ queue'[i] = Tail(queue[i])
      BY <1>1, <1>2
    <3> QED
      BY <1>1, <3>1, HeadTailProperties, EmptySeq
  <2>2. \A l \in Nat \ {0}, b \in {0, 1} : l + b \in Nat /\ l + b > 0 /\ (l - 1) + b = (l + b) - 1
    OBVIOUS
  <2>3. (IF part[i] > 0 THEN 1 ELSE 0) \in {0, 1}
    OBVIOUS
  <2> QED
    BY <2>1, <2>2, <2>3 DEF Held
<1>6. ASSUME NEW j \in Caps, j # i PROVE Hops(j)
  <2>1. /\ owedIn'[j] = owedIn[j] /\ fromCap'[j] = fromCap[j] /\ acct'[j] = acct[j]
        /\ queue'[j] = queue[j]
    BY <1>1, <1>2, <1>4, <1>6 DEF Grant
  <2>2. Apart(j)
    BY <1>1, <2>1 DEF Apart
  <2> QED
    BY <1>1, <2>2, HopStays
<1>7. /\ (~ Running(i))' = ~ Running(i) /\ gate'[i] = gate[i] /\ toCap'[i] = toCap[i]
      /\ (i \in violated)' = (i \in violated)
  BY <1>1 DEF Running
<1>8. CASE owedIn' = [owedIn EXCEPT ![i] = @ + 1] /\ UNCHANGED <<fromCap, acct>>
  <2>1. owedIn'[i] = owedIn[i] + 1 /\ acct'[i] = acct[i] /\ fromCap'[i] = fromCap[i]
    BY <1>2, <1>8
  <2>2. Hop(i)!Consume
    BY <1>5, <1>7, <2>1 DEF Hop!Consume
  <2> QED
    BY <1>6, <2>2 DEF Hops, Hop!Next
<1>9. CASE Grant(i, owedIn[i] + 1)
  <2> DEFINE x == Credit(owedIn[i] + 1)
  <2>1. x \in Messages /\ x.type = "credit" /\ x.n = owedIn[i] + 1
    BY <1>3, CreditFrames
  <2>2. owedIn'[i] = 0 /\ acct'[i] = acct[i] + (owedIn[i] + 1) /\ fromCap'[i] = Append(fromCap[i], x)
    BY <1>2, <1>9 DEF Grant
  <2> HIDE DEF x
  <2>3. Granted(fromCap[i]) \in Nat /\ Granted(fromCap'[i]) = Granted(fromCap[i]) + (owedIn[i] + 1)
    <3>1. fromCap[i] \in Seq(Messages)
      BY <1>2
    <3> QED
      BY <2>1, <2>2, <3>1, Counted
  <2>4. /\ Granted(fromCap'[i]) = (Granted(fromCap[i]) + owedIn[i]) + 1
        /\ acct'[i] = (acct[i] + owedIn[i]) + 1
    BY <1>2, <1>3, <2>2, <2>3
  <2>5. Hop(i)!ConsumeAndGrant
    BY <1>5, <1>7, <2>2, <2>4 DEF Hop!ConsumeAndGrant
  <2> QED
    BY <1>6, <2>5 DEF Hops, Hop!Next
<1> QED
  BY <1>4, <1>8, <1>9

LEMMA FlushHops ==
    ASSUME Types, NEW i \in Caps, FlushBeforeWait(i)
    PROVE  \A j \in Caps : Hops(j)
<1>1. /\ owedIn[i] > 0 /\ Grant(i, owedIn[i]) /\ UNCHANGED <<gate, toCap, part, queue, violated, cap>>
  BY DEF FlushBeforeWait
<1>2. /\ fromCap \in [Caps -> Seq(Messages)] /\ acct \in [Caps -> Int] /\ owedIn \in [Caps -> Nat]
      /\ acct[i] \in Int /\ owedIn[i] \in Nat \ {0}
  <2>1. /\ fromCap \in [Caps -> Seq(Messages)] /\ acct \in [Caps -> Int] /\ owedIn \in [Caps -> Nat]
    BY DEF Types, Channels, FromCaps, Amounts, Accounts
  <2> QED
    BY <1>1, <2>1
<1>3. ASSUME NEW j \in Caps, j # i PROVE Hops(j)
  <2>1. owedIn'[j] = owedIn[j] /\ fromCap'[j] = fromCap[j] /\ acct'[j] = acct[j]
    BY <1>1, <1>2, <1>3 DEF Grant
  <2>2. Apart(j)
    BY <1>1, <2>1 DEF Apart
  <2> QED
    BY <1>1, <2>2, HopStays
<1> DEFINE x == Credit(owedIn[i])
<1>4. x \in Messages /\ x.type = "credit" /\ x.n = owedIn[i]
  BY <1>2, CreditFrames
<1>5. owedIn'[i] = 0 /\ acct'[i] = acct[i] + owedIn[i] /\ fromCap'[i] = Append(fromCap[i], x)
  BY <1>1, <1>2 DEF Grant
<1> HIDE DEF x
<1>6. Granted(fromCap'[i]) = Granted(fromCap[i]) + owedIn[i]
  <2>1. fromCap[i] \in Seq(Messages)
    BY <1>2
  <2> QED
    BY <1>4, <1>5, <2>1, Counted
<1>7. Hop(i)!Flush
  <2>1. /\ (~ Running(i))' = ~ Running(i) /\ gate'[i] = gate[i] /\ toCap'[i] = toCap[i]
        /\ (i \in violated)' = (i \in violated) /\ Held(i)' = Held(i)
    BY <1>1 DEF Running, Held
  <2> QED
    BY <1>1, <1>5, <1>6, <2>1 DEF Hop!Flush
<1> QED
  BY <1>3, <1>7 DEF Hops, Hop!Next

LEMMA EndHops ==
    ASSUME Types, NEW i \in Caps, NEW how, NEW x \in {End, Err}, how # "running", Ends(i, how, x)
    PROVE  \A j \in Caps : Hops(j)
<1>1. /\ Running(i) /\ cap' = [cap EXCEPT ![i] = how]
      /\ fromCap' = [fromCap EXCEPT ![i] = Append(@, x)]
      /\ UNCHANGED <<gate, toCap, acct, part, queue, owedIn, violated>>
  BY DEF Ends
<1>2. \A j \in Caps : Granted(fromCap'[j]) = Granted(fromCap[j])
  <2>1. x \in Messages /\ x.type # "credit"
    BY Kinds DEF Messages
  <2> QED
    BY <1>1, <2>1, NoneAdded
<1>3. cap'[i] = how /\ \A j \in Caps : j # i => cap'[j] = cap[j]
  BY <1>1 DEF Types, Roles
<1>4. ASSUME NEW j \in Caps, j # i PROVE Hops(j)
  <2>1. Apart(j)
    BY <1>1, <1>2, <1>3, <1>4 DEF Apart
  <2> QED
    BY <1>1, <2>1, HopStays
<1>5. Hop(i)!End
  <2>1. (~ Running(i))' = TRUE /\ Running(i)
    BY <1>1, <1>3 DEF Running
  <2>2. /\ gate'[i] = gate[i] /\ toCap'[i] = toCap[i] /\ Held(i)' = Held(i) /\ owedIn'[i] = owedIn[i]
        /\ Granted(fromCap'[i]) = Granted(fromCap[i]) /\ acct'[i] = acct[i]
        /\ (i \in violated)' = (i \in violated)
    BY <1>1, <1>2 DEF Held
  <2> QED
    BY <2>1, <2>2 DEF Hop!End
<1> QED
  BY <1>4, <1>5 DEF Hops, Hop!Next

LEMMA RouteHops ==
    ASSUME Types, NEW i \in Caps, Heads(fromCap[i], "credit"), RouteCredit(i),
           fromCap' = [fromCap EXCEPT ![i] = Tail(@)],
           UNCHANGED <<toCap, acct, part, queue, owedIn, violated, cap>>
    PROVE  \A j \in Caps : Hops(j)
<1> DEFINE n == Head(fromCap[i]).n
<1>1. n \in Nat \ {0}
  BY CreditAtHead
<1>2. /\ gate'[i].open = gate[i].open
      /\ gate'[i].avail = IF gate[i].open THEN gate[i].avail + n ELSE gate[i].avail
      /\ \A j \in Caps : j # i => gate'[j] = gate[j]
  BY <1>1, Routes DEF Types, Amounts
<1>3. /\ fromCap[i] \in Seq(Messages) /\ fromCap[i] # <<>> /\ Head(fromCap[i]).type = "credit"
      /\ fromCap'[i] = Tail(fromCap[i]) /\ \A j \in Caps : j # i => fromCap'[j] = fromCap[j]
  BY DEF Heads, Types, Channels, FromCaps
<1>4. Granted(fromCap[i]) = n + Granted(fromCap'[i]) /\ Granted(fromCap'[i]) \in Nat
  BY <1>3, Counted
<1> HIDE DEF n
<1>5. n \in 1 .. Granted(fromCap[i]) /\ Granted(fromCap'[i]) = Granted(fromCap[i]) - n
  BY <1>1, <1>4
<1>6. ASSUME NEW j \in Caps, j # i PROVE Hops(j)
  <2>1. Apart(j)
    BY <1>3, <1>6 DEF Apart
  <2> QED
    BY <1>2, <1>6, <2>1, HopStays
<1>7. Hop(i)!Credited
  <2>1. /\ (~ Running(i))' = ~ Running(i) /\ toCap'[i] = toCap[i] /\ Held(i)' = Held(i)
        /\ owedIn'[i] = owedIn[i] /\ acct'[i] = acct[i] /\ (i \in violated)' = (i \in violated)
    BY DEF Running, Held
  <2> QED
    BY <1>2, <1>5, <2>1 DEF Hop!Credited
<1> QED
  BY <1>6, <1>7 DEF Hops, Hop!Next

LEMMA CloseHops ==
    ASSUME Types, CloseGates
    PROVE  \A j \in Caps : Hops(j)
<1> SUFFICES ASSUME NEW j \in Caps PROVE Hops(j)
  OBVIOUS
<1>1. /\ gate' = [i \in Caps |-> [gate[i] EXCEPT !.open = FALSE]]
      /\ UNCHANGED <<toCap, fromCap, acct, part, queue, owedIn, violated, cap>>
  BY DEF CloseGates, inside
<1>2. gate[j] \in [open : BOOLEAN, avail : Nat] /\ gate'[j] = [gate[j] EXCEPT !.open = FALSE]
  BY <1>1 DEF Types, Amounts, Gates
<1>3. gate'[j].open = FALSE /\ gate'[j].avail = gate[j].avail /\ gate[j].open \in BOOLEAN
  BY <1>2
<1>4. Apart(j)
  BY <1>1 DEF Apart
<1>5. CASE gate[j].open
  <2>1. Hop(j)!Close
    BY <1>1, <1>3, <1>4, <1>5, ApartIs DEF Hop!Close
  <2> QED
    BY <2>1 DEF Hops, Hop!Next
<1>6. CASE ~ gate[j].open
  <2>1. gate'[j].open = gate[j].open /\ gate'[j].avail = gate[j].avail
    BY <1>3, <1>6
  <2>2. UNCHANGED Hop(j)!vars
    BY <1>1, <1>4, <2>1, ApartIs DEF Hop!vars
  <2> QED
    BY <2>2 DEF Hops
<1> QED
  BY <1>5, <1>6

LEMMA NextHops ==
    ASSUME Types, Orderly, \A i \in Caps : Covered(i), [Next]_vars
    PROVE  \A j \in Caps : Hops(j)
<1> USE Indices DEF feeding, inside, engine
<1>1. CASE FeedItem
  <2>1. \A j \in Caps : Apart(j)
    BY <1>1 DEF FeedItem, Apart
  <2>2. /\ gate[1].open /\ gate[1].avail > 0 /\ gate' = [gate EXCEPT ![1].avail = @ - 1] /\ 1 \in Caps
    BY <1>1 DEF FeedItem
  <2>3. CASE live[1]
    <3>1. Chunk(fed + 1, 1) \in Chunks
      BY Kinds DEF Types, Amounts, Intake
    <3>2. toCap' = [toCap EXCEPT ![1] = Append(@, Chunk(fed + 1, 1))]
      BY <1>1, <2>3 DEF FeedItem
    <3>3. \E x \in Chunks : toCap' = [toCap EXCEPT ![1] = Append(@, x)]
      BY <3>1, <3>2
    <3> QED
      BY <2>1, <2>2, <2>3, <3>3, OneSends
  <2>4. CASE ~ live[1]
    <3>1. UNCHANGED toCap
      BY <1>1, <2>4 DEF FeedItem
    <3> QED
      BY <2>1, <2>2, <2>4, <3>1, OneSends
  <2> QED
    BY <2>3, <2>4
<1>2. CASE FeedEnds
  <2>1. \A j \in Caps : Apart(j)
    BY <1>2 DEF FeedEnds, Apart
  <2>2. UNCHANGED toCap \/ \E k \in Caps : toCap' = [toCap EXCEPT ![k] = Append(@, End)]
    BY <1>2 DEF FeedEnds
  <2>3. UNCHANGED gate
    BY <1>2 DEF FeedEnds
  <2> QED
    BY <2>1, <2>2, <2>3, AllStay
<1>3. CASE FeedReleased \/ CollectIdle \/ Join \/ UNCHANGED vars
  <2>1. UNCHANGED <<gate, toCap, fromCap, cap, queue, part, owedIn, acct, violated>>
    BY <1>3 DEF FeedReleased, CollectIdle, Join, vars
  <2>2. \A j \in Caps : Apart(j)
    BY <2>1 DEF Apart
  <2> QED
    BY <2>1, <2>2, AllStay
<1>4. ASSUME NEW i \in Caps, Release(i) \/ GrantArrives(i) PROVE \A j \in Caps : Hops(j)
  <2>1. UNCHANGED <<gate, toCap, fromCap, cap, queue, part, owedIn, acct, violated>>
    BY <1>4 DEF Release, GrantArrives
  <2>2. \A j \in Caps : Apart(j)
    BY <2>1 DEF Apart
  <2> QED
    BY <2>1, <2>2, AllStay
<1>5. ASSUME NEW i \in Caps, Arrive(i) PROVE \A j \in Caps : Hops(j)
  BY <1>5, ArriveHops
<1>6. ASSUME NEW i \in Caps, Read(i) \/ FlushBeforeWait(i) PROVE \A j \in Caps : Hops(j)
  BY <1>6, ReadHops, FlushHops
<1>7. ASSUME NEW i \in Caps, Emit(i) PROVE \A j \in Caps : Hops(j)
  <2>1. /\ UNCHANGED <<gate, toCap, cap, queue, part, owedIn, acct, violated>>
        /\ out[i] # <<>> /\ fromCap' = [fromCap EXCEPT ![i] = Append(@, Head(out[i]))]
    BY <1>7 DEF Emit
  <2>2. Head(out[i]) \in Messages /\ Head(out[i]).type # "credit"
    <3>1. Head(out[i]) \in ChunksOf(Frames[i])
      BY <2>1, HeadOfOut
    <3>2. Head(out[i]) \in FramesOf(Frames[i]) /\ Head(out[i]).type = "chunk"
      BY <3>1, FrameKinds DEF ChunksOf
    <3> QED
      BY <3>2, FrameKinds
  <2>3. \A j \in Caps : Granted(fromCap'[j]) = Granted(fromCap[j])
    BY <2>1, <2>2, NoneAdded
  <2>4. \A j \in Caps : Apart(j)
    BY <2>1, <2>3 DEF Apart
  <2> QED
    BY <2>1, <2>4, AllStay
<1>8. ASSUME NEW i \in Caps, Finish(i) \/ StopEarly(i) \/ Fail(i) PROVE \A j \in Caps : Hops(j)
  <2>1. Ends(i, "ended", End) \/ Ends(i, "failed", Err)
    BY <1>8 DEF Finish, StopEarly, Fail
  <2> QED
    BY <2>1, EndHops
<1>9. ASSUME NEW i \in Forwarders, ForwardChunk(i) \/ ForwardBlocked(i) PROVE \A j \in Caps : Hops(j)
  <2>1. i \in Caps /\ i + 1 \in Caps /\ UNCHANGED <<cap, queue, part, owedIn, acct, violated>>
    BY <1>9 DEF ForwardChunk, ForwardBlocked
  <2>2. fromCap[i] # <<>> /\ Head(fromCap[i]).type = "chunk"
    BY <1>9 DEF ForwardChunk, ForwardBlocked, Heads, Types, Holding
  <2>3. CASE SendOn(i)
    <3>1. /\ gate[i + 1].open /\ gate[i + 1].avail > 0
          /\ gate' = [gate EXCEPT ![i + 1].avail = @ - 1]
          /\ fromCap' = [fromCap EXCEPT ![i] = Tail(@)]
          /\ \/ live[i + 1] /\ toCap' = [toCap EXCEPT ![i + 1] = Append(@, Head(fromCap[i]))]
             \/ ~ live[i + 1] /\ UNCHANGED toCap
      BY <2>3 DEF SendOn, Take
    <3>2. Head(fromCap[i]) \in Chunks
      <4>1. Head(fromCap[i]) \in Messages
        BY <2>1, <2>2, HeadOfOutput, FrameKinds
      <4> QED
        BY <2>2, <4>1, Kinds
    <3>3. \A j \in Caps : Granted(fromCap'[j]) = Granted(fromCap[j])
      BY <2>1, <2>2, <3>1, NoneTaken
    <3>4. \A j \in Caps : Apart(j)
      BY <2>1, <3>3 DEF Apart
    <3> DEFINE n == i + 1
    <3>5. \/ live[n] /\ \E x \in Chunks : toCap' = [toCap EXCEPT ![n] = Append(@, x)]
          \/ ~ live[n] /\ UNCHANGED toCap
      BY <3>1, <3>2
    <3>6. n \in Caps /\ gate[n].open /\ gate[n].avail > 0 /\ gate' = [gate EXCEPT ![n].avail = @ - 1]
      BY <2>1, <3>1
    <3> HIDE DEF n
    <3> QED
      BY <3>4, <3>5, <3>6, OneSends
  <2>4. CASE ~ SendOn(i)
    <3>1. UNCHANGED <<gate, toCap, fromCap>>
      BY <1>9, <2>4 DEF ForwardChunk, ForwardBlocked
    <3>2. \A j \in Caps : Apart(j)
      BY <2>1, <3>1 DEF Apart
    <3> QED
      BY <3>1, <3>2, AllStay
  <2> QED
    BY <2>3, <2>4
<1>10. ASSUME NEW i \in Forwarders, ForwardReleased(i) \/ ForwardErr(i) \/ ForwardEnd(i)
       PROVE  \A j \in Caps : Hops(j)
  <2>1. /\ i \in Caps /\ UNCHANGED <<gate, cap, queue, part, owedIn, acct, violated>>
        /\ fromCap[i] # <<>> /\ Head(fromCap[i]).type # "credit"
        /\ fromCap' = [fromCap EXCEPT ![i] = Tail(@)]
        /\ UNCHANGED toCap \/ toCap' = [toCap EXCEPT ![i + 1] = Append(@, End)]
    BY <1>10 DEF ForwardReleased, ForwardErr, ForwardEnd, Heads, Take
  <2>2. \A j \in Caps : Granted(fromCap'[j]) = Granted(fromCap[j])
    BY <2>1, NoneTaken
  <2>3. \A j \in Caps : Apart(j)
    BY <2>1, <2>2 DEF Apart
  <2>4. UNCHANGED toCap \/ \E k \in Caps : toCap' = [toCap EXCEPT ![k] = Append(@, End)]
    BY <2>1
  <2> QED
    BY <2>1, <2>3, <2>4, AllStay
<1>11. ASSUME NEW i \in Forwarders, ForwardCredit(i) PROVE \A j \in Caps : Hops(j)
  <2>1. /\ i \in Caps /\ Heads(fromCap[i], "credit") /\ RouteCredit(i)
        /\ fromCap' = [fromCap EXCEPT ![i] = Tail(@)]
        /\ UNCHANGED <<toCap, acct, part, queue, owedIn, violated, cap>>
    BY <1>11 DEF ForwardCredit, Take
  <2> QED
    BY <2>1, RouteHops
<1>12. ASSUME NEW i \in Forwarders, ForwardIdle(i) PROVE \A j \in Caps : Hops(j)
  <2>1. UNCHANGED <<gate, toCap, fromCap, cap, queue, part, owedIn, acct, violated>>
    BY <1>12 DEF ForwardIdle
  <2>2. \A j \in Caps : Apart(j)
    BY <2>1 DEF Apart
  <2> QED
    BY <2>1, <2>2, AllStay
<1>13. CASE Collect \/ CollectTerminal
  <2>1. /\ N \in Caps /\ UNCHANGED <<gate, toCap, cap, queue, part, owedIn, acct, violated>>
        /\ fromCap[N] # <<>> /\ Head(fromCap[N]).type # "credit"
        /\ fromCap' = [fromCap EXCEPT ![N] = Tail(@)]
    BY <1>13 DEF Collect, CollectTerminal, Heads, Take
  <2>2. \A j \in Caps : Granted(fromCap'[j]) = Granted(fromCap[j])
    BY <2>1, NoneTaken
  <2>3. \A j \in Caps : Apart(j)
    BY <2>1, <2>2 DEF Apart
  <2> QED
    BY <2>1, <2>3, AllStay
<1>14. CASE CollectCredit
  <2>1. /\ N \in Caps /\ Heads(fromCap[N], "credit") /\ RouteCredit(N)
        /\ fromCap' = [fromCap EXCEPT ![N] = Tail(@)]
        /\ UNCHANGED <<toCap, acct, part, queue, owedIn, violated, cap>>
    BY <1>14 DEF CollectCredit, Take
  <2> QED
    BY <2>1, RouteHops
<1>15. CASE CloseGates
  BY <1>15, CloseHops
<1> QED
  BY <1>1, <1>2, <1>3, <1>4, <1>5, <1>6, <1>7, <1>8, <1>9, <1>10, <1>11, <1>12, <1>13, <1>14, <1>15
     DEF Next, FeedStep, HandlerStep, ForwardStep, RunStep

\* A chunk on its way is covered by the account of the cap it goes to.
LEMMA AlwaysCovered ==
    ASSUME Types, NEW i \in Caps, HopInv(i)
    PROVE  Covered(i)
<1> SUFFICES ASSUME Running(i), toCap[i] # <<>>, Head(toCap[i]) # End PROVE acct[i] > 0
  BY DEF Covered
<1>1. toCap[i] \in Seq(Messages) /\ Head(toCap[i]).type = "chunk"
  BY ChunkAtHead DEF Types, Channels, ToCaps
<1>2. Count(Tail(toCap[i])) \in Nat /\ Count(toCap[i]) = 1 + Count(Tail(toCap[i]))
  BY <1>1, Counted
<1>3. gate[i].avail \in Nat /\ Granted(fromCap[i]) \in Nat /\ acct[i] \in Int
  BY DEF HopInv, Hop!TypeOK
<1>4. acct[i] >= gate[i].avail + Count(toCap[i]) + Granted(fromCap[i])
  BY DEF HopInv, Hop!NoViolation
<1> QED
  BY <1>2, <1>3, <1>4

(***************************************************************************)
(* The whole invariant.                                                    *)
(***************************************************************************)
ChainInv == Types /\ Sealing /\ Orderly /\ \A i \in Caps : HopInv(i)

LEMMA InitChain == Init => ChainInv
<1> SUFFICES ASSUME Init PROVE ChainInv
  OBVIOUS
<1> QED
  BY InitTypes, SealedAtFirst, OrderAtFirst, HopAtFirst DEF ChainInv

LEMMA NextTypes == ASSUME Types, [Next]_vars PROVE Types'
<1>1. Roles' /\ Amounts' /\ Holding'
  BY NextRoles, NextAmounts, NextHolding
<1>2. Channels'
  BY NextToCaps, NextFromCaps, NextOuts, NextQueues, NextCollection DEF Channels
<1> QED
  BY <1>1, <1>2 DEF Types

LEMMA NextChain ==
    ASSUME ChainInv, [Next]_vars
    PROVE  ChainInv' /\ \A i \in Caps : Hops(i)
<1> USE DEF ChainInv
<1>1. \A i \in Caps : Covered(i)
  BY AlwaysCovered
<1>2. Types'
  BY NextTypes
<1>3. Sealing'
  BY StepsSeal
<1>4. Orderly'
  BY <1>1, NextOrder
<1>5. \A i \in Caps : Hops(i)
  BY <1>1, NextHops
<1>6. ASSUME NEW i \in Caps PROVE HopInv(i)'
  <2>1. HopInv(i) /\ [Hop(i)!Next]_(Hop(i)!vars)
    BY <1>5 DEF Hops
  <2> QED
    BY <2>1, HopNext
<1> QED
  BY <1>2, <1>3, <1>4, <1>5, <1>6

LEMMA ChainAlways == Spec => []ChainInv
<1>1. ChainInv /\ [Next]_vars => ChainInv'
  BY NextChain
<1> QED
  BY <1>1, InitChain, PTL DEF Spec

\* Every input stream of a chain, the feed's into the first cap and a
\* forwarder's into each other one, is a credit hop: demux_multi_stream,
\* InputGrantEmitter, CreditRouter and CreditGate never mint or lose a credit
\* and never charge a sender with CREDIT_VIOLATION.
THEOREM StreamsAreHops == Spec => HopsAreCreditHops
<1>1. Init => \A i \in Caps : Hop(i)!Init
  BY HopAtFirst
<1>2. ChainInv /\ [Next]_vars => \A i \in Caps : [Hop(i)!Next]_(Hop(i)!vars)
  BY NextChain DEF Hops
<1>3. ChainInv /\ [Next]_vars => [\A i \in Caps : [Hop(i)!Next]_(Hop(i)!vars)]_vars
  BY <1>2
<1> QED
  BY <1>1, <1>3, ChainAlways, PTL DEF Spec, HopsAreCreditHops

\* No credit of an input stream is minted, and none is lost while its gate is
\* open and the cap runs (credit.rs, "grants only unblock").
THEOREM Conservation == Spec => [](\A i \in Caps : Hop(i)!CreditsConserved)
<1>1. ChainInv => \A i \in Caps : Hop(i)!CreditsConserved
  BY DEF ChainInv, HopInv
<1> QED
  BY <1>1, ChainAlways, PTL

\* The feed and the forwarders, which obey their gates, are never charged with
\* CREDIT_VIOLATION by demux_multi_stream.
THEOREM NeverViolated == Spec => [](\A i \in Caps : Hop(i)!NoViolation)
<1>1. ChainInv => \A i \in Caps : Hop(i)!NoViolation
  BY DEF ChainInv, HopInv
<1> QED
  BY <1>1, ChainAlways, PTL

\* A cap has at most a window of chunks on their way to it or unread, however
\* slow its handler is.
THEOREM Bounded == Spec => [](\A i \in Caps : Hop(i)!BufferBounded)
<1>1. ASSUME ChainInv, NEW i \in Caps PROVE Hop(i)!BufferBounded
  <2>1. Hop(i)!TypeOK /\ Hop(i)!CreditsConserved /\ Window \in Nat
    BY <1>1, Indices DEF ChainInv, HopInv
  <2> QED
    BY <2>1 DEF Hop!TypeOK, Hop!CreditsConserved, Hop!Total, Hop!BufferBounded
<1>2. ChainInv => \A i \in Caps : Hop(i)!BufferBounded
  BY <1>1
<1> QED
  BY <1>2, ChainAlways, PTL

\* A stalled feed or forwarder whose chunks the cap has all consumed is owed
\* its whole window, so what InputStream::recv grants before it waits releases
\* it.
THEOREM FlushReleases == Spec => [](\A i \in Caps : Hop(i)!StalledIsOwed)
<1>1. ASSUME ChainInv, NEW i \in Caps PROVE Hop(i)!StalledIsOwed
  <2>1. Hop(i)!TypeOK /\ Hop(i)!CreditsConserved /\ Window \in Nat
    BY <1>1, Indices DEF ChainInv, HopInv
  <2> QED
    BY <2>1 DEF Hop!TypeOK, Hop!CreditsConserved, Hop!Total, Hop!StalledIsOwed
<1>2. ChainInv => \A i \in Caps : Hop(i)!StalledIsOwed
  BY <1>1
<1> QED
  BY <1>2, ChainAlways, PTL

(***************************************************************************)
(* The output.                                                             *)
(***************************************************************************)

Pairs == Nat \X Nat

LEMMA OutputIs ==
    /\ Items * Frames[N] \in Nat /\ Len(AllOutput) = Items * Frames[N]
    /\ DOMAIN AllOutput = 1 .. Items * Frames[N]
    /\ \A x \in 1 .. Items, y \in 1 .. Frames[N] :
          LET k == (x - 1) * Frames[N] + y
          IN  k \in 1 .. Items * Frames[N] /\ AllOutput[k] = <<x, y>>
<1> DEFINE F == Frames[N]
           M == Items * F
<1>1. F \in Nat \ {0} /\ M \in Nat
  BY Indices
<1>2. Len(AllOutput) = M /\ DOMAIN AllOutput = 1 .. M
  BY <1>1 DEF AllOutput
<1>3. ASSUME NEW x \in 1 .. Items, NEW y \in 1 .. F
      PROVE  (x - 1) * F + y \in 1 .. M /\ AllOutput[(x - 1) * F + y] = <<x, y>>
  <2> DEFINE a == x - 1
             p == a * F
             q == y - 1
             k == p + y
  <2>1. a \in Nat /\ q \in 0 .. F - 1 /\ p \in Nat /\ x = a + 1 /\ y = q + 1 /\ y \in Nat \ {0}
    <3>1. a \in Nat /\ q \in 0 .. F - 1 /\ x = a + 1 /\ y = q + 1 /\ y \in Nat \ {0}
      BY <1>1
    <3> QED
      BY <1>1, <3>1
  <2>2. p + F <= M
    <3>1. Items \in Nat /\ x <= Items /\ x \in Nat /\ x * F = p + F
      <4>1. \A v \in Nat : (v + 1) * F = v * F + F
        BY <1>1
      <4> QED
        BY <2>1, <4>1, Indices
    <3>2. \A u \in Nat, v \in Nat : u <= v => u * F <= v * F
      BY <1>1
    <3> QED
      BY <3>1, <3>2
  <2> HIDE DEF p, M
  <2>3. k \in 1 .. M /\ k - 1 = p + q
    BY <1>1, <2>1, <2>2
  <2>4. (p + q) \div F = a /\ ((p + q) % F) = q
    BY <1>1, <2>1, Digits DEF p
  <2>5. AllOutput[k] = <<((k - 1) \div F) + 1, ((k - 1) % F) + 1>>
    BY <2>3 DEF AllOutput, M
  <2>6. AllOutput[k] = <<x, y>>
    <3> HIDE DEF k, F, a, q
    <3> QED
      BY <2>1, <2>3, <2>4, <2>5
  <2> QED
    BY <2>3, <2>6 DEF p
<1> QED
  BY <1>1, <1>2, <1>3

\* What was collected is what comes first of the output.
LEMMA CollectedIs ==
    ASSUME NEW s, NEW r, Gathered(s, r), NEW k \in 1 .. Len(collected)
    PROVE  k \in DOMAIN AllOutput /\ AllOutput[k] = collected[k]
<1> DEFINE x == collected[k][1]
           y == collected[k][2]
<1>1. /\ x \in 1 .. Items /\ y \in 1 .. Frames[N] /\ (x - 1) * Frames[N] + y = k
      /\ collected[k] = <<x, y>>
  BY DEF Gathered
<1> HIDE DEF x, y
<1> QED
  BY <1>1, OutputIs

LEMMA CollectedFits ==
    ASSUME NEW s, NEW r, Gathered(s, r), collected \in Seq(Pairs)
    PROVE  Len(collected) <= Len(AllOutput) /\ AllOutput \in Seq(Pairs)
<1>1. Len(collected) \in Nat /\ Len(AllOutput) \in Nat /\ DOMAIN AllOutput = 1 .. Len(AllOutput)
  BY OutputIs
<1>2. Len(collected) <= Len(AllOutput)
  <2> DEFINE l == Len(collected)
             m == Len(AllOutput)
  <2>1. l \in 1 .. l => l \in 1 .. m
    BY <1>1, CollectedIs
  <2> HIDE DEF l, m
  <2>2. l \in Nat /\ m \in Nat
    BY <1>1 DEF l, m
  <2>3. l <= m
    BY <2>1, <2>2
  <2> QED
    BY <2>3 DEF l, m
<1>4. AllOutput \in Seq(Pairs)
  <2> DEFINE M == Items * Frames[N]
             f(k) == <<((k - 1) \div Frames[N]) + 1, ((k - 1) % Frames[N]) + 1>>
  <2>1. M \in Nat /\ Frames[N] \in Nat \ {0}
    BY OutputIs, Indices
  <2>2. ASSUME NEW k \in 1 .. M PROVE f(k) \in Pairs
    <3> DEFINE F == Frames[N]
               q == (k - 1) \div F
               m == (k - 1) % F
    <3>1. k - 1 \in Nat /\ F \in Nat \ {0}
      BY <2>1
    <3>2. q \in Nat /\ m \in Nat
      <4> HIDE DEF F
      <4>1. \A v \in Nat : v \div F \in Nat /\ (v % F) \in Nat
        BY <3>1
      <4> QED
        BY <3>1, <4>1
    <3> HIDE DEF q, m
    <3>3. <<q + 1, m + 1>> \in Pairs
      BY <3>2 DEF Pairs
    <3> QED
      BY <3>3 DEF q, m
  <2>3. AllOutput = [k \in 1 .. M |-> f(k)]
    BY DEF AllOutput
  <2> HIDE DEF M, f
  <2> QED
    BY <2>1, <2>2, <2>3
<1> QED
  BY <1>2, <1>4

\* What run_group_chain has collected is a prefix of what the caps make of the
\* feed: no chunk is lost, repeated or overtaken on any hop.
THEOREM OutputInOrder == Spec => []InOrder
<1>1. ASSUME ChainInv PROVE InOrder
  <2>1. PICK s \in Numbers, e \in Numbers, a \in Numbers, r \in Numbers : Order(s, e, a, r)
    BY <1>1 DEF ChainInv, Orderly
  <2>2. Gathered(s, r) /\ collected \in Seq(Pairs)
    BY <1>1, <2>1 DEF Order, ChainInv, Types, Channels, Collection, Pairs
  <2> DEFINE L == Len(collected)
             t == SubSeq(AllOutput, 1, L)
  <2>3. L <= Len(AllOutput) /\ AllOutput \in Seq(Pairs) /\ L \in Nat
    BY <2>2, CollectedFits
  <2>4. \A k \in 1 .. L : AllOutput[k] \in Pairs
    BY <2>3
  <2>5. t \in Seq(Pairs) /\ Len(t) = L /\ \A k \in 1 .. L : t[k] = AllOutput[k]
    <3>1. /\ t \in Seq(Pairs) /\ Len(t) = (IF 1 <= L THEN L - 1 + 1 ELSE 0)
          /\ \A k \in 1 .. L - 1 + 1 : t[k] = AllOutput[1 + k - 1]
      BY <2>3, <2>4, SubSeqProperties
    <3>2. Len(t) = L
      BY <2>3, <3>1
    <3>3. ASSUME NEW k \in 1 .. L PROVE t[k] = AllOutput[k]
      <4>1. k \in 1 .. L - 1 + 1 /\ 1 + k - 1 = k
        BY <2>3
      <4> QED
        BY <3>1, <4>1
    <3> QED
      BY <3>1, <3>2, <3>3
  <2>6. \A k \in 1 .. L : collected[k] = t[k]
    BY <2>2, <2>5, CollectedIs
  <2>7. collected = t
    <3> HIDE DEF t
    <3> QED
      BY <2>2, <2>5, <2>6, SeqEqual
  <2>8. SubSeq(collected, 1, L) = collected
    BY <2>2, SubSeqFull
  <2> QED
    BY <2>3, <2>7, <2>8 DEF InOrder, IsPrefix
<1> QED
  BY <1>1, ChainAlways, PTL

\* If the last cap has ended, and none stopped early, they all have, and read
\* all there was.
LEMMA AllEnded ==
    ASSUME ChainInv, NEW s, NEW r, \A i \in Caps : Closing(i, s, r), cap[N] = "ended",
           \A i \in Caps : ~ StoppedEarly(i)
    PROVE  \A i \in Caps : cap[i] = "ended" /\ r[i] = Supply(i, r)
<1>1. \A i \in Caps : cap[i] = "ended" => HasRead(i)
  BY DEF StoppedEarly
<1> DEFINE S == {n \in Nat : n < N => cap[N - n] = "ended"}
<1>2. 0 \in S
  BY Indices
<1>3. ASSUME NEW n \in Nat, n \in S PROVE n + 1 \in S
  <2> SUFFICES ASSUME n + 1 < N PROVE cap[N - (n + 1)] = "ended"
    OBVIOUS
  <2> DEFINE i == N - n
  <2>1. i \in Caps /\ i # 1 /\ n < N /\ i - 1 = N - (n + 1)
    BY Indices DEF Caps
  <2>2. cap[i] = "ended"
    BY <1>3, <2>1
  <2> HIDE DEF i
  <2>3. eof[i] /\ Closing(i, s, r)
    BY <1>1, <2>1, <2>2 DEF HasRead
  <2>4. cap[i - 1] = "ended"
    BY <2>1, <2>3 DEF Closing, InputOver
  <2> QED
    BY <2>1, <2>4
<1> HIDE DEF S
<1>4. \A n \in Nat : n \in S
  BY <1>2, <1>3, SetInduction
<1>5. ASSUME NEW i \in Caps PROVE cap[i] = "ended"
  <2> DEFINE n == N - i
  <2>1. n \in Nat /\ n < N /\ N - n = i
    BY Indices DEF Caps
  <2>2. n \in S
    BY <1>4, <2>1
  <2> HIDE DEF n
  <2> QED
    BY <2>1, <2>2 DEF S
<1> QED
  BY <1>1, <1>5 DEF Closing

\* When run_group_chain reports success and no cap stopped early by itself, it
\* has all the output: a failure upstream never passes for a shorter stream.
THEOREM SuccessMeansAll == Spec => []SuccessIsComplete
<1>1. ASSUME ChainInv PROVE SuccessIsComplete
  <2> SUFFICES ASSUME result = "ok", \A i \in Caps : ~ StoppedEarly(i) PROVE collected = AllOutput
    BY DEF SuccessIsComplete
  <2>1. PICK s \in Numbers, e \in Numbers, a \in Numbers, r \in Numbers : Order(s, e, a, r)
    BY <1>1 DEF ChainInv, Orderly
  <2>2. Gathered(s, r) /\ collected \in Seq(Pairs) /\ \A i \in Caps : Closing(i, s, r)
    BY <1>1, <2>1 DEF Order, ChainInv, Types, Channels, Collection, Pairs
  <2>3. cap[N] = "ended" /\ Len(collected) = r[N] * Frames[N]
    BY <2>2 DEF Gathered
  <2>4. \A i \in Caps : r[i] = Supply(i, r)
    BY <1>1, <2>2, <2>3, AllEnded
  <2> DEFINE S == {n \in Nat : n + 1 \in Caps => r[n + 1] = Items}
  <2>5. 0 \in S
    BY <2>4, Indices DEF Supply
  <2>6. ASSUME NEW n \in Nat, n \in S PROVE n + 1 \in S
    <3> DEFINE i == (n + 1) + 1
    <3> SUFFICES ASSUME i \in Caps PROVE r[i] = Items
      OBVIOUS
    <3>1. n + 1 \in Caps /\ i - 1 = n + 1 /\ i # 1
      BY Indices DEF Caps
    <3>2. r[n + 1] = Items
      BY <2>6, <3>1
    <3> HIDE DEF i
    <3> QED
      BY <2>4, <3>1, <3>2 DEF Supply
  <2> HIDE DEF S
  <2>7. \A n \in Nat : n \in S
    BY <2>5, <2>6, SetInduction
  <2>8. r[N] = Items
    <3>1. N - 1 \in Nat /\ (N - 1) + 1 = N /\ N \in Caps
      BY Indices
    <3>2. N - 1 \in S
      BY <2>7, <3>1
    <3> QED
      BY <3>1, <3>2 DEF S
  <2>9. Len(collected) = Len(AllOutput) /\ AllOutput \in Seq(Pairs)
    BY <2>2, <2>3, <2>8, OutputIs, CollectedFits
  <2>10. \A k \in 1 .. Len(collected) : collected[k] = AllOutput[k]
    BY <2>2, CollectedIs
  <2> QED
    BY <2>2, <2>9, <2>10, SeqEqual
<1> QED
  BY <1>1, ChainAlways, PTL

(***************************************************************************)
(* The credits of the output streams.                                      *)
(***************************************************************************)

Flow(i) == /\ OutputTotal(i) <= CapWindow[i]
           /\ Running(i) /\ Reader(i) => OutputTotal(i) = CapWindow[i]

LEMMA Parts ==
    ASSUME Types, NEW i \in Caps
    PROVE  /\ outAvail[i] \in Nat /\ Count(fromCap[i]) \in Nat /\ owedOut[i] \in Nat /\ grants[i] \in Nat
           /\ OutputTotal(i) \in Nat
<1>1. fromCap[i] \in Seq(Messages)
  BY DEF Types, Channels, FromCaps
<1>2. Count(fromCap[i]) \in Nat
  BY <1>1, Counted
<1>3. outAvail[i] \in Nat /\ owedOut[i] \in Nat /\ grants[i] \in Nat
  BY DEF Types, Amounts, Returns
<1> QED
  BY <1>2, <1>3 DEF OutputTotal

\* A step keeps the credits, or loses some where nobody reads or writes.
LEMMA FlowKept ==
    ASSUME Types, NEW i \in Caps, Flow(i), Running(i)' => Running(i), Reader(i)' => Reader(i),
           \/ OutputTotal(i)' = OutputTotal(i)
           \/ /\ OutputTotal(i)' \in Nat /\ OutputTotal(i)' <= OutputTotal(i)
              /\ ~ (Running(i)' /\ Reader(i)')
    PROVE  Flow(i)'
<1>1. OutputTotal(i) \in Nat /\ CapWindow[i] \in Nat
  BY Parts, Indices
<1> QED
  BY <1>1 DEF Flow

\* What others' steps leave alone.
Steady(i) == /\ outAvail'[i] = outAvail[i] /\ owedOut'[i] = owedOut[i] /\ grants'[i] = grants[i]
             /\ Count(fromCap'[i]) = Count(fromCap[i])

LEMMA FlowSteady ==
    ASSUME Types, NEW i \in Caps, Flow(i), Steady(i), Running(i)' => Running(i),
           Reader(i)' => Reader(i)
    PROVE  Flow(i)'
<1>1. OutputTotal(i)' = OutputTotal(i)
  BY DEF Steady, OutputTotal
<1> QED
  BY <1>1, FlowKept

\* A frame that is no chunk more, or less, in a channel.
LEMMA CountSame ==
    ASSUME Types, NEW i \in Caps,
           \/ UNCHANGED fromCap
           \/ \E x \in Messages : x.type # "chunk" /\ fromCap' = [fromCap EXCEPT ![i] = Append(@, x)]
           \/ /\ fromCap[i] # <<>> /\ Head(fromCap[i]).type # "chunk"
              /\ fromCap' = [fromCap EXCEPT ![i] = Tail(@)]
    PROVE  \A j \in Caps : Count(fromCap'[j]) = Count(fromCap[j])
<1>1. fromCap \in [Caps -> Seq(Messages)] /\ fromCap[i] \in Seq(Messages)
  BY DEF Types, Channels, FromCaps
<1>2. CASE UNCHANGED fromCap
  BY <1>2
<1>3. CASE \E x \in Messages : x.type # "chunk" /\ fromCap' = [fromCap EXCEPT ![i] = Append(@, x)]
  <2>1. PICK x \in Messages : x.type # "chunk" /\ fromCap' = [fromCap EXCEPT ![i] = Append(@, x)]
    BY <1>3
  <2>2. fromCap'[i] = Append(fromCap[i], x) /\ \A j \in Caps : j # i => fromCap'[j] = fromCap[j]
    BY <1>1, <2>1
  <2>3. Count(fromCap[i]) \in Nat /\ Count(Append(fromCap[i], x)) = Count(fromCap[i]) + 0
    BY <1>1, <2>1, Counted
  <2>4. Count(Append(fromCap[i], x)) = Count(fromCap[i])
    BY <2>3
  <2> QED
    BY <2>2, <2>4
<1>4. CASE /\ fromCap[i] # <<>> /\ Head(fromCap[i]).type # "chunk"
           /\ fromCap' = [fromCap EXCEPT ![i] = Tail(@)]
  <2>1. fromCap'[i] = Tail(fromCap[i]) /\ \A j \in Caps : j # i => fromCap'[j] = fromCap[j]
    BY <1>1, <1>4
  <2>2. Count(Tail(fromCap[i])) \in Nat /\ Count(fromCap[i]) = 0 + Count(Tail(fromCap[i]))
    BY <1>1, <1>4, Counted
  <2>3. Count(fromCap[i]) = Count(Tail(fromCap[i]))
    BY <2>2
  <2> QED
    BY <2>1, <2>3
<1> QED
  BY <1>2, <1>3, <1>4

LEMMA CountLess ==
    ASSUME Types, NEW i \in Caps, fromCap[i] # <<>>, Head(fromCap[i]).type = "chunk",
           fromCap' = [fromCap EXCEPT ![i] = Tail(@)]
    PROVE  /\ Count(fromCap[i]) > 0 /\ Count(fromCap'[i]) = Count(fromCap[i]) - 1
           /\ \A j \in Caps : j # i => fromCap'[j] = fromCap[j]
<1>1. /\ fromCap[i] \in Seq(Messages) /\ fromCap'[i] = Tail(fromCap[i])
      /\ \A j \in Caps : j # i => fromCap'[j] = fromCap[j]
  BY DEF Types, Channels, FromCaps
<1>2. Count(fromCap'[i]) \in Nat /\ Count(fromCap[i]) = 1 + Count(fromCap'[i])
  BY <1>1, Counted
<1> QED
  BY <1>1, <1>2

\* A reader that has taken a chunk counts it, or grants it with the others it
\* owes; a request that is over gets no grant, and has no use for one.
LEMMA CountReadFlow ==
    ASSUME Types, NEW i \in Caps, CountRead(i), UNCHANGED outAvail,
           Count(fromCap[i]) > 0, Count(fromCap'[i]) = Count(fromCap[i]) - 1
    PROVE  /\ \/ OutputTotal(i)' = OutputTotal(i)
              \/ OutputTotal(i)' \in Nat /\ OutputTotal(i)' <= OutputTotal(i) /\ ~ Running(i)
           /\ \A j \in Caps : j # i => owedOut'[j] = owedOut[j] /\ grants'[j] = grants[j]
<1>1. owedOut \in [Caps -> Nat] /\ grants \in [Caps -> Nat] /\ (Running(i) => live[i])
  BY DEF Types, Amounts, Returns, Roles
<1>2. /\ outAvail[i] \in Nat /\ Count(fromCap[i]) \in Nat /\ owedOut[i] \in Nat /\ grants[i] \in Nat
  BY Parts
<1>3. CASE owedOut' = [owedOut EXCEPT ![i] = @ + 1] /\ UNCHANGED grants
  <2>1. owedOut'[i] = owedOut[i] + 1 /\ grants'[i] = grants[i] /\ outAvail'[i] = outAvail[i]
    BY <1>1, <1>3
  <2>2. OutputTotal(i)' = OutputTotal(i)
    BY <1>2, <2>1 DEF OutputTotal
  <2> QED
    BY <1>1, <1>3, <2>2
<1>4. CASE GrantBack(i, owedOut[i] + 1) /\ owedOut' = [owedOut EXCEPT ![i] = 0]
  <2>1. owedOut'[i] = 0 /\ outAvail'[i] = outAvail[i]
    BY <1>1, <1>4
  <2>2. CASE live[i]
    <3>1. grants'[i] = grants[i] + (owedOut[i] + 1) /\ \A j \in Caps : j # i => grants'[j] = grants[j]
      BY <1>1, <1>4, <2>2 DEF GrantBack
    <3>2. OutputTotal(i)' = OutputTotal(i)
      BY <1>2, <2>1, <3>1 DEF OutputTotal
    <3> QED
      BY <1>1, <1>4, <3>1, <3>2
  <2>3. CASE ~ live[i]
    <3>1. grants' = grants /\ ~ Running(i)
      BY <1>1, <1>4, <2>3 DEF GrantBack
    <3>2. OutputTotal(i)' \in Nat /\ OutputTotal(i)' <= OutputTotal(i)
      BY <1>2, <2>1, <3>1 DEF OutputTotal
    <3> QED
      BY <1>1, <1>4, <3>1, <3>2
  <2> QED
    BY <2>2, <2>3
<1> QED
  BY <1>3, <1>4 DEF CountRead

LEMMA FlushBackFlow ==
    ASSUME Types, NEW i \in Caps, FlushBack(i), UNCHANGED <<outAvail, fromCap>>
    PROVE  /\ \/ OutputTotal(i)' = OutputTotal(i)
              \/ OutputTotal(i)' \in Nat /\ OutputTotal(i)' <= OutputTotal(i) /\ ~ Running(i)
           /\ \A j \in Caps : j # i => owedOut'[j] = owedOut[j] /\ grants'[j] = grants[j]
<1>1. owedOut \in [Caps -> Nat] /\ grants \in [Caps -> Nat] /\ (Running(i) => live[i])
  BY DEF Types, Amounts, Returns, Roles
<1>2. /\ outAvail[i] \in Nat /\ Count(fromCap[i]) \in Nat /\ owedOut[i] \in Nat /\ grants[i] \in Nat
  BY Parts
<1>3. owedOut'[i] = 0 /\ outAvail'[i] = outAvail[i] /\ fromCap'[i] = fromCap[i]
      /\ \A j \in Caps : j # i => owedOut'[j] = owedOut[j]
  BY <1>1 DEF FlushBack
<1>4. CASE live[i]
  <2>1. grants'[i] = grants[i] + owedOut[i] /\ \A j \in Caps : j # i => grants'[j] = grants[j]
    BY <1>1, <1>4 DEF FlushBack, GrantBack
  <2>2. OutputTotal(i)' = OutputTotal(i)
    BY <1>2, <1>3, <2>1 DEF OutputTotal
  <2> QED
    BY <1>3, <2>1, <2>2
<1>5. CASE ~ live[i]
  <2>1. grants' = grants /\ ~ Running(i)
    BY <1>1, <1>5 DEF FlushBack, GrantBack
  <2>2. OutputTotal(i)' \in Nat /\ OutputTotal(i)' <= OutputTotal(i)
    BY <1>2, <1>3, <2>1 DEF OutputTotal
  <2> QED
    BY <1>3, <2>1, <2>2
<1> QED
  BY <1>4, <1>5

\* A reader that takes a chunk and stops reading.
LEMMA LastTaken ==
    ASSUME Types, NEW i \in Caps, Flow(i), ~ Reader(i)', Running(i)' => Running(i),
           Count(fromCap[i]) > 0, Count(fromCap'[i]) = Count(fromCap[i]) - 1,
           UNCHANGED <<outAvail, owedOut, grants>>
    PROVE  Flow(i)'
<1>1. OutputTotal(i)' \in Nat /\ OutputTotal(i)' <= OutputTotal(i)
  <2>1. /\ outAvail[i] \in Nat /\ Count(fromCap[i]) \in Nat /\ owedOut[i] \in Nat /\ grants[i] \in Nat
    BY Parts
  <2> QED
    BY <2>1 DEF OutputTotal
<1>2. OutputTotal(i) \in Nat /\ CapWindow[i] \in Nat
  BY Parts, Indices
<1> QED
  BY <1>1, <1>2 DEF Flow

LEMMA NextFlow ==
    ASSUME Types, [Next]_vars, \A i \in Caps : Flow(i)
    PROVE  \A i \in Caps : Flow(i)'
<1> USE Indices DEF feeding, inside, engine
<1>1. \A j \in Caps : Running(j)' => Running(j)
  <2>1. \A j \in Caps : ~ Running(j) => cap'[j] = cap[j]
    BY StepsSettle DEF Settled
  <2> QED
    BY <2>1 DEF Running
<1>2. ASSUME UNCHANGED <<fwd, collector>>, \A j \in Caps : Steady(j) PROVE \A j \in Caps : Flow(j)'
  <2>1. \A j \in Caps : Reader(j)' => Reader(j)
    BY <1>2 DEF Reader
  <2> QED
    BY <1>1, <1>2, <2>1, FlowSteady
<1>3. CASE FeedStep \/ CloseGates \/ Join \/ UNCHANGED vars
  <2>1. UNCHANGED <<outAvail, owedOut, grants, fromCap, fwd, collector>>
    BY <1>3 DEF FeedStep, FeedItem, FeedEnds, FeedReleased, CloseGates, Join, vars
  <2> QED
    BY <1>2, <2>1 DEF Steady
<1>4. ASSUME NEW i \in Caps, Arrive(i) \/ Read(i) \/ FlushBeforeWait(i) PROVE \A j \in Caps : Flow(j)'
  <2>1. /\ UNCHANGED <<outAvail, owedOut, grants, fwd, collector>>
        /\ \/ UNCHANGED fromCap
           \/ \E n \in Nat \ {0} : fromCap' = [fromCap EXCEPT ![i] = Append(@, Credit(n))]
    <3>1. CASE Arrive(i)
      <4>1. UNCHANGED fromCap \/ fromCap' = [fromCap EXCEPT ![i] = Append(@, Credit(1))]
        BY <3>1 DEF Arrive, TakeChunk
      <4>2. UNCHANGED <<outAvail, owedOut, grants, fwd, collector>>
        BY <3>1 DEF Arrive
      <4>3. 1 \in Nat \ {0}
        OBVIOUS
      <4>4. \/ UNCHANGED fromCap
            \/ \E n \in Nat \ {0} : fromCap' = [fromCap EXCEPT ![i] = Append(@, Credit(n))]
        BY <4>1, <4>3, Zenon
      <4> QED
        BY <4>2, <4>4, Zenon
    <3>2. CASE Read(i)
      <4>1. owedIn[i] + 1 \in Nat \ {0}
        BY Owing
      <4> QED
        BY <3>2, <4>1 DEF Read, Grant
    <3>3. CASE FlushBeforeWait(i)
      <4>1. owedIn[i] \in Nat \ {0}
        BY <3>3, Owing DEF FlushBeforeWait
      <4> QED
        BY <3>3, <4>1 DEF FlushBeforeWait, Grant
    <3> QED
      BY <1>4, <3>1, <3>2, <3>3
  <2>2. \A n \in Nat \ {0} : Credit(n) \in Messages /\ Credit(n).type # "chunk"
    BY Kinds
  <2>3. \A j \in Caps : Count(fromCap'[j]) = Count(fromCap[j])
    BY <2>1, <2>2, CountSame
  <2> QED
    BY <1>2, <2>1, <2>3 DEF Steady
<1>5. ASSUME NEW i \in Caps, Emit(i) PROVE \A j \in Caps : Flow(j)'
  <2>1. /\ UNCHANGED <<owedOut, grants, fwd, collector>> /\ out[i] # <<>> /\ outAvail[i] > 0
        /\ outAvail' = [outAvail EXCEPT ![i] = @ - 1]
        /\ fromCap' = [fromCap EXCEPT ![i] = Append(@, Head(out[i]))]
    BY <1>5 DEF Emit
  <2>2. fromCap \in [Caps -> Seq(Messages)] /\ outAvail \in [Caps -> Nat]
    BY DEF Types, Channels, FromCaps, Amounts, Returns
  <2>3. Head(out[i]) \in Messages /\ Head(out[i]).type = "chunk"
    <3>1. Head(out[i]) \in ChunksOf(Frames[i])
      BY <2>1, HeadOfOut
    <3>2. Head(out[i]) \in FramesOf(Frames[i]) /\ Head(out[i]).type = "chunk"
      BY <3>1, FrameKinds DEF ChunksOf
    <3> QED
      BY <3>2, FrameKinds
  <2>4. /\ outAvail'[i] = outAvail[i] - 1 /\ fromCap'[i] = Append(fromCap[i], Head(out[i]))
        /\ \A j \in Caps : j # i => outAvail'[j] = outAvail[j] /\ fromCap'[j] = fromCap[j]
    BY <2>1, <2>2
  <2>5. Count(fromCap'[i]) = Count(fromCap[i]) + 1
    <3>1. fromCap[i] \in Seq(Messages)
      BY <2>2
    <3> QED
      BY <2>3, <2>4, <3>1, Counted, SMTT(30)
  <2>6. OutputTotal(i)' = OutputTotal(i)
    <3>1. /\ outAvail[i] \in Nat /\ Count(fromCap[i]) \in Nat /\ owedOut[i] \in Nat /\ grants[i] \in Nat
      BY Parts
    <3>2. outAvail'[i] = outAvail[i] - 1 /\ owedOut'[i] = owedOut[i] /\ grants'[i] = grants[i]
      BY <2>1, <2>4
    <3> QED
      BY <2>5, <3>1, <3>2 DEF OutputTotal
  <2>7. \A j \in Caps : Reader(j)' => Reader(j)
    BY <2>1 DEF Reader
  <2>8. \A j \in Caps : j # i => Steady(j)
    BY <2>1, <2>4 DEF Steady
  <2> QED
    BY <1>1, <2>6, <2>7, <2>8, FlowKept, FlowSteady
<1>6. ASSUME NEW i \in Caps, Finish(i) \/ StopEarly(i) \/ Fail(i) PROVE \A j \in Caps : Flow(j)'
  <2>1. /\ UNCHANGED <<outAvail, owedOut, grants, fwd, collector>>
        /\ \E x \in {End, Err} : fromCap' = [fromCap EXCEPT ![i] = Append(@, x)]
    BY <1>6 DEF Finish, StopEarly, Fail, Ends
  <2>2. \A x \in {End, Err} : x \in Messages /\ x.type # "chunk"
    BY Kinds DEF Messages
  <2>3. \A j \in Caps : Count(fromCap'[j]) = Count(fromCap[j])
    BY <2>1, <2>2, CountSame
  <2> QED
    BY <1>2, <2>1, <2>3 DEF Steady
<1>7. ASSUME NEW i \in Caps, Release(i) PROVE \A j \in Caps : Flow(j)'
  <2>1. UNCHANGED <<outAvail, owedOut, grants, fromCap, fwd, collector>>
    BY <1>7 DEF Release
  <2> QED
    BY <1>2, <2>1 DEF Steady
<1>8. ASSUME NEW i \in Caps, GrantArrives(i) PROVE \A j \in Caps : Flow(j)'
  <2>1. /\ UNCHANGED <<owedOut, fromCap, cap, fwd, collector>>
        /\ \E n \in 1 .. grants[i] :
             /\ grants' = [grants EXCEPT ![i] = @ - n]
             /\ outAvail' = IF Running(i) THEN [outAvail EXCEPT ![i] = @ + n] ELSE outAvail
    BY <1>8 DEF GrantArrives
  <2>2. PICK n \in 1 .. grants[i] :
             /\ grants' = [grants EXCEPT ![i] = @ - n]
             /\ outAvail' = IF Running(i) THEN [outAvail EXCEPT ![i] = @ + n] ELSE outAvail
    BY <2>1
  <2>3. outAvail \in [Caps -> Nat] /\ grants \in [Caps -> Nat] /\ n \in Nat /\ n <= grants[i]
    BY DEF Types, Amounts, Returns
  <2>4. grants'[i] = grants[i] - n /\ \A j \in Caps : j # i => grants'[j] = grants[j]
    BY <2>2, <2>3
  <2>5. /\ outAvail'[i] = (IF Running(i) THEN outAvail[i] + n ELSE outAvail[i])
        /\ \A j \in Caps : j # i => outAvail'[j] = outAvail[j]
    BY <2>2, <2>3
  <2>6. /\ outAvail[i] \in Nat /\ Count(fromCap[i]) \in Nat /\ owedOut[i] \in Nat /\ grants[i] \in Nat
    BY Parts
  <2>7. /\ Reader(i)' => Reader(i)
        /\ \A j \in Caps : j # i => Steady(j) /\ (Reader(j)' => Reader(j))
    BY <2>1, <2>4, <2>5 DEF Steady, Reader
  <2>8. CASE Running(i)
    <3>1. OutputTotal(i)' = OutputTotal(i)
      BY <2>1, <2>3, <2>4, <2>5, <2>6, <2>8 DEF OutputTotal
    <3> QED
      BY <1>1, <2>7, <3>1, FlowKept, FlowSteady
  <2>9. CASE ~ Running(i)
    <3>1. OutputTotal(i)' \in Nat /\ OutputTotal(i)' <= OutputTotal(i)
      BY <2>1, <2>3, <2>4, <2>5, <2>6, <2>9 DEF OutputTotal
    <3> QED
      BY <1>1, <2>7, <2>9, <3>1, FlowKept, FlowSteady
  <2> QED
    BY <2>8, <2>9
<1>9. ASSUME NEW i \in Forwarders, ForwardChunk(i) \/ ForwardBlocked(i) PROVE \A j \in Caps : Flow(j)'
  <2>1. i \in Caps /\ fwd[i] \in {"running", "blocked"} /\ UNCHANGED <<outAvail, cap, collector>>
    BY <1>9 DEF ForwardChunk, ForwardBlocked
  <2>2. fromCap[i] # <<>> /\ Head(fromCap[i]).type = "chunk"
    BY <1>9 DEF ForwardChunk, ForwardBlocked, Heads, Types, Holding
  <2>3. CASE SendOn(i)
    <3>1. fromCap' = [fromCap EXCEPT ![i] = Tail(@)]
      BY <2>3 DEF SendOn, Take
    <3>2. /\ Count(fromCap[i]) > 0 /\ Count(fromCap'[i]) = Count(fromCap[i]) - 1
          /\ \A j \in Caps : j # i => fromCap'[j] = fromCap[j]
      BY <2>1, <2>2, <3>1, CountLess
    <3>3. CASE live[i + 1]
      <4>1. fwd' = [fwd EXCEPT ![i] = "running"] /\ CountRead(i)
        BY <2>3, <3>3 DEF SendOn
      <4>2. \A j \in Caps : Reader(j)' => Reader(j)
        BY <2>1, <4>1, ReadersFall
      <4>3. /\ \/ OutputTotal(i)' = OutputTotal(i)
               \/ OutputTotal(i)' \in Nat /\ OutputTotal(i)' <= OutputTotal(i) /\ ~ Running(i)
            /\ \A j \in Caps : j # i => owedOut'[j] = owedOut[j] /\ grants'[j] = grants[j]
        BY <2>1, <3>2, <4>1, CountReadFlow
      <4>4. \A j \in Caps : j # i => Steady(j)
        BY <2>1, <3>2, <4>3 DEF Steady
      <4> QED
        BY <1>1, <2>1, <4>2, <4>3, <4>4, FlowKept, FlowSteady
    <3>4. CASE ~ live[i + 1]
      <4>1. fwd' = [fwd EXCEPT ![i] = "failed"] /\ UNCHANGED <<owedOut, grants>>
        BY <2>3, <3>4 DEF SendOn
      <4>2. (\A j \in Caps : Reader(j)' => Reader(j)) /\ ~ Reader(i)'
        BY <2>1, <4>1, ReadersFall
      <4>3. Flow(i)'
        BY <1>1, <2>1, <3>2, <4>1, <4>2, LastTaken
      <4>4. \A j \in Caps : j # i => Steady(j)
        BY <2>1, <3>2, <4>1 DEF Steady
      <4> QED
        BY <1>1, <4>2, <4>3, <4>4, FlowSteady
    <3> QED
      BY <3>3, <3>4
  <2>4. CASE ~ SendOn(i)
    <3>1. UNCHANGED fromCap /\ FlushBack(i) /\ fwd' = [fwd EXCEPT ![i] = "blocked"]
      BY <1>9, <2>4 DEF ForwardChunk, ForwardBlocked
    <3>2. \A j \in Caps : Reader(j)' => Reader(j)
      BY <2>1, <3>1, ReadersFall
    <3>3. /\ \/ OutputTotal(i)' = OutputTotal(i)
             \/ OutputTotal(i)' \in Nat /\ OutputTotal(i)' <= OutputTotal(i) /\ ~ Running(i)
          /\ \A j \in Caps : j # i => owedOut'[j] = owedOut[j] /\ grants'[j] = grants[j]
      BY <2>1, <3>1, FlushBackFlow
    <3>4. \A j \in Caps : j # i => Steady(j)
      BY <2>1, <3>1, <3>3 DEF Steady
    <3> QED
      BY <1>1, <2>1, <3>2, <3>3, <3>4, FlowKept, FlowSteady
  <2> QED
    BY <2>3, <2>4
<1>10. ASSUME NEW i \in Forwarders, ForwardReleased(i) PROVE \A j \in Caps : Flow(j)'
  <2>1. /\ i \in Caps /\ fwd[i] \in {"running", "blocked"}
        /\ fromCap[i] # <<>> /\ Head(fromCap[i]).type = "chunk"
        /\ fromCap' = [fromCap EXCEPT ![i] = Tail(@)] /\ fwd' = [fwd EXCEPT ![i] = "done"]
        /\ UNCHANGED <<outAvail, owedOut, grants, collector>>
    BY <1>10 DEF ForwardReleased, Heads, Take
  <2>2. (\A j \in Caps : Reader(j)' => Reader(j)) /\ ~ Reader(i)'
    BY <2>1, ReadersFall
  <2>3. /\ Count(fromCap[i]) > 0 /\ Count(fromCap'[i]) = Count(fromCap[i]) - 1
        /\ \A j \in Caps : j # i => fromCap'[j] = fromCap[j]
    BY <2>1, CountLess
  <2>4. Flow(i)'
    BY <1>1, <2>1, <2>2, <2>3, LastTaken
  <2>5. \A j \in Caps : j # i => Steady(j)
    BY <2>1, <2>3 DEF Steady
  <2> QED
    BY <1>1, <2>2, <2>4, <2>5, FlowSteady
<1>11. ASSUME NEW i \in Forwarders, ForwardCredit(i) \/ ForwardEnd(i) \/ ForwardErr(i)
       PROVE  \A j \in Caps : Flow(j)'
  <2>1. /\ i \in Caps /\ fwd[i] \in {"running", "blocked"}
        /\ fromCap[i] # <<>> /\ Head(fromCap[i]).type # "chunk"
        /\ fromCap' = [fromCap EXCEPT ![i] = Tail(@)]
        /\ fwd' = fwd \/ \E v \in {"done", "failed"} : fwd' = [fwd EXCEPT ![i] = v]
        /\ UNCHANGED <<outAvail, owedOut, grants, collector>>
    BY <1>11 DEF ForwardCredit, ForwardEnd, ForwardErr, Heads, Take
  <2>2. \A j \in Caps : Reader(j)' => Reader(j)
    <3>1. CASE fwd' = fwd
      BY <2>1, <3>1 DEF Reader
    <3>2. CASE \E v \in {"done", "failed"} : fwd' = [fwd EXCEPT ![i] = v]
      BY <2>1, <3>2, ReadersFall
    <3> QED
      BY <2>1, <3>1, <3>2
  <2>3. \A j \in Caps : Count(fromCap'[j]) = Count(fromCap[j])
    BY <2>1, CountSame
  <2>4. \A j \in Caps : Steady(j)
    BY <2>1, <2>3 DEF Steady
  <2> QED
    BY <1>1, <2>2, <2>4, FlowSteady
<1>12. ASSUME NEW i \in Caps, FlushBack(i), UNCHANGED <<outAvail, fromCap, fwd, collector>>
       PROVE  \A j \in Caps : Flow(j)'
  <2>1. /\ \/ OutputTotal(i)' = OutputTotal(i)
           \/ OutputTotal(i)' \in Nat /\ OutputTotal(i)' <= OutputTotal(i) /\ ~ Running(i)
        /\ \A j \in Caps : j # i => owedOut'[j] = owedOut[j] /\ grants'[j] = grants[j]
    BY <1>12, FlushBackFlow
  <2>2. \A j \in Caps : (j # i => Steady(j)) /\ (Reader(j)' => Reader(j))
    BY <1>12, <2>1 DEF Steady, Reader
  <2> QED
    BY <1>1, <2>1, <2>2, FlowKept, FlowSteady
<1>13. ASSUME NEW i \in Forwarders, ForwardIdle(i) PROVE \A j \in Caps : Flow(j)'
  BY <1>12, <1>13 DEF ForwardIdle
<1>14. CASE CollectIdle
  BY <1>12, <1>14 DEF CollectIdle
<1>15. CASE Collect
  <2>1. /\ N \in Caps /\ fromCap[N] # <<>> /\ Head(fromCap[N]).type = "chunk" /\ CountRead(N)
        /\ fromCap' = [fromCap EXCEPT ![N] = Tail(@)] /\ UNCHANGED <<outAvail, cap, fwd, collector>>
    BY <1>15 DEF Collect, Heads, Take
  <2>2. /\ Count(fromCap[N]) > 0 /\ Count(fromCap'[N]) = Count(fromCap[N]) - 1
        /\ \A j \in Caps : j # N => fromCap'[j] = fromCap[j]
    BY <2>1, CountLess
  <2>3. /\ \/ OutputTotal(N)' = OutputTotal(N)
           \/ OutputTotal(N)' \in Nat /\ OutputTotal(N)' <= OutputTotal(N) /\ ~ Running(N)
        /\ \A j \in Caps : j # N => owedOut'[j] = owedOut[j] /\ grants'[j] = grants[j]
    BY <2>1, <2>2, CountReadFlow
  <2>4. \A j \in Caps : (j # N => Steady(j)) /\ (Reader(j)' => Reader(j))
    BY <2>1, <2>2, <2>3 DEF Steady, Reader
  <2> QED
    BY <1>1, <2>1, <2>3, <2>4, FlowKept, FlowSteady
<1>16. CASE CollectCredit \/ CollectTerminal
  <2>1. /\ N \in Caps /\ fromCap[N] # <<>> /\ Head(fromCap[N]).type # "chunk"
        /\ fromCap' = [fromCap EXCEPT ![N] = Tail(@)]
        /\ collector = "running" /\ UNCHANGED <<outAvail, owedOut, grants, fwd>>
    BY <1>16 DEF CollectCredit, CollectTerminal, Heads, Take
  <2>2. \A j \in Caps : Reader(j)' => Reader(j)
    BY <2>1 DEF Reader
  <2>3. \A j \in Caps : Count(fromCap'[j]) = Count(fromCap[j])
    BY <2>1, CountSame
  <2>4. \A j \in Caps : Steady(j)
    BY <2>1, <2>3 DEF Steady
  <2> QED
    BY <1>1, <2>2, <2>4, FlowSteady
<1> QED
  BY <1>3, <1>4, <1>5, <1>6, <1>7, <1>8, <1>9, <1>10, <1>11, <1>13, <1>14, <1>15, <1>16
     DEF Next, HandlerStep, ForwardStep, RunStep

LEMMA FlowAlways == Spec => [](\A i \in Caps : Flow(i))
<1>1. Init => \A i \in Caps : Flow(i)
  <2> SUFFICES ASSUME Init, NEW i \in Caps PROVE Flow(i)
    OBVIOUS
  <2>1. /\ outAvail[i] = CapWindow[i] /\ fromCap[i] = <<>> /\ owedOut[i] = 0 /\ grants[i] = 0
    BY DEF Init
  <2>2. Count(fromCap[i]) = 0
    <3>1. <<>> \in Seq(Messages)
      OBVIOUS
    <3> QED
      BY <2>1, <3>1, Counted
  <2>3. CapWindow[i] \in Nat
    BY Indices
  <2> QED
    BY <2>1, <2>2, <2>3 DEF Flow, OutputTotal
<1>2. ChainInv /\ (\A i \in Caps : Flow(i)) /\ [Next]_vars => (\A i \in Caps : Flow(i))'
  BY NextFlow DEF ChainInv
<1> QED
  BY <1>1, <1>2, ChainAlways, PTL DEF Spec

\* The engine never holds more of a cap's output than its window, although the
\* channels are unbounded, and no credit of it is lost while the cap writes and
\* somebody reads: forward_frames, collect_terminal_output and
\* send_upstream_credit together.
THEOREM OutputCreditsGoRound == Spec => []OutputCredits
<1>1. (\A i \in Caps : Flow(i)) => OutputCredits
  BY DEF Flow, OutputCredits
<1> QED
  BY <1>1, FlowAlways, PTL

\* Every part of the state has its type, no gate holds more than its window,
\* and no account covers more than the cap's.
THEOREM TypeCorrect == Spec => []TypeOK
<1>1. ASSUME ChainInv, \A i \in Caps : Flow(i) PROVE TypeOK
  <2>1. Types
    BY <1>1 DEF ChainInv
  <2>2. ASSUME NEW i \in Caps
        PROVE  /\ gate[i].avail \in 0 .. Window /\ outAvail[i] \in 0 .. CapWindow[i]
               /\ grants[i] \in 0 .. CapWindow[i] /\ acct[i] <= CapWindow[i]
    <3>1. Hop(i)!TypeOK /\ Hop(i)!CreditsConserved /\ Account(i)
      BY <1>1 DEF ChainInv, HopInv
    <3>2. Window \in Nat /\ CapWindow[i] \in Nat
      BY Indices
    <3>3. gate[i].avail \in 0 .. Window
      BY <3>1, <3>2 DEF Hop!TypeOK, Hop!CreditsConserved, Hop!Total
    <3>4. acct[i] <= CapWindow[i]
      BY <3>1, <3>2 DEF Hop!TypeOK, Account
    <3>5. /\ outAvail[i] \in Nat /\ Count(fromCap[i]) \in Nat /\ owedOut[i] \in Nat /\ grants[i] \in Nat
      BY <2>1, Parts
    <3>6. OutputTotal(i) <= CapWindow[i]
      BY <1>1 DEF Flow
    <3>7. outAvail[i] \in 0 .. CapWindow[i] /\ grants[i] \in 0 .. CapWindow[i]
      BY <3>2, <3>5, <3>6 DEF OutputTotal
    <3> QED
      BY <3>3, <3>4, <3>7
  <2>3. ASSUME NEW i \in Caps
        PROVE  /\ gate[i].open \in BOOLEAN /\ part[i] \in 0 .. FramesIn(i) - 1
               /\ cap[i] \in {"running", "ended", "failed"}
               /\ eof[i] \in BOOLEAN /\ live[i] \in BOOLEAN
               /\ owedIn[i] < Batch(CapWindow[i]) /\ owedOut[i] < Batch(Window)
    <3>1. gate[i].open \in BOOLEAN /\ owedIn[i] < Batch(CapWindow[i]) /\ owedOut[i] < Batch(Window)
      BY <2>1 DEF Types, Amounts, Gates, Accounts, Returns
    <3>2. part[i] \in 0 .. FramesIn(i) - 1
      BY <2>1, Indices DEF Types, Amounts, Intake
    <3>3. cap[i] \in {"running", "ended", "failed"} /\ eof[i] \in BOOLEAN /\ live[i] \in BOOLEAN
      BY <2>1 DEF Types, Roles
    <3> QED
      BY <3>1, <3>2, <3>3
  <2>4. /\ feed \in {"running", "done", "failed"} /\ fed \in 0 .. Items /\ violated \subseteq Caps
        /\ \A i \in Forwarders : fwd[i] \in {"running", "blocked", "done", "failed"}
        /\ collector \in {"running", "ok", "err"} /\ result \in {"none", "ok", "failed"}
    BY <2>1 DEF Types, Roles, Amounts, Intake
  <2> QED
    BY <2>2, <2>3, <2>4 DEF TypeOK
<1> QED
  BY <1>1, ChainAlways, FlowAlways, PTL
=============================================================================
