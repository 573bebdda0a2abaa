------------------------- MODULE DataChannelProofs -------------------------
(***************************************************************************)
(* Proofs about the data channel of a run.  ChannelPump, for any number of *)
(* messages of any sizes, any limit of the queue and any capacity of the   *)
(* pipe: the consumer gets what was written, once, in order and the error  *)
(* last, through a queue that keeps its limit, and nobody sleeps through   *)
(* the event it waits for.  ObservationStream, for any number of           *)
(* producers, any capacities of their lanes, batches and messages, and any *)
(* number of pauses and losses: a trace that is reported loss-free is the  *)
(* whole of what was observed, in order, in the segments it was played in, *)
(* with the silent recoveries declared.                                    *)
(***************************************************************************)
EXTENDS ChannelPump, ObservationStream, SequenceTheorems, WellFoundedInduction, TLAPS

\* A nonempty set of numbers has a least one.
LEMMA LeastNumber ==
    ASSUME NEW S, S \subseteq Nat, S # {}
    PROVE  \E n \in S : \A m \in S : n <= m
<1>1. PICK n \in S : \A m \in S : <<m, n>> \notin OpToRel(<, Nat)
  BY NatLessThanWellFounded, WFMin
<1>2. \A m \in S : ~(m < n)
  BY <1>1 DEF OpToRel
<1>. QED  BY <1>2

-----------------------------------------------------------------------------
\* The bytes of a queue: what one result more or less makes of the sum.

Results == Messages \cup {Error}

Sums(q, f) ==
    /\ DOMAIN f = 0..Len(q)
    /\ f[0] = 0
    /\ \A i \in 1..Len(q) : f[i] \in Nat /\ f[i] = f[i - 1] + q[i].size

LEMMA ResultSize ==
    ASSUME NEW m \in Results
    PROVE  m.size \in Nat
<1>1. CASE m \in Messages
  BY <1>1, SizesAssumption DEF Messages
<1>2. CASE m = Error
  BY <1>2 DEF Error
<1>. QED  BY <1>1, <1>2 DEF Results

LEMMA SumsExist ==
    ASSUME NEW q \in Seq(Results)
    PROVE  \E f : Sums(q, f)
<1> DEFINE Upto(n) == \E f : /\ DOMAIN f = 0..n /\ f[0] = 0
                             /\ \A i \in 1..n : f[i] \in Nat /\ f[i] = f[i - 1] + q[i].size
           missing == {n \in 0..Len(q) : ~Upto(n)}
<1>1. Len(q) \in Nat
  BY LenProperties
<1>2. Upto(0)
  <2> DEFINE f == [i \in 0..0 |-> 0]
  <2>1. DOMAIN f = 0..0 /\ f[0] = 0
    OBVIOUS
  <2>2. \A i \in 1..0 : f[i] \in Nat /\ f[i] = f[i - 1] + q[i].size
    OBVIOUS
  <2> HIDE DEF f
  <2>. QED  BY <2>1, <2>2
<1>3. ASSUME NEW n \in 1..Len(q), Upto(n - 1)
      PROVE  Upto(n)
  <2>1. PICK f : /\ DOMAIN f = 0..(n - 1) /\ f[0] = 0
                 /\ \A i \in 1..(n - 1) : f[i] \in Nat /\ f[i] = f[i - 1] + q[i].size
    BY <1>3
  <2> DEFINE g == [i \in 0..n |-> IF i < n THEN f[i] ELSE f[n - 1] + q[n].size]
  <2>2. q[n].size \in Nat
    BY <1>1, <1>3, ElementOfSeq, ResultSize
  <2>3. f[n - 1] \in Nat
    BY <1>1, <1>3, <2>1
  <2>4. DOMAIN g = 0..n /\ g[0] = 0
    BY <1>1, <1>3, <2>1
  <2>5. ASSUME NEW i \in 1..n  PROVE g[i] \in Nat /\ g[i] = g[i - 1] + q[i].size
    <3>1. CASE i < n
      <4>1. i \in 1..(n - 1) /\ g[i] = f[i] /\ g[i - 1] = f[i - 1]
        BY <1>1, <1>3, <3>1
      <4>. QED  BY <2>1, <4>1
    <3>2. CASE i = n
      <4>1. g[i] = f[n - 1] + q[n].size /\ g[i - 1] = f[n - 1]
        BY <1>1, <1>3, <3>2
      <4>. QED  BY <2>2, <2>3, <3>2, <4>1
    <3>. QED  BY <1>1, <1>3, <3>1, <3>2
  <2> HIDE DEF g
  <2>. QED  BY <2>4, <2>5
<1> HIDE DEF Upto
<1>4. missing = {}
  <2>1. SUFFICES ASSUME missing # {}  PROVE FALSE
    OBVIOUS
  <2>2. missing \subseteq Nat
    BY <1>1
  <2>3. PICK n \in missing : \A m \in missing : n <= m
    BY <2>1, <2>2, LeastNumber
  <2>4. n \in 1..Len(q) /\ n - 1 \in 0..Len(q)
    BY <1>1, <1>2, <2>3
  <2>5. n - 1 \notin missing
    BY <1>1, <2>3, <2>4
  <2>. QED  BY <1>3, <2>3, <2>4, <2>5
<1>5. Upto(Len(q))
  BY <1>1, <1>4
<1>. QED  BY <1>5 DEF Upto, Sums

LEMMA BytesAreTheSum ==
    ASSUME NEW q \in Seq(Results), NEW f, Sums(q, f)
    PROVE  Bytes(q) = f[Len(q)] /\ Bytes(q) \in Nat
<1> DEFINE Next1(g) == [i \in 0..Len(q) |-> IF i = 0 THEN 0 ELSE g[i - 1] + q[i].size]
           c == CHOOSE g : g = Next1(g)
           h == [i \in 0..Len(q) |-> f[i]]
           differ == {i \in 0..Len(q) : c[i] # f[i]}
<1>1. Len(q) \in Nat
  BY LenProperties
<1>2. h = Next1(h)
  <2>1. ASSUME NEW i \in 0..Len(q)
        PROVE  h[i] = IF i = 0 THEN 0 ELSE h[i - 1] + q[i].size
    <3>1. CASE i = 0
      BY <1>1, <3>1 DEF Sums
    <3>2. CASE i # 0
      <4>1. i \in 1..Len(q) /\ i - 1 \in 0..Len(q)
        BY <1>1, <3>2
      <4>2. h[i] = f[i] /\ h[i - 1] = f[i - 1] /\ f[i] = f[i - 1] + q[i].size
        BY <4>1 DEF Sums
      <4>. QED  BY <3>2, <4>2
    <3>. QED  BY <3>1, <3>2
  <2>2. h = [i \in 0..Len(q) |-> h[i]]
    OBVIOUS
  <2> HIDE DEF h
  <2>. QED  BY <2>1, <2>2
<1> HIDE DEF h
<1>3. c = Next1(c)
  BY <1>2
<1>4. Bytes(q) = c[Len(q)]
  BY DEF Bytes
<1> HIDE DEF c
<1>5. \A i \in 0..Len(q) : c[i] = IF i = 0 THEN 0 ELSE c[i - 1] + q[i].size
  BY <1>3
<1>6. differ = {}
  <2>1. SUFFICES ASSUME differ # {}  PROVE FALSE
    OBVIOUS
  <2>2. differ \subseteq Nat
    BY <1>1
  <2>3. PICK n \in differ : \A m \in differ : n <= m
    BY <2>1, <2>2, LeastNumber
  <2>4. n # 0
    BY <1>1, <1>5, <2>3 DEF Sums
  <2>5. n \in 1..Len(q) /\ n - 1 \in 0..Len(q) /\ n - 1 \notin differ
    BY <1>1, <2>3, <2>4
  <2>6. c[n - 1] = f[n - 1] /\ c[n] = c[n - 1] + q[n].size /\ f[n] = f[n - 1] + q[n].size
    BY <1>5, <2>4, <2>5 DEF Sums
  <2>. QED  BY <2>3, <2>6
<1>7. c[Len(q)] = f[Len(q)]
  BY <1>1, <1>6
<1>8. f[Len(q)] \in Nat
  <2>1. CASE Len(q) = 0
    BY <2>1 DEF Sums
  <2>2. CASE Len(q) # 0
    <3>1. Len(q) \in 1..Len(q)
      BY <1>1, <2>2
    <3>. QED  BY <3>1 DEF Sums
  <2>. QED  BY <2>1, <2>2
<1>. QED  BY <1>4, <1>7, <1>8

LEMMA EmptyHasNoBytes ==
    ASSUME NEW q \in Seq(Results), q = << >>
    PROVE  Bytes(q) = 0
<1>1. PICK f : Sums(q, f)
  BY SumsExist
<1>2. Len(q) = 0 /\ f[0] = 0
  BY <1>1 DEF Sums
<1>3. Bytes(q) = f[Len(q)]
  BY <1>1, BytesAreTheSum
<1>. QED  BY <1>2, <1>3

LEMMA OneMoreResult ==
    ASSUME NEW q \in Seq(Results), NEW m \in Results
    PROVE  Bytes(Append(q, m)) = Bytes(q) + m.size
<1>1. PICK f : Sums(q, f)
  BY SumsExist
<1> DEFINE n == Len(q)
           p == Append(q, m)
           g == [i \in 0..(n + 1) |-> IF i <= n THEN f[i] ELSE f[n] + m.size]
<1>2. /\ n \in Nat /\ p \in Seq(Results) /\ Len(p) = n + 1 /\ p[n + 1] = m
      /\ \A i \in 1..n : p[i] = q[i]
  BY AppendProperties, LenProperties
<1>3. Bytes(q) = f[n] /\ f[n] \in Nat /\ m.size \in Nat
  BY <1>1, BytesAreTheSum, ResultSize
<1> HIDE DEF n, p
<1>4. DOMAIN g = 0..Len(p) /\ g[0] = 0
  BY <1>1, <1>2 DEF Sums, n
<1>5. ASSUME NEW i \in 1..Len(p)
      PROVE  g[i] \in Nat /\ g[i] = g[i - 1] + p[i].size
  <2>1. CASE i <= n
    <3>1. i \in 1..n /\ g[i] = f[i] /\ g[i - 1] = f[i - 1] /\ p[i] = q[i]
      BY <1>2, <2>1
    <3>. QED  BY <1>1, <3>1 DEF Sums, n
  <2>2. CASE i = n + 1
    <3>1. g[i] = f[n] + m.size /\ g[i - 1] = f[n] /\ p[i] = m
      BY <1>2, <2>2
    <3>. QED  BY <1>3, <3>1
  <2>. QED  BY <1>2, <2>1, <2>2
<1>6. g[Len(p)] = f[n] + m.size
  BY <1>2
<1> HIDE DEF g
<1>7. Sums(p, g)
  BY <1>4, <1>5 DEF Sums
<1>8. Bytes(p) = g[Len(p)]
  BY <1>2, <1>7, BytesAreTheSum
<1>. QED  BY <1>3, <1>6, <1>8 DEF p

LEMMA OneResultLess ==
    ASSUME NEW q \in Seq(Results), q # << >>
    PROVE  Bytes(q) = Head(q).size + Bytes(Tail(q))
<1>1. PICK f : Sums(Tail(q), f)
  BY HeadTailProperties, SumsExist
<1> DEFINE n == Len(q)
           t == Tail(q)
           b == q[1].size
           g == [i \in 0..n |-> IF i = 0 THEN 0 ELSE b + f[i - 1]]
<1>2. /\ n \in Nat \ {0} /\ t \in Seq(Results) /\ Len(t) = n - 1
      /\ \A i \in 1..(n - 1) : t[i] = q[i + 1]
      /\ Head(q) = q[1]
  BY HeadTailProperties, LenProperties, EmptySeq
<1>3. b \in Nat
  BY <1>2, ElementOfSeq, ResultSize
<1>4. Bytes(t) = f[n - 1] /\ f[n - 1] \in Nat
  BY <1>1, <1>2, BytesAreTheSum
<1>5. f[0] = 0 /\ \A i \in 1..(n - 1) : f[i] \in Nat /\ f[i] = f[i - 1] + q[i + 1].size
  BY <1>1, <1>2 DEF Sums
<1> HIDE DEF t, b
<1>6. DOMAIN g = 0..n /\ g[0] = 0
  BY <1>2
<1>7. ASSUME NEW i \in 1..n
      PROVE  g[i] \in Nat /\ g[i] = g[i - 1] + q[i].size
  <2>1. CASE i = 1
    <3>1. g[1] = b + f[0] /\ g[0] = 0
      BY <1>2
    <3>. QED  BY <1>3, <1>5, <2>1, <3>1 DEF b
  <2>2. CASE i > 1
    <3>1. i - 1 \in 1..(n - 1)
      BY <1>2, <2>2
    <3>2. g[i] = b + f[i - 1] /\ g[i - 1] = b + f[i - 2]
      BY <1>2, <2>2
    <3>3. f[i - 1] \in Nat /\ f[i - 1] = f[(i - 1) - 1] + q[(i - 1) + 1].size
      BY <1>5, <3>1
    <3>4. f[i - 2] \in Nat
      <4>1. CASE i = 2
        BY <1>5, <4>1
      <4>2. CASE i > 2
        <5>1. i - 2 \in 1..(n - 1)
          BY <1>2, <4>2
        <5>. QED  BY <1>5, <5>1
      <4>. QED  BY <2>2, <4>1, <4>2
    <3>5. q[i].size \in Nat
      BY <1>2, ElementOfSeq, ResultSize
    <3>6. f[i - 1] = f[i - 2] + q[i].size
      BY <1>2, <3>3
    <3>. QED  BY <1>3, <3>2, <3>3, <3>4, <3>5, <3>6
  <2>. QED  BY <1>2, <2>1, <2>2
<1>8. g[n] = b + f[n - 1]
  BY <1>2
<1> HIDE DEF g
<1>9. Sums(q, g)
  BY <1>6, <1>7 DEF Sums
<1>10. Bytes(q) = g[n]
  BY <1>9, BytesAreTheSum
<1>. QED  BY <1>2, <1>4, <1>8, <1>10 DEF t, b

-----------------------------------------------------------------------------
\* The inductive invariant.

Failed(s) == s # << >> /\ s[Len(s)] = Error
\* How many messages a sequence has whose only error, if any, is its last element.
Count(s) == IF Failed(s) THEN Len(s) - 1 ELSE Len(s)
Numbered(s, before) == \A i \in 1..Count(s) : s[i].n = before + i

\* The error is the last result of the queue and stays there; the consumer may have it.
ErrorIsKept ==
    /\ \A i \in 1..(Len(delivered) - 1) : delivered[i] # Error
    /\ \A i \in 1..(Len(queue) - 1) : queue[i] # Error
    /\ ended <=> Failed(queue)
    /\ Failed(delivered) => ended /\ Len(queue) = 1
    /\ ended => reader = "done"

\* The numbers of the messages go on from the consumer to the pipe.
Numbers ==
    LET queued == Count(delivered) + Count(queue)
        read == queued + Count(held)
    IN  /\ Numbered(delivered, 0) /\ Numbered(queue, Count(delivered)) /\ Numbered(held, queued)
        /\ \A i \in 1..Len(pipe) : pipe[i].n = read + i
        /\ read + Len(pipe) = produced

\* The reader only reads with room in the queue.
ReadsWithRoom ==
    /\ held # NoResult <=> reader = "push"
    /\ reader \in {"read", "push"} => queuedBytes < MaxQueued

\* Who sleeps is where it waits, and for something that has not come.
SleepsInPlace ==
    /\ "reader" \in asleep => reader = "check"
    /\ "consumer" \in asleep => consumer = "pop"
    /\ NoLostWakeup

PumpInv ==
    /\ TypeOK /\ ErrorIsKept /\ Numbers /\ QueueBounded /\ ReadsWithRoom /\ SleepsInPlace

-----------------------------------------------------------------------------
\* Steps that move no message.

LEMMA MessageIsNoError ==
    ASSUME NEW m \in Messages
    PROVE  m # Error /\ m \in Results
<1>1. m.n # 0 /\ Error.n = 0
  BY LimitsAssumption DEF Messages, Error
<1>. QED  BY <1>1 DEF Results

LEMMA CountIsBounded ==
    ASSUME NEW s \in Seq(Results)
    PROVE  /\ Count(s) \in 0..Len(s) /\ Len(s) \in Nat
           /\ ~Failed(s) => Count(s) = Len(s)
           /\ Failed(s) => Count(s) = Len(s) - 1
BY LenProperties, EmptySeq DEF Count, Failed

LEMMA PumpTypes ==
    ASSUME TypeOK
    PROVE  /\ pipe \in Seq(Messages) /\ produced \in 0..MaxMessages
           /\ queue \in Seq(Results) /\ delivered \in Seq(Results) /\ queuedBytes \in Nat
           /\ held # NoResult => \E m \in Results : held = <<m>>
           /\ held \in Seq(Results)
<1>1. /\ pipe \in Seq(Messages) /\ produced \in 0..MaxMessages
      /\ queue \in Seq(Results) /\ delivered \in Seq(Results) /\ queuedBytes \in Nat
  BY DEF TypeOK, Results
<1>2. held # NoResult => \E m \in Results : held = <<m>>
  <2>1. held \in {NoResult} \cup {<<m>> : m \in Results}
    BY DEF TypeOK, Results
  <2>. QED  BY <2>1, Zenon
<1>3. held \in Seq(Results)
  <2>1. CASE held = NoResult
    <3>1. << >> \in Seq(Results)
      BY EmptySeq
    <3>. QED  BY <2>1, <3>1 DEF NoResult
  <2>2. CASE held # NoResult
    <3>1. PICK m \in Results : held = <<m>>
      BY <1>2, <2>2
    <3>2. <<m>> \in Seq(Results)
      OBVIOUS
    <3>. QED  BY <3>1, <3>2
  <2>. QED  BY <2>1, <2>2
<1>. QED  BY <1>1, <1>2, <1>3

Quiet ==
    /\ UNCHANGED <<pipe, produced, held, queue, queuedBytes, ended, delivered, interruptible>>
    /\ reader' \in {"check", "read", "push", "done"}
    /\ writer' \in {"open", "closed"} /\ consumer' \in {"use", "pop", "closing", "gone"}
    /\ stop' \in BOOLEAN /\ asleep' \subseteq {"reader", "consumer"}
    /\ reader = "done" => reader' = "done"
    /\ reader = "push" <=> reader' = "push"
    /\ reader' = "read" => reader = "read" \/ queuedBytes < MaxQueued

LEMMA QuietStep ==
    ASSUME PumpInv, Quiet, SleepsInPlace'
    PROVE  PumpInv'
<1>1. TypeOK'
  BY DEF PumpInv, TypeOK, Quiet
<1>2. ErrorIsKept'
  BY DEF PumpInv, ErrorIsKept, Failed, Quiet
<1>3. Numbers'
  BY DEF PumpInv, Numbers, Numbered, Count, Failed, Quiet
<1>4. QueueBounded' /\ ReadsWithRoom'
  BY DEF PumpInv, QueueBounded, Bytes, ReadsWithRoom, Quiet
<1>. QED  BY <1>1, <1>2, <1>3, <1>4 DEF PumpInv

LEMMA QuietSteps ==
    ASSUME PumpInv, UNCHANGED interruptible,
           CloseWriter \/ ReaderSleeps \/ ReaderGoesOn \/ CallPop \/ PopSleeps \/ Close \/ Join
    PROVE  PumpInv'
<1>1. TypeOK /\ SleepsInPlace
  BY DEF PumpInv
<1>2. CASE CloseWriter
  <2>1. Quiet /\ SleepsInPlace'
    BY <1>1, <1>2
    DEF CloseWriter, Quiet, TypeOK, SleepsInPlace, NoLostWakeup, HasRoom, shared
  <2>. QED  BY <2>1, QuietStep
<1>3. CASE ReaderSleeps
  <2>1. Quiet /\ SleepsInPlace'
    BY <1>1, <1>3
    DEF ReaderSleeps, Quiet, TypeOK, SleepsInPlace, NoLostWakeup, HasRoom, channel
  <2>. QED  BY <2>1, QuietStep
<1>4. CASE ReaderGoesOn
  <2>1. Quiet /\ SleepsInPlace'
    BY <1>1, <1>4
    DEF ReaderGoesOn, Quiet, TypeOK, SleepsInPlace, NoLostWakeup, HasRoom, channel, shared
  <2>. QED  BY <2>1, QuietStep
<1>5. CASE CallPop
  <2>1. Quiet /\ SleepsInPlace'
    BY <1>1, <1>5
    DEF CallPop, Quiet, TypeOK, SleepsInPlace, NoLostWakeup, HasRoom, channel, shared
  <2>. QED  BY <2>1, QuietStep
<1>6. CASE PopSleeps
  <2>1. Quiet /\ SleepsInPlace'
    BY <1>1, <1>6
    DEF PopSleeps, Quiet, TypeOK, SleepsInPlace, NoLostWakeup, HasRoom, channel
  <2>. QED  BY <2>1, QuietStep
<1>7. CASE Close
  <2>1. Quiet /\ SleepsInPlace'
    BY <1>1, <1>7
    DEF Close, Quiet, TypeOK, SleepsInPlace, NoLostWakeup, HasRoom, channel
  <2>. QED  BY <2>1, QuietStep
<1>8. CASE Join
  <2>1. Quiet /\ SleepsInPlace'
    BY <1>1, <1>8
    DEF Join, Quiet, TypeOK, SleepsInPlace, NoLostWakeup, HasRoom, channel, shared
  <2>. QED  BY <2>1, QuietStep
<1>. QED  BY <1>2, <1>3, <1>4, <1>5, <1>6, <1>7, <1>8

-----------------------------------------------------------------------------
\* Steps that move a message, or bring the error.

LEMMA SendStep ==
    ASSUME PumpInv, UNCHANGED interruptible, NEW size \in Sizes, Send(size)
    PROVE  PumpInv'
<1> DEFINE m == [n |-> produced + 1, size |-> size]
<1>1. /\ pipe' = Append(pipe, m) /\ produced' = produced + 1 /\ produced < MaxMessages
      /\ UNCHANGED <<writer, reader, held, queue, queuedBytes, stop, ended, asleep, consumer,
                     delivered>>
  BY DEF Send, shared
<1>2. pipe \in Seq(Messages) /\ produced \in Nat /\ MaxMessages \in Nat
  BY PumpTypes, LimitsAssumption DEF PumpInv
<1>3. m \in Messages /\ m.n = produced + 1
  BY <1>1, <1>2 DEF Messages
<1> HIDE DEF m
<1>4. /\ pipe' \in Seq(Messages) /\ Len(pipe') = Len(pipe) + 1 /\ Len(pipe) \in Nat
      /\ pipe'[Len(pipe) + 1] = m /\ \A i \in 1..Len(pipe) : pipe'[i] = pipe[i]
  BY <1>1, <1>2, <1>3, AppendProperties, LenProperties
<1>5. TypeOK'
  BY <1>1, <1>2, <1>4 DEF PumpInv, TypeOK
<1>6. Numbers'
  <2> DEFINE queued == Count(delivered) + Count(queue)
             read == queued + Count(held)
  <2>1. /\ Numbered(delivered, 0) /\ Numbered(queue, Count(delivered)) /\ Numbered(held, queued)
        /\ \A i \in 1..Len(pipe) : pipe[i].n = read + i
        /\ read + Len(pipe) = produced
    BY DEF PumpInv, Numbers
  <2>2. read \in Nat
    BY PumpTypes, CountIsBounded DEF PumpInv
  <2>3. read' = read /\ queued' = queued
    BY <1>1 DEF Count, Failed
  <2> HIDE DEF read, queued
  <2>4. ASSUME NEW i \in 1..Len(pipe')  PROVE pipe'[i].n = read + i
    <3>1. CASE i = Len(pipe) + 1
      BY <1>3, <1>4, <2>1, <2>2, <3>1
    <3>2. CASE i # Len(pipe) + 1
      <4>1. i \in 1..Len(pipe)
        BY <1>4, <3>2
      <4>. QED  BY <1>4, <2>1, <4>1
    <3>. QED  BY <3>1, <3>2
  <2>5. read + Len(pipe') = produced'
    BY <1>1, <1>4, <2>1, <2>2
  <2>6. Numbered(delivered, 0)' /\ Numbered(queue, Count(delivered))' /\ Numbered(held, queued)'
    BY <1>1, <2>1, <2>3 DEF Numbered, Count, Failed
  <2>. QED  BY <2>3, <2>4, <2>5, <2>6 DEF Numbers, read, queued
<1>7. ErrorIsKept' /\ QueueBounded' /\ ReadsWithRoom' /\ SleepsInPlace'
  BY <1>1
  DEF PumpInv, ErrorIsKept, Failed, QueueBounded, Bytes, ReadsWithRoom, SleepsInPlace,
      NoLostWakeup, HasRoom
<1>. QED  BY <1>5, <1>6, <1>7 DEF PumpInv

\* One result is all of a sequence.
LEMMA OneResult ==
    ASSUME NEW m \in Results, NEW s, s = <<m>>
    PROVE  /\ s # NoResult /\ Len(s) = 1 /\ s[1] = m /\ (Failed(s) <=> m = Error)
           /\ Count(s) = IF m = Error THEN 0 ELSE 1
BY DEF NoResult, Failed, Count

LEMMA NoResultHeld ==
    ASSUME NEW s, s = NoResult
    PROVE  Count(s) = 0 /\ ~Failed(s)
BY DEF NoResult, Failed, Count

LEMMA ReadStep ==
    ASSUME PumpInv, UNCHANGED interruptible, ReadMessage
    PROVE  PumpInv'
<1> DEFINE m == Head(pipe)
<1>1. /\ pipe # << >> /\ held' = <<m>> /\ pipe' = Tail(pipe)
      /\ reader = "read" /\ reader' = "push"
      /\ UNCHANGED <<writer, produced, queue, queuedBytes, stop, ended, asleep, consumer,
                     delivered>>
  BY DEF ReadMessage, shared
<1>2. /\ pipe \in Seq(Messages) /\ produced \in Nat /\ held = NoResult
      /\ queue \in Seq(Results) /\ delivered \in Seq(Results)
  BY <1>1, PumpTypes DEF PumpInv, ReadsWithRoom
<1>3. /\ pipe' \in Seq(Messages) /\ Len(pipe') = Len(pipe) - 1 /\ Len(pipe) \in Nat \ {0}
      /\ m = pipe[1] /\ \A i \in 1..Len(pipe') : pipe'[i] = pipe[i + 1]
  BY <1>1, <1>2, HeadTailProperties, LenProperties, EmptySeq
<1>4. m \in Messages /\ m # Error /\ m \in Results
  BY <1>2, <1>3, ElementOfSeq, MessageIsNoError
<1> HIDE DEF m
<1>5. TypeOK'
  BY <1>1, <1>3, <1>4 DEF PumpInv, TypeOK
<1>6. Numbers'
  <2> DEFINE queued == Count(delivered) + Count(queue)
  <2>1. /\ Numbered(delivered, 0) /\ Numbered(queue, Count(delivered))
        /\ \A i \in 1..Len(pipe) : pipe[i].n = queued + Count(held) + i
        /\ queued + Count(held) + Len(pipe) = produced
    BY DEF PumpInv, Numbers
  <2>2. queued \in Nat
    BY <1>2, CountIsBounded
  <2>3. Count(held) = 0
    BY <1>2, NoResultHeld
  <2>4. Count(held') = 1 /\ held'[1] = m /\ Len(held') = 1
    BY <1>1, <1>4, OneResult
  <2>5. queued' = queued
    BY <1>1 DEF Count, Failed
  <2> HIDE DEF queued
  <2>6. m.n = queued + 1
    BY <1>3, <2>1, <2>2, <2>3
  <2>7. \A i \in 1..Len(pipe') : pipe'[i].n = queued + 1 + i
    <3>1. SUFFICES ASSUME NEW i \in 1..Len(pipe')  PROVE pipe'[i].n = queued + 1 + i
      OBVIOUS
    <3>2. i + 1 \in 1..Len(pipe) /\ pipe'[i] = pipe[i + 1]
      BY <1>3, <3>1
    <3>3. pipe[i + 1].n = queued + Count(held) + (i + 1)
      BY <2>1, <3>2
    <3>. QED  BY <1>3, <2>2, <2>3, <3>2, <3>3
  <2>8. queued + 1 + Len(pipe') = produced'
    BY <1>1, <1>3, <2>1, <2>2, <2>3
  <2>9. Numbered(delivered, 0)' /\ Numbered(queue, Count(delivered))'
    BY <1>1, <2>1 DEF Numbered, Count, Failed
  <2>10. Numbered(held', queued)
    BY <2>4, <2>6 DEF Numbered
  <2>. QED  BY <2>4, <2>5, <2>7, <2>8, <2>9, <2>10 DEF Numbers, queued
<1>7. ErrorIsKept'
  BY <1>1 DEF PumpInv, ErrorIsKept, Failed
<1>8. ReadsWithRoom'
  <2>1. held' # NoResult
    BY <1>1, <1>4, OneResult
  <2>. QED  BY <1>1, <2>1 DEF PumpInv, ReadsWithRoom
<1>9. QueueBounded' /\ SleepsInPlace'
  BY <1>1 DEF PumpInv, QueueBounded, Bytes, SleepsInPlace, NoLostWakeup, HasRoom
<1>. QED  BY <1>5, <1>6, <1>7, <1>8, <1>9 DEF PumpInv

LEMMA ErrorReadStep ==
    ASSUME PumpInv, UNCHANGED interruptible, reader = "read", ReadsError
    PROVE  PumpInv'
<1>1. /\ held' = <<Error>> /\ reader' = "push"
      /\ UNCHANGED <<pipe, writer, produced, queue, queuedBytes, stop, ended, asleep, consumer,
                     delivered>>
  BY DEF ReadsError, channel, shared
<1>2. held = NoResult /\ Error \in Results
  BY DEF PumpInv, ReadsWithRoom, Results
<1>3. Count(held) = 0 /\ Count(held') = 0 /\ held' # NoResult
  BY <1>1, <1>2, NoResultHeld, OneResult
<1>4. TypeOK'
  BY <1>1 DEF PumpInv, TypeOK
<1>5. Numbers'
  <2> DEFINE queued == Count(delivered) + Count(queue)
  <2>1. queued' = queued
    BY <1>1 DEF Count, Failed
  <2>2. Numbered(held, queued)'
    BY <1>3 DEF Numbered
  <2>3. Numbered(delivered, 0)' /\ Numbered(queue, Count(delivered))'
    BY <1>1 DEF PumpInv, Numbers, Numbered, Count, Failed
  <2>4. /\ \A i \in 1..Len(pipe) : pipe[i].n = queued + Count(held) + i
        /\ queued + Count(held) + Len(pipe) = produced
    BY DEF PumpInv, Numbers
  <2>5. /\ \A i \in 1..Len(pipe') : pipe'[i].n = queued' + Count(held') + i
        /\ queued' + Count(held') + Len(pipe') = produced'
    BY <1>1, <1>3, <2>1, <2>4
  <2>. QED  BY <2>2, <2>3, <2>5 DEF Numbers
<1>6. ErrorIsKept'
  BY <1>1 DEF PumpInv, ErrorIsKept, Failed
<1>7. ReadsWithRoom'
  BY <1>1, <1>3 DEF PumpInv, ReadsWithRoom
<1>8. QueueBounded' /\ SleepsInPlace'
  BY <1>1 DEF PumpInv, QueueBounded, Bytes, SleepsInPlace, NoLostWakeup, HasRoom
<1>. QED  BY <1>4, <1>5, <1>6, <1>7, <1>8 DEF PumpInv

LEMMA BytesAreCounted ==
    ASSUME NEW q \in Seq(Results)
    PROVE  Bytes(q) \in Nat
BY SumsExist, BytesAreTheSum

\* One more result at the end of a sequence without an error.
LEMMA CountGrows ==
    ASSUME NEW s \in Seq(Results), ~Failed(s), NEW m \in Results,
           \A i \in 1..(Len(s) - 1) : s[i] # Error
    PROVE  LET t == Append(s, m) IN
           /\ t \in Seq(Results) /\ Len(t) = Len(s) + 1 /\ t[Len(s) + 1] = m
           /\ Failed(t) <=> m = Error
           /\ Count(t) = Count(s) + (IF m = Error THEN 0 ELSE 1)
           /\ \A i \in 1..Len(s) : t[i] = s[i]
           /\ \A i \in 1..(Len(t) - 1) : t[i] # Error
<1> DEFINE t == Append(s, m)
<1>1. /\ t \in Seq(Results) /\ Len(t) = Len(s) + 1 /\ t[Len(s) + 1] = m
      /\ \A i \in 1..Len(s) : t[i] = s[i]
      /\ Len(s) \in Nat
  BY AppendProperties, LenProperties
<1> HIDE DEF t
<1>2. t # << >>
  BY <1>1
<1>3. Failed(t) <=> m = Error
  BY <1>1, <1>2 DEF Failed
<1>4. Count(t) = Count(s) + (IF m = Error THEN 0 ELSE 1)
  BY <1>1, <1>3 DEF Count
<1>5. ASSUME NEW i \in 1..(Len(t) - 1)  PROVE t[i] # Error
  <2>1. i \in 1..Len(s) /\ t[i] = s[i]
    BY <1>1
  <2>2. CASE i = Len(s)
    <3>1. s # << >>
      BY <1>1, <2>1
    <3>. QED  BY <2>1, <2>2, <3>1 DEF Failed
  <2>3. CASE i # Len(s)
    <3>1. i \in 1..(Len(s) - 1)
      BY <1>1, <2>1, <2>3
    <3>. QED  BY <2>1, <3>1
  <2>. QED  BY <2>2, <2>3
<1>. QED  BY <1>1, <1>3, <1>4, <1>5 DEF t

LEMMA PushStep ==
    ASSUME PumpInv, UNCHANGED interruptible, Push
    PROVE  PumpInv'
<1> DEFINE m == held[1]
<1>1. /\ reader = "push" /\ queue' = Append(queue, m) /\ queuedBytes' = queuedBytes + m.size
      /\ ended' = (ended \/ m = Error) /\ asleep' = {}
      /\ reader' = IF m = Error THEN "done" ELSE "check"
      /\ held' = NoResult
      /\ UNCHANGED <<pipe, writer, produced, stop, consumer, delivered>>
  BY DEF Push, channel
<1>2. held # NoResult /\ queuedBytes < MaxQueued /\ ~ended /\ ~Failed(queue) /\ ~Failed(delivered)
  BY <1>1 DEF PumpInv, ReadsWithRoom, ErrorIsKept
<1>3. m \in Results /\ held = <<m>>
  <2>1. PICK x \in Results : held = <<x>>
    BY <1>2, PumpTypes DEF PumpInv
  <2>. QED  BY <2>1
<1> HIDE DEF m
<1>4. m.size \in Nat /\ MaxQueued \in Nat
  BY <1>3, ResultSize, LimitsAssumption
<1>5. /\ queue \in Seq(Results) /\ delivered \in Seq(Results) /\ queuedBytes \in Nat
      /\ \A i \in 1..(Len(queue) - 1) : queue[i] # Error
  BY PumpTypes DEF PumpInv, ErrorIsKept
<1>6. /\ queue' \in Seq(Results) /\ Len(queue') = Len(queue) + 1 /\ queue'[Len(queue) + 1] = m
      /\ Failed(queue') <=> m = Error
      /\ Count(queue') = Count(queue) + (IF m = Error THEN 0 ELSE 1)
      /\ \A i \in 1..Len(queue) : queue'[i] = queue[i]
      /\ \A i \in 1..(Len(queue') - 1) : queue'[i] # Error
  BY <1>1, <1>2, <1>3, <1>5, CountGrows
<1>7. Count(held) = (IF m = Error THEN 0 ELSE 1) /\ held[1] = m /\ Count(held') = 0
  BY <1>1, <1>3, OneResult, NoResultHeld
<1>8. Count(delivered) \in Nat /\ Count(queue) = Len(queue) /\ Len(queue) \in Nat
  BY <1>2, <1>5, CountIsBounded
<1>9. TypeOK'
  <2>1. queue' \in Seq(Messages \cup {Error}) /\ queuedBytes' \in Nat
    BY <1>1, <1>4, <1>5, <1>6 DEF Results
  <2>. QED  BY <1>1, <2>1 DEF PumpInv, TypeOK
<1>10. Numbers'
  <2>1. /\ Numbered(delivered, 0) /\ Numbered(queue, Count(delivered))
        /\ Numbered(held, Count(delivered) + Count(queue))
        /\ \A i \in 1..Len(pipe) : pipe[i].n = Count(delivered) + Count(queue) + Count(held) + i
        /\ Count(delivered) + Count(queue) + Count(held) + Len(pipe) = produced
    BY DEF PumpInv, Numbers
  <2>2. Count(delivered') = Count(delivered) /\ Numbered(delivered', 0)
    BY <1>1, <2>1 DEF Numbered
  <2>3. Count(delivered') + Count(queue') + Count(held')
            = Count(delivered) + Count(queue) + Count(held)
    BY <1>6, <1>7, <1>8, <2>2
  <2>4. Numbered(queue', Count(delivered'))
    <3>1. SUFFICES ASSUME NEW i \in 1..Count(queue')
                   PROVE  queue'[i].n = Count(delivered) + i
      BY <2>2 DEF Numbered
    <3>2. CASE i = Len(queue) + 1
      <4>1. m # Error
        BY <1>6, <1>8, <3>1, <3>2
      <4>2. m.n = Count(delivered) + Count(queue) + 1
        BY <1>7, <2>1, <4>1 DEF Numbered
      <4>. QED  BY <1>6, <1>8, <3>2, <4>2
    <3>3. CASE i # Len(queue) + 1
      <4>1. i \in 1..Count(queue) /\ queue'[i] = queue[i]
        BY <1>6, <1>8, <3>1, <3>3
      <4>. QED  BY <2>1, <4>1 DEF Numbered
    <3>. QED  BY <3>2, <3>3
  <2>5. Numbered(held', Count(delivered') + Count(queue'))
    BY <1>7 DEF Numbered
  <2>. QED  BY <1>1, <2>1, <2>2, <2>3, <2>4, <2>5 DEF Numbers
<1>11. ErrorIsKept'
  BY <1>1, <1>2, <1>6 DEF PumpInv, ErrorIsKept
<1>12. QueueBounded'
  <2>1. Bytes(queue') = Bytes(queue) + m.size
    BY <1>1, <1>3, <1>5, OneMoreResult
  <2>2. queuedBytes' = Bytes(queue')
    BY <1>1, <2>1 DEF PumpInv, QueueBounded
  <2>3. CASE m = Error
    <3>1. queuedBytes' < MaxQueued
      BY <1>1, <1>2, <1>5, <2>3 DEF Error
    <3>. QED  BY <2>2, <3>1 DEF QueueBounded
  <2>4. CASE m # Error
    <3>1. m.size \in Sizes
      BY <1>3, <2>4 DEF Results, Messages
    <3>2. queuedBytes' < MaxQueued + m.size
      BY <1>1, <1>2, <1>4, <1>5
    <3>. QED  BY <2>2, <3>1, <3>2 DEF QueueBounded
  <2>. QED  BY <2>3, <2>4
<1>13. ReadsWithRoom' /\ SleepsInPlace'
  BY <1>1 DEF ReadsWithRoom, SleepsInPlace, NoLostWakeup
<1>. QED  BY <1>9, <1>10, <1>11, <1>12, <1>13 DEF PumpInv

\* The last result of a queue stays in it when it is the error.
LEMMA PopErrorStep ==
    ASSUME PumpInv, UNCHANGED interruptible, Pop, Head(queue) = Error
    PROVE  PumpInv'
<1>1. /\ queue # << >> /\ queue' = AfterPop /\ queuedBytes' = queuedBytes - Error.size
      /\ delivered' = IF Failed(delivered) THEN delivered ELSE Append(delivered, Error)
      /\ asleep' = {} /\ consumer' = "use"
      /\ UNCHANGED <<pipe, writer, produced, reader, held, stop, ended>>
  BY DEF Pop, BytesAfterPop, Failed, channel
<1>2. queue \in Seq(Results) /\ delivered \in Seq(Results) /\ queuedBytes \in Nat
  BY PumpTypes DEF PumpInv
<1>3. Len(queue) = 1 /\ ended /\ queue[1] = Error
  <2>1. queue[1] = Error /\ Len(queue) \in Nat \ {0}
    BY <1>1, <1>2, HeadTailProperties, LenProperties, EmptySeq
  <2>2. Len(queue) = 1
    <3>1. 1 \notin 1..(Len(queue) - 1)
      BY <2>1 DEF PumpInv, ErrorIsKept
    <3>. QED  BY <2>1, <3>1
  <2>. QED  BY <1>1, <2>1, <2>2 DEF PumpInv, ErrorIsKept, Failed
<1>4. queue' = queue /\ queuedBytes' = queuedBytes
  BY <1>1, <1>2, <1>3 DEF AfterPop, Error
<1>5. /\ delivered' \in Seq(Results) /\ Failed(delivered')
      /\ Count(delivered') = Count(delivered)
      /\ \A i \in 1..Count(delivered) : delivered'[i] = delivered[i]
      /\ \A i \in 1..(Len(delivered') - 1) : delivered'[i] # Error
  <2>1. CASE Failed(delivered)
    BY <1>1, <1>2, <2>1 DEF PumpInv, ErrorIsKept
  <2>2. CASE ~Failed(delivered)
    <3>1. Error \in Results /\ \A i \in 1..(Len(delivered) - 1) : delivered[i] # Error
      BY DEF Results, PumpInv, ErrorIsKept
    <3>2. /\ delivered' \in Seq(Results) /\ Failed(delivered')
          /\ Count(delivered') = Count(delivered) + 0
          /\ \A i \in 1..Len(delivered) : delivered'[i] = delivered[i]
          /\ \A i \in 1..(Len(delivered') - 1) : delivered'[i] # Error
      BY <1>1, <1>2, <2>2, <3>1, CountGrows
    <3>. QED  BY <1>2, <2>2, <3>2, CountIsBounded
  <2>. QED  BY <2>1, <2>2
<1>6. TypeOK'
  BY <1>1, <1>4, <1>5 DEF PumpInv, TypeOK, Results
<1>7. ErrorIsKept'
  BY <1>1, <1>3, <1>4, <1>5 DEF PumpInv, ErrorIsKept
<1>8. Numbers'
  <2>1. Numbered(delivered', 0)
    BY <1>5 DEF PumpInv, Numbers, Numbered
  <2>2. Count(queue') = Count(queue) /\ Count(held') = Count(held)
    BY <1>1, <1>4
  <2>3. Numbered(queue, Count(delivered))' /\ Numbered(held, Count(delivered) + Count(queue))'
    BY <1>1, <1>4, <1>5, <2>2 DEF PumpInv, Numbers, Numbered
  <2>4. /\ \A i \in 1..Len(pipe) : pipe[i].n = Count(delivered) + Count(queue) + Count(held) + i
        /\ Count(delivered) + Count(queue) + Count(held) + Len(pipe) = produced
    BY DEF PumpInv, Numbers
  <2>. QED  BY <1>1, <1>5, <2>1, <2>2, <2>3, <2>4 DEF Numbers
<1>9. QueueBounded' /\ ReadsWithRoom' /\ SleepsInPlace'
  BY <1>1, <1>4
  DEF PumpInv, QueueBounded, Bytes, ReadsWithRoom, SleepsInPlace, NoLostWakeup
<1>. QED  BY <1>6, <1>7, <1>8, <1>9 DEF PumpInv

LEMMA PopMessageStep ==
    ASSUME PumpInv, UNCHANGED interruptible, Pop, Head(queue) # Error
    PROVE  PumpInv'
<1> DEFINE h == Head(queue)
           t == Tail(queue)
<1>1. /\ queue # << >> /\ queue' = t /\ queuedBytes' = queuedBytes - h.size
      /\ delivered' = Append(delivered, h)
      /\ asleep' = {} /\ consumer' = "use"
      /\ UNCHANGED <<pipe, writer, produced, reader, held, stop, ended>>
  BY DEF Pop, AfterPop, BytesAfterPop, channel
<1>2. /\ queue \in Seq(Results) /\ delivered \in Seq(Results) /\ queuedBytes \in Nat
      /\ \A i \in 1..(Len(queue) - 1) : queue[i] # Error
      /\ \A i \in 1..(Len(delivered) - 1) : delivered[i] # Error
  BY PumpTypes DEF PumpInv, ErrorIsKept
<1>3. /\ Len(queue) \in Nat \ {0} /\ h = queue[1]
      /\ t \in Seq(Results) /\ Len(t) = Len(queue) - 1
      /\ \A i \in 1..Len(t) : t[i] = queue[i + 1]
      /\ t = << >> <=> Len(queue) = 1
  <2>1. queue \in Seq(Results) /\ queue # << >>
    BY <1>1, <1>2
  <2>2. Len(queue) \in Nat \ {0}
    BY <2>1, LenProperties, EmptySeq
  <2>3. /\ h = queue[1] /\ t \in Seq(Results) /\ Len(t) = Len(queue) - 1
        /\ \A i \in 1..Len(t) : t[i] = queue[i + 1]
    BY <2>1, HeadTailProperties
  <2> HIDE DEF h, t
  <2>4. t = << >> <=> Len(t) = 0
    BY <2>3, EmptySeq
  <2>. QED  BY <2>2, <2>3, <2>4
<1>4. h # Error /\ h \in Results /\ h.size \in Nat
  BY <1>2, <1>3, ElementOfSeq, ResultSize
<1>5. Bytes(queue) = h.size + Bytes(t) /\ Bytes(t) \in Nat
  BY <1>1, <1>2, <1>3, OneResultLess, BytesAreCounted
<1> HIDE DEF h, t
<1>6. Len(queue) = 1 => ~Failed(queue)
  BY <1>3, <1>4 DEF Failed
<1>7. ~Failed(delivered)
  BY <1>6 DEF PumpInv, ErrorIsKept
<1>8. /\ delivered' \in Seq(Results) /\ ~Failed(delivered')
      /\ Len(delivered') = Len(delivered) + 1 /\ delivered'[Len(delivered) + 1] = h
      /\ Count(delivered') = Count(delivered) + 1
      /\ \A i \in 1..Len(delivered) : delivered'[i] = delivered[i]
      /\ \A i \in 1..(Len(delivered') - 1) : delivered'[i] # Error
  BY <1>1, <1>2, <1>4, <1>7, CountGrows
<1>9. Failed(t) <=> Failed(queue)
  <2>1. CASE Len(queue) = 1
    BY <1>3, <1>6, <2>1 DEF Failed
  <2>2. CASE Len(queue) # 1
    <3>1. Len(t) \in 1..Len(t) /\ t # << >>
      BY <1>3, <2>2
    <3>2. t[Len(t)] = queue[Len(queue)]
      BY <1>3, <3>1
    <3>. QED  BY <1>1, <3>1, <3>2 DEF Failed
  <2>. QED  BY <2>1, <2>2
<1>10. Count(t) = Count(queue) - 1 /\ Count(queue) \in Nat \ {0}
  BY <1>2, <1>3, <1>6, <1>9, CountIsBounded
<1>11. TypeOK'
  <2>1. queuedBytes' \in Nat
    BY <1>1, <1>2, <1>4, <1>5 DEF PumpInv, QueueBounded
  <2>. QED  BY <1>1, <1>3, <1>8, <2>1 DEF PumpInv, TypeOK, Results
<1>12. ErrorIsKept'
  <2>1. ASSUME NEW i \in 1..(Len(queue') - 1)  PROVE queue'[i] # Error
    <3>1. i + 1 \in 1..(Len(queue) - 1) /\ queue'[i] = queue[i + 1]
      BY <1>1, <1>3, <2>1
    <3>. QED  BY <1>2, <3>1
  <2>. QED  BY <1>1, <1>8, <1>9, <2>1 DEF PumpInv, ErrorIsKept
<1>13. Numbers'
  <2>1. /\ Numbered(delivered, 0) /\ Numbered(queue, Count(delivered))
        /\ Numbered(held, Count(delivered) + Count(queue))
        /\ \A i \in 1..Len(pipe) : pipe[i].n = Count(delivered) + Count(queue) + Count(held) + i
        /\ Count(delivered) + Count(queue) + Count(held) + Len(pipe) = produced
    BY DEF PumpInv, Numbers
  <2>2. Count(delivered) = Len(delivered) /\ Count(delivered) \in Nat
    BY <1>2, <1>7, CountIsBounded
  <2>3. Count(delivered') + Count(queue') = Count(delivered) + Count(queue)
        /\ Count(held') = Count(held)
    BY <1>1, <1>8, <1>10, <2>2
  <2>4. h.n = Count(delivered) + 1
    BY <1>3, <1>10, <2>1 DEF Numbered
  <2>5. Numbered(delivered', 0)
    <3>1. SUFFICES ASSUME NEW i \in 1..Count(delivered')  PROVE delivered'[i].n = 0 + i
      BY DEF Numbered
    <3>2. CASE i = Len(delivered) + 1
      BY <1>8, <2>2, <2>4, <3>2
    <3>3. CASE i # Len(delivered) + 1
      <4>1. i \in 1..Count(delivered) /\ delivered'[i] = delivered[i]
        BY <1>8, <2>2, <3>1, <3>3
      <4>. QED  BY <2>1, <4>1 DEF Numbered
    <3>. QED  BY <3>2, <3>3
  <2>6. Numbered(queue', Count(delivered'))
    <3>1. SUFFICES ASSUME NEW i \in 1..Count(t)  PROVE t[i].n = Count(delivered) + 1 + i
      BY <1>1, <1>8 DEF Numbered
    <3>2. i + 1 \in 1..Count(queue) /\ i \in 1..Len(t)
      BY <1>3, <1>10, <3>1, CountIsBounded
    <3>3. queue[i + 1].n = Count(delivered) + (i + 1)
      BY <2>1, <3>2 DEF Numbered
    <3>. QED  BY <1>3, <2>2, <3>2, <3>3
  <2>7. Numbered(held', Count(delivered') + Count(queue'))
    BY <1>1, <2>1, <2>3 DEF Numbered
  <2>. QED  BY <1>1, <2>1, <2>3, <2>5, <2>6, <2>7 DEF Numbers
<1>14. QueueBounded' /\ ReadsWithRoom'
  <2>1. queuedBytes' = Bytes(queue') /\ queuedBytes' <= queuedBytes /\ queuedBytes' \in Nat
    BY <1>1, <1>2, <1>4, <1>5 DEF PumpInv, QueueBounded
  <2>2. MaxQueued \in Nat /\ \A size \in Sizes : size \in Nat
    BY LimitsAssumption, SizesAssumption
  <2>. QED  BY <1>1, <1>2, <2>1, <2>2 DEF PumpInv, QueueBounded, ReadsWithRoom
<1>15. SleepsInPlace'
  BY <1>1 DEF SleepsInPlace, NoLostWakeup
<1>. QED  BY <1>11, <1>12, <1>13, <1>14, <1>15 DEF PumpInv

-----------------------------------------------------------------------------
\* The invariant holds, and with it the property.

LEMMA PumpInit == Init => PumpInv
<1> SUFFICES ASSUME Init  PROVE PumpInv
  OBVIOUS
<1>1. TypeOK
  <2>1. pipe \in Seq(Messages) /\ queue \in Seq(Results) /\ delivered \in Seq(Results)
    BY EmptySeq DEF Init
  <2>2. produced \in 0..MaxMessages /\ queuedBytes \in Nat
    BY LimitsAssumption DEF Init
  <2>3. /\ writer \in {"open", "closed"} /\ reader \in {"check", "read", "push", "done"}
        /\ stop \in BOOLEAN /\ ended \in BOOLEAN /\ asleep \subseteq {"reader", "consumer"}
        /\ consumer \in {"use", "pop", "closing", "gone"} /\ interruptible \in Platforms
    BY DEF Init
  <2>4. held = NoResult
    BY DEF Init
  <2>5. held \in {NoResult} \cup {<<m>> : m \in Messages \cup {Error}}
    BY <2>4, Zenon
  <2>. QED  BY <2>1, <2>2, <2>3, <2>5, Zenon DEF TypeOK, Results
<1>2. pipe = << >> /\ queue = NoResult /\ delivered = NoResult /\ held = NoResult
  BY DEF Init, NoResult
<1>3. /\ Count(queue) = 0 /\ Count(delivered) = 0 /\ Count(held) = 0
      /\ ~Failed(queue) /\ ~Failed(delivered)
      /\ Len(pipe) = 0 /\ Len(queue) = 0 /\ Len(delivered) = 0
  BY <1>2, NoResultHeld DEF NoResult
<1>4. ErrorIsKept /\ Numbers
  BY <1>3 DEF Init, ErrorIsKept, Numbers, Numbered
<1>5. QueueBounded
  <2>1. Bytes(queue) = 0
    BY <1>1, <1>2, PumpTypes, EmptyHasNoBytes DEF NoResult
  <2>. QED  BY <2>1, LimitsAssumption DEF Init, QueueBounded
<1>6. ReadsWithRoom /\ SleepsInPlace
  BY <1>2 DEF Init, ReadsWithRoom, SleepsInPlace, NoLostWakeup
<1>. QED  BY <1>1, <1>4, <1>5, <1>6 DEF PumpInv

LEMMA PumpStep == PumpInv /\ [Next]_vars => PumpInv'
<1> SUFFICES ASSUME PumpInv, [Next]_vars  PROVE PumpInv'
  OBVIOUS
<1>1. CASE UNCHANGED vars
  <2>1. Quiet /\ SleepsInPlace'
    BY <1>1
    DEF PumpInv, TypeOK, Quiet, SleepsInPlace, NoLostWakeup, HasRoom, vars, channel, shared
  <2>. QED  BY <2>1, QuietStep
<1>2. ASSUME UNCHANGED interruptible, NEW size \in Sizes, Send(size)  PROVE PumpInv'
  BY <1>2, SendStep
<1>3. ASSUME UNCHANGED interruptible,
             CloseWriter \/ ReaderSleeps \/ ReaderGoesOn \/ CallPop \/ PopSleeps \/ Close \/ Join
      PROVE  PumpInv'
  BY <1>3, QuietSteps
<1>4. ASSUME UNCHANGED interruptible, ReadMessage  PROVE PumpInv'
  BY <1>4, ReadStep
<1>5. ASSUME UNCHANGED interruptible, ReadFails \/ InterruptRead  PROVE PumpInv'
  BY <1>5, ErrorReadStep DEF ReadFails, InterruptRead
<1>6. ASSUME UNCHANGED interruptible, Push  PROVE PumpInv'
  BY <1>6, PushStep
<1>7. ASSUME UNCHANGED interruptible, Pop  PROVE PumpInv'
  BY <1>7, PopErrorStep, PopMessageStep
<1>. QED
  BY <1>1, <1>2, <1>3, <1>4, <1>5, <1>6, <1>7 DEF Next, ReaderStep, OwnerStep

\* The messages taken from the pipe, in order, and after them only the error.
LEMMA TakenInOrder ==
    ASSUME PumpInv
    PROVE  NothingLostNorReordered /\ ErrorComesLast
<1> DEFINE results == delivered \o queue
           taken == results \o held
           d == Len(delivered)
           q == Len(queue)
           read == Count(delivered) + Count(queue) + Count(held)
<1>1. queue \in Seq(Results) /\ delivered \in Seq(Results) /\ held \in Seq(Results)
  BY PumpTypes DEF PumpInv
<1>2. d \in Nat /\ q \in Nat /\ Len(held) \in Nat
  BY <1>1, LenProperties
<1>3. /\ results \in Seq(Results) /\ Len(results) = d + q
      /\ \A i \in 1..(d + q) : results[i] = IF i <= d THEN delivered[i] ELSE queue[i - d]
  BY <1>1, ConcatProperties
<1> HIDE DEF results
<1>4. /\ taken \in Seq(Results) /\ Len(taken) = d + q + Len(held)
      /\ \A i \in 1..(d + q) : taken[i] = results[i]
      /\ \A i \in 1..Len(held) : taken[d + q + i] = held[i]
  <2>1. \A i \in 1..(d + q + Len(held)) :
            taken[i] = IF i <= d + q THEN results[i] ELSE held[i - (d + q)]
    BY <1>1, <1>3, ConcatProperties
  <2>2. taken \in Seq(Results) /\ Len(taken) = Len(results) + Len(held)
    BY <1>1, <1>3, ConcatProperties
  <2> HIDE DEF taken, d, q
  <2>3. Len(taken) = d + q + Len(held)
    BY <1>3, <2>2
  <2>4. \A i \in 1..(d + q) : taken[i] = results[i]
    BY <1>2, <2>1
  <2>5. ASSUME NEW i \in 1..Len(held)  PROVE taken[d + q + i] = held[i]
    <3> DEFINE j == d + q + i
    <3>1. j \in 1..(d + q + Len(held)) /\ ~(j <= d + q) /\ j - (d + q) = i
      BY <1>2
    <3> HIDE DEF j
    <3>2. taken[j] = IF j <= d + q THEN results[j] ELSE held[j - (d + q)]
      BY <2>1, <3>1
    <3>3. taken[j] = held[i]
      BY <3>1, <3>2
    <3>. QED  BY <3>3 DEF j
  <2>6. \A i \in 1..Len(held) : taken[d + q + i] = held[i]
    BY <2>5
  <2>. QED  BY <2>2, <2>3, <2>4, <2>6, Zenon
<1> HIDE DEF taken
<1>5. /\ Numbered(delivered, 0) /\ Numbered(queue, Count(delivered))
      /\ Numbered(held, Count(delivered) + Count(queue))
      /\ \A i \in 1..Len(pipe) : pipe[i].n = read + i
      /\ read + Len(pipe) = produced
  BY DEF PumpInv, Numbers
<1>6. /\ \A i \in 1..(d - 1) : delivered[i] # Error
      /\ \A i \in 1..(q - 1) : queue[i] # Error
      /\ ended <=> Failed(queue)
      /\ Failed(delivered) => ended /\ q = 1
      /\ ended => held = NoResult
  BY DEF PumpInv, ErrorIsKept, ReadsWithRoom
<1>7. CASE ~ended
  <2>1. /\ Count(delivered) = d /\ Count(queue) = q /\ ~Failed(delivered) /\ ~Failed(queue)
        /\ Count(held) \in 0..Len(held)
    BY <1>1, <1>6, <1>7, CountIsBounded
  <2>2. \A i \in 1..d : delivered[i].n = i /\ delivered[i] # Error
    <3>1. ASSUME NEW i \in 1..d  PROVE delivered[i] # Error
      <4>1. CASE i = d
        BY <1>2, <2>1, <3>1, <4>1 DEF Failed
      <4>2. CASE i # d
        BY <1>2, <1>6, <3>1, <4>2
      <4>. QED  BY <4>1, <4>2
    <3>. QED  BY <1>5, <2>1, <3>1 DEF Numbered
  <2>3. \A i \in 1..q : queue[i].n = d + i /\ queue[i] # Error
    <3>1. ASSUME NEW i \in 1..q  PROVE queue[i] # Error
      <4>1. CASE i = q
        BY <1>2, <2>1, <3>1, <4>1 DEF Failed
      <4>2. CASE i # q
        BY <1>2, <1>6, <3>1, <4>2
      <4>. QED  BY <4>1, <4>2
    <3>. QED  BY <1>5, <2>1, <3>1 DEF Numbered
  <2>4. \A i \in 1..(d + q) : results[i].n = i /\ results[i] # Error
    <3>1. SUFFICES ASSUME NEW i \in 1..(d + q)
                   PROVE  results[i].n = i /\ results[i] # Error
      OBVIOUS
    <3> HIDE DEF d, q
    <3>2. CASE i <= d
      <4>1. i \in 1..d /\ results[i] = delivered[i]
        BY <1>2, <1>3, <3>1, <3>2
      <4>. QED  BY <2>2, <4>1
    <3>3. CASE i > d
      <4>1. i - d \in 1..q /\ results[i] = queue[i - d] /\ d + (i - d) = i
        BY <1>2, <1>3, <3>1, <3>3
      <4>. QED  BY <2>3, <4>1
    <3>. QED  BY <1>2, <3>1, <3>2, <3>3
  <2>5. ErrorComesLast
    <3>1. DOMAIN results = 1..(d + q)
      BY <1>3, LenProperties
    <3>. QED  BY <2>1, <2>4, <3>1 DEF ErrorComesLast, results, Failed
  <2>6. NothingLostNorReordered
    <3>1. read \in 0..Len(taken)
      BY <1>2, <1>4, <2>1
    <3>2. ASSUME NEW i \in 1..read  PROVE taken[i].n = i
      <4>1. CASE i <= d + q
        BY <1>2, <1>4, <2>4, <4>1
      <4>2. CASE i > d + q
        <5>1. i - (d + q) \in 1..Count(held) /\ i - (d + q) \in 1..Len(held)
          BY <1>2, <2>1, <3>2, <4>2
        <5>2. held[i - (d + q)].n = d + q + (i - (d + q))
          BY <1>5, <2>1, <5>1 DEF Numbered
        <5>3. taken[d + q + (i - (d + q))] = held[i - (d + q)]
          BY <1>4, <5>1
        <5>. QED  BY <1>2, <5>2, <5>3
      <4>. QED  BY <1>2, <4>1, <4>2
    <3>3. ASSUME NEW i \in (read + 1)..Len(taken)  PROVE taken[i] = Error
      <4>1. Len(held) = 1 /\ Count(held) = 0 /\ i = d + q + 1
        <5>1. PICK m \in Results : held = <<m>>
          <6>1. held # NoResult
            BY <1>2, <1>4, <2>1, <3>3 DEF NoResult
          <6>. QED  BY <6>1, PumpTypes DEF PumpInv
        <5>2. Len(held) = 1
          BY <5>1, OneResult
        <5>. QED  BY <1>2, <1>4, <2>1, <3>3, <5>2
      <4>2. Failed(held)
        <5>1. ~Failed(held) => Count(held) = Len(held)
          BY <1>1, CountIsBounded
        <5>. QED  BY <4>1, <5>1
      <4>3. taken[d + q + 1] = held[1]
        BY <1>4, <4>1
      <4>. QED  BY <4>1, <4>2, <4>3 DEF Failed
    <3>. QED  BY <1>5, <3>1, <3>2, <3>3 DEF NothingLostNorReordered, taken, results
  <2>. QED  BY <2>5, <2>6
<1>8. CASE ended
  <2>1. /\ Failed(queue) /\ Count(queue) = q - 1 /\ q # 0 /\ queue[q] = Error
        /\ held = NoResult /\ Count(held) = 0 /\ Len(held) = 0
    BY <1>1, <1>2, <1>6, <1>8, CountIsBounded, NoResultHeld DEF Failed, NoResult
  <2>2. \A i \in 1..(q - 1) : queue[i].n = Count(delivered) + i
    BY <1>5, <2>1 DEF Numbered
  <2>3. CASE Failed(delivered)
    <3>1. q = 1 /\ Count(delivered) = d - 1 /\ d # 0 /\ delivered[d] = Error /\ read = d - 1
      BY <1>1, <1>2, <1>6, <2>1, <2>3, CountIsBounded DEF Failed
    <3>2. \A i \in 1..(d - 1) : results[i].n = i /\ results[i] # Error
      BY <1>2, <1>3, <1>5, <1>6, <3>1 DEF Numbered
    <3>3. results[d] = Error /\ results[d + 1] = Error /\ Len(results) = d + 1
      BY <1>2, <1>3, <2>1, <3>1
    <3>4. ErrorComesLast
      <4>1. DOMAIN results = 1..(d + 1)
        BY <1>3, <3>3, LenProperties
      <4>2. \A i \in 1..(d + 1) : results[i] = Error <=> i >= d
        BY <1>2, <3>1, <3>2, <3>3
      <4>3. \A i, j \in DOMAIN results : i < j /\ results[i] = Error => results[j] = Error
        BY <1>2, <4>1, <4>2
      <4>4. queue = <<Error>>
        BY <1>1, <2>1, <3>1
      <4>. QED  BY <4>3, <4>4 DEF ErrorComesLast, results
    <3>5. NothingLostNorReordered
      <4>1. read \in 0..Len(taken) /\ Len(taken) = d + 1
        BY <1>2, <1>4, <2>1, <3>1
      <4>2. \A i \in 1..read : taken[i].n = i
        BY <1>2, <1>4, <3>1, <3>2
      <4>3. \A i \in (read + 1)..Len(taken) : taken[i] = Error
        BY <1>2, <1>4, <3>1, <3>3, <4>1
      <4>. QED  BY <1>5, <4>1, <4>2, <4>3 DEF NothingLostNorReordered, taken, results
    <3>. QED  BY <3>4, <3>5
  <2>4. CASE ~Failed(delivered)
    <3>1. Count(delivered) = d /\ read = d + q - 1
      BY <1>1, <1>2, <2>1, <2>4, CountIsBounded
    <3>2. \A i \in 1..d : delivered[i].n = i /\ delivered[i] # Error
      <4>1. ASSUME NEW i \in 1..d  PROVE delivered[i] # Error
        <5>1. CASE i = d
          BY <1>2, <2>4, <4>1, <5>1 DEF Failed
        <5>2. CASE i # d
          BY <1>2, <1>6, <4>1, <5>2
        <5>. QED  BY <5>1, <5>2
      <4>. QED  BY <1>5, <3>1, <4>1 DEF Numbered
    <3>3. \A i \in 1..(d + q - 1) : results[i].n = i /\ results[i] # Error
      <4>1. SUFFICES ASSUME NEW i \in 1..(d + q - 1)
                     PROVE  results[i].n = i /\ results[i] # Error
        OBVIOUS
      <4>2. Count(delivered) = d
        BY <3>1
      <4> HIDE DEF d, q
      <4>3. CASE i <= d
        <5>1. i \in 1..d /\ results[i] = delivered[i]
          BY <1>2, <1>3, <4>1, <4>3
        <5>. QED  BY <3>2, <5>1
      <4>4. CASE i > d
        <5>1. i - d \in 1..(q - 1) /\ results[i] = queue[i - d] /\ d + (i - d) = i
          BY <1>2, <1>3, <4>1, <4>4
        <5>. QED  BY <1>6, <2>2, <4>2, <5>1
      <4>. QED  BY <1>2, <4>1, <4>3, <4>4
    <3>4. results[d + q] = Error
      BY <1>2, <1>3, <2>1
    <3>5. ErrorComesLast
      <4>1. DOMAIN results = 1..(d + q)
        BY <1>3, LenProperties
      <4>2. \A i, j \in DOMAIN results : i < j /\ results[i] = Error => results[j] = Error
        BY <1>2, <3>3, <4>1
      <4>. QED  BY <2>4, <4>2 DEF ErrorComesLast, results, Failed
    <3>6. NothingLostNorReordered
      <4>1. read \in 0..Len(taken) /\ Len(taken) = d + q
        BY <1>2, <1>4, <2>1, <3>1
      <4>2. \A i \in 1..read : taken[i].n = i
        BY <1>2, <1>4, <3>1, <3>3
      <4>3. \A i \in (read + 1)..Len(taken) : taken[i] = Error
        BY <1>2, <1>4, <2>1, <3>1, <3>4, <4>1
      <4>. QED  BY <1>5, <4>1, <4>2, <4>3 DEF NothingLostNorReordered, taken, results
    <3>. QED  BY <3>5, <3>6
  <2>. QED  BY <2>3, <2>4
<1>. QED  BY <1>7, <1>8

\* Whatever the threads' order, the consumer of the pump gets every message that was
\* written, once and in order, the error after all of them (read_loop, pop); the queue keeps
\* its limit, and no notification is missed (changed_).
THEOREM FaithfulQueue == Spec => []QueueIsFaithful
<1>1. PumpInv => QueueIsFaithful
  BY TakenInOrder DEF PumpInv, SleepsInPlace, QueueIsFaithful
<1>. QED  BY <1>1, PumpInit, PumpStep, PTL DEF Spec

-----------------------------------------------------------------------------
\* The inductive invariant of the stream.

Exclusions == [producer : {Inspection}, of : Producers, first : Nat, last : Nat]
Facts == [producer : Producers, n : Nat] \cup Exclusions
Blocks == [producer : {Pcm}, n : Nat]
StreamMessages == [segment : Int, items : Seq(Facts \cup Blocks)]

Engines == [facts : [Producers -> Nat], reserved : SUBSET Producers, blocks : Seq(Int),
            mode : {"audible", "paused", "silent", "declaring", "stopped"}, segment : Nat]
Gates == [first : [Producers -> Nat], last : [Producers -> Nat], forwarded : Nat,
          hidden : SUBSET (Producers \X Nat), taken : SUBSET Exclusions]
Lanes == [queue : [Producers -> Seq(Nat)], occ : [Producers -> Int], pcm : Seq(Nat),
          losses : Nat]
Cursors == [who : {"worker", "session", "none"}, pc : {"scan", "take", "release", "pcm"},
            lane : 0..Slots, next : Nat, drain : 0..Slots, run : Nat]
Streams == [valid : BOOLEAN, facts : Seq(Facts), pending : Seq(Blocks), chunk : Int,
            starts : Seq(Nat), consumed : Nat, segment : Nat]

StreamTyped ==
    /\ engine \in Engines /\ gate \in Gates /\ lanes \in Lanes /\ cursor \in Cursors
    /\ stream \in Streams /\ sent \in Seq(StreamMessages)

\* Nothing was lost so far.
Clean == stream.valid /\ lanes.losses = 0

\* What reached the writer: sent, or kept by it.
Within(x, items) == \E i \in 1..Len(items) : items[i] = x
Passed(messages, w, x) == Holds(messages, x) \/ Within(x, w.facts) \/ Within(x, w.pending)

\* A source's numbers go on from what passed to what waits in its lane and to what is reserved;
\* none is missing but the silenced ones.
Line(passed, waiting, reserved, silenced, total) ==
    /\ passed \subseteq 1..total /\ silenced \subseteq 1..total
    /\ passed \cap silenced = {}
    /\ \A i \in 1..Len(waiting) :
        /\ waiting[i] \in 1..total /\ waiting[i] \notin silenced
        /\ \A n \in passed : n < waiting[i]
        /\ \A k \in 1..Len(waiting) : i < k => waiting[i] < waiting[k]
        /\ reserved => waiting[i] < total
    /\ reserved => /\ total # 0 /\ total \notin silenced
                   /\ \A n \in passed : n < total
    /\ \A n \in 1..total :
        n \in silenced \/ n \in passed \/ Within(n, waiting) \/ (reserved /\ n = total)

PassedOf(s) == {n \in Nat : Passed(sent, stream, Item(s, n))}
FactLine(p) ==
    Line(PassedOf(p), lanes.queue[p], p \in engine.reserved,
         {n \in 1..engine.facts[p] : <<p, n>> \in gate.hidden}, engine.facts[p])
PcmLine ==
    Line(PassedOf(Pcm), lanes.pcm, FALSE,
         {n \in 1..Len(engine.blocks) : engine.blocks[n] = NoSegment}, Len(engine.blocks))

\* The messages and what the writer keeps are in order.
Trace(messages, w) ==
    /\ MessagesInOrder(messages) /\ InOrder(w.facts) /\ InOrder(w.pending)
    /\ \A x : Holds(messages, x) => /\ \A k \in 1..Len(w.facts) : Before(x, w.facts[k])
                                   /\ \A k \in 1..Len(w.pending) : Before(x, w.pending[k])

\* The segment a message names is the one its blocks were played in.
SegmentsOf(messages, blocks) ==
    \A i \in 1..Len(messages) : \A j \in 1..Len(messages[i].items) :
        messages[i].items[j].producer = Pcm =>
            blocks[messages[i].items[j].n] = messages[i].segment
Segmented(messages, w, blocks) ==
    /\ SegmentsOf(messages, blocks)
    /\ \A k \in 1..Len(w.pending) : blocks[w.pending[k].n] = w.chunk

\* The segments still to start are those of the blocks that wait.
Waits(waiting, blocks, forwarded, played, starts, consumed, segment) ==
    /\ segment + Len(starts) = played /\ forwarded = consumed + Len(waiting)
    /\ \A j \in 1..Len(starts) : starts[j] <= forwarded
    /\ \A i \in 1..Len(waiting) :
        /\ blocks[waiting[i]] \in segment..played
        /\ \A j \in 1..Len(starts) : segment + j <= blocks[waiting[i]] <=> starts[j] < consumed + i
SegmentsWait ==
    Waits(lanes.pcm, engine.blocks, gate.forwarded, engine.segment,
          stream.starts, stream.consumed, stream.segment)

\* What is hidden is declared, about to be, or in the interval of its producer.
Declares(d, p, n) == d.of = p /\ d.first <= n /\ n <= d.last
GateKeeps ==
    /\ \A p \in Producers : gate.last[p] # 0 =>
        /\ engine.mode = "silent" /\ gate.last[p] = engine.facts[p]
        /\ 1 <= gate.first[p] /\ gate.first[p] <= gate.last[p]
    /\ gate.taken # {} => engine.mode = "declaring"
    /\ \A p \in Producers, n \in Nat : <<p, n>> \in gate.hidden => n \in 1..engine.facts[p]
ExclusionsKept ==
    \A p \in Producers, n \in Nat :
        <<p, n>> \in gate.hidden <=>
            \/ gate.last[p] # 0 /\ gate.first[p] <= n /\ n <= gate.last[p]
            \/ \E d \in Exclusions :
                    (d \in gate.taken \/ Passed(sent, stream, d)) /\ Declares(d, p, n)

\* How the consumer ends.
Ends ==
    /\ engine.mode = "stopped" <=> cursor.who # "worker"
    /\ engine.mode # "audible" => engine.reserved = {}
    /\ cursor.who # "worker" /\ cursor.pc = "pcm" =>
        \A p \in Producers : lanes.queue[p] = << >>
    /\ cursor.who = "none" =>
        /\ cursor.pc = "pcm" /\ lanes.pcm = << >>
        /\ stream.valid => stream.facts = << >> /\ stream.pending = << >>

\* As long as nothing was lost, what was observed is sent, kept or waiting, in its order, and
\* its segments and exclusions are the run's.
Lossless ==
    /\ \A p \in Producers : FactLine(p)
    /\ PcmLine /\ Trace(sent, stream) /\ Segmented(sent, stream, engine.blocks)
    /\ SegmentsWait /\ ExclusionsKept

StreamInv ==
    /\ StreamTyped /\ OccupancyIsExact /\ GateKeeps /\ Ends
    /\ Clean => Lossless

-----------------------------------------------------------------------------
\* Sequences of messages.

\* A message of the channel and its items, typed.
LEMMA MessageTypes ==
    ASSUME NEW M \in Seq(StreamMessages), NEW i \in 1..Len(M)
    PROVE  /\ M[i] \in StreamMessages /\ M[i].items \in Seq(Facts \cup Blocks)
           /\ Len(M[i].items) \in Nat
           /\ \A j \in 1..Len(M[i].items) : M[i].items[j] \in Facts \cup Blocks
<1>1. M[i] \in StreamMessages
  BY ElementOfSeq
<1>2. M[i].items \in Seq(Facts \cup Blocks)
  BY <1>1 DEF StreamMessages
<1>. QED  BY <1>1, <1>2, LenProperties, ElementOfSeq

\* Two sequences of messages, one after the other.
LEMMA JoinedMessages ==
    ASSUME NEW M \in Seq(StreamMessages), NEW N \in Seq(StreamMessages)
    PROVE  /\ M \o N \in Seq(StreamMessages) /\ Len(M) \in Nat /\ Len(N) \in Nat
           /\ Len(M \o N) = Len(M) + Len(N)
           /\ \A i \in 1..Len(M) : (M \o N)[i] = M[i]
           /\ \A i \in 1..Len(N) : (M \o N)[Len(M) + i] = N[i]
           /\ \A i \in 1..Len(M \o N) : i \notin 1..Len(M)
                         => i - Len(M) \in 1..Len(N) /\ (M \o N)[i] = N[i - Len(M)]
<1>1. Len(M) \in Nat /\ Len(N) \in Nat
  BY LenProperties
<1>. QED  BY <1>1, ConcatProperties

\* What the two hold together is what either holds.
LEMMA JoinedHold ==
    ASSUME NEW M \in Seq(StreamMessages), NEW N \in Seq(StreamMessages), NEW x
    PROVE  Holds(M \o N, x) <=> Holds(M, x) \/ Holds(N, x)
<1> DEFINE A == M \o N
<1>1. /\ Len(M) \in Nat /\ Len(N) \in Nat /\ Len(A) = Len(M) + Len(N)
      /\ \A i \in 1..Len(M) : A[i] = M[i]
      /\ \A i \in 1..Len(N) : A[Len(M) + i] = N[i]
      /\ \A i \in 1..Len(A) : i \notin 1..Len(M) => i - Len(M) \in 1..Len(N) /\ A[i] = N[i - Len(M)]
  BY JoinedMessages
<1> HIDE DEF A
<1>2. Holds(M, x) => Holds(A, x)
  <2>1. \A i \in 1..Len(M) : i \in 1..Len(A)
    BY <1>1
  <2>. QED  BY <1>1, <2>1 DEF Holds
<1>3. ASSUME Holds(N, x)  PROVE Holds(A, x)
  <2>1. PICK i \in 1..Len(N) : \E j \in 1..Len(N[i].items) : N[i].items[j] = x
    BY <1>3 DEF Holds
  <2>2. Len(M) + i \in 1..Len(A) /\ A[Len(M) + i] = N[i]
    BY <1>1, <2>1
  <2>. QED  BY <2>1, <2>2, Zenon DEF Holds
<1>4. ASSUME Holds(A, x)  PROVE Holds(M, x) \/ Holds(N, x)
  <2>1. PICK i \in 1..Len(A) : \E j \in 1..Len(A[i].items) : A[i].items[j] = x
    BY <1>4 DEF Holds
  <2>2. CASE i \in 1..Len(M)
    BY <1>1, <2>1, <2>2 DEF Holds
  <2>3. CASE i \notin 1..Len(M)
    <3>1. i - Len(M) \in 1..Len(N) /\ A[i] = N[i - Len(M)]
      BY <1>1, <2>3
    <3>. QED  BY <2>1, <3>1, Zenon DEF Holds
  <2>. QED  BY <2>2, <2>3
<1>. QED  BY <1>2, <1>3, <1>4 DEF A

\* The messages of one sequence come before those of another.
Precede(M, N) == \A x, y : Holds(M, x) /\ Holds(N, y) => Before(x, y)

\* They are in order when each is and the first comes before the second.
LEMMA JoinedInOrder ==
    ASSUME NEW M \in Seq(StreamMessages), NEW N \in Seq(StreamMessages),
           MessagesInOrder(M), MessagesInOrder(N), Precede(M, N)
    PROVE  MessagesInOrder(M \o N)
<1> DEFINE A == M \o N
<1>1. /\ Len(M) \in Nat /\ Len(N) \in Nat /\ Len(A) = Len(M) + Len(N)
      /\ \A i \in 1..Len(M) : A[i] = M[i]
      /\ \A i \in 1..Len(A) : i \notin 1..Len(M) => i - Len(M) \in 1..Len(N) /\ A[i] = N[i - Len(M)]
  BY JoinedMessages
<1> HIDE DEF A
<1>2. ASSUME NEW i \in 1..Len(A)  PROVE InOrder(A[i].items)
  <2>1. CASE i \in 1..Len(M)
    BY <1>1, <2>1 DEF MessagesInOrder
  <2>2. CASE i \notin 1..Len(M)
    <3>1. i - Len(M) \in 1..Len(N) /\ A[i] = N[i - Len(M)]
      BY <1>1, <2>2
    <3>. QED  BY <3>1 DEF MessagesInOrder
  <2>. QED  BY <2>1, <2>2
<1>3. ASSUME NEW i \in 1..Len(A), NEW k \in 1..Len(A), i < k,
             NEW j \in 1..Len(A[i].items), NEW l \in 1..Len(A[k].items)
      PROVE  Before(A[i].items[j], A[k].items[l])
  <2>1. CASE k \in 1..Len(M)
    <3>1. i \in 1..Len(M) /\ A[i] = M[i] /\ A[k] = M[k]
      BY <1>1, <1>3, <2>1
    <3>. QED  BY <1>3, <2>1, <3>1 DEF MessagesInOrder
  <2>2. CASE i \in 1..Len(M) /\ k \notin 1..Len(M)
    <3>1. A[i] = M[i] /\ k - Len(M) \in 1..Len(N) /\ A[k] = N[k - Len(M)]
      BY <1>1, <2>2
    <3>2. Holds(M, A[i].items[j]) /\ Holds(N, A[k].items[l])
      BY <2>2, <3>1, Zenon DEF Holds
    <3>. QED  BY <3>2 DEF Precede
  <2>3. CASE i \notin 1..Len(M)
    <3>1. i - Len(M) \in 1..Len(N) /\ A[i] = N[i - Len(M)]
      BY <1>1, <2>3
    <3>2. k \notin 1..Len(M)
      BY <1>1, <1>3, <2>3
    <3>3. k - Len(M) \in 1..Len(N) /\ A[k] = N[k - Len(M)]
      BY <1>1, <3>2
    <3>4. i - Len(M) < k - Len(M)
      BY <1>1, <1>3
    <3>. QED  BY <3>1, <3>3, <3>4 DEF MessagesInOrder
  <2>. QED  BY <2>1, <2>2, <2>3
<1>. QED  BY <1>2, <1>3 DEF MessagesInOrder, A

\* One message.
LEMMA OneMessage ==
    ASSUME NEW segment \in Int, NEW items \in Seq(Facts \cup Blocks)
    PROVE  LET M == <<Message(segment, items)>> IN
           /\ M \in Seq(StreamMessages) /\ Len(M) = 1
           /\ M[1].segment = segment /\ M[1].items = items
           /\ \A x : Holds(M, x) <=> Within(x, items)
           /\ MessagesInOrder(M) <=> InOrder(items)
<1> DEFINE m == Message(segment, items)
           M == <<m>>
<1>1. m \in StreamMessages /\ m.segment = segment /\ m.items = items
  BY DEF Message, StreamMessages
<1> HIDE DEF m
<1>2. M \in Seq(StreamMessages) /\ Len(M) = 1 /\ M[1] = m
  BY <1>1
<1> HIDE DEF M
<1>3. \A x : Holds(M, x) <=> Within(x, items)
  BY <1>1, <1>2 DEF Holds, Within
<1>4. MessagesInOrder(M) <=> InOrder(items)
  BY <1>1, <1>2 DEF MessagesInOrder
<1>. QED  BY <1>1, <1>2, <1>3, <1>4 DEF M, m

\* The segments they name stay right.
LEMMA JoinedSegments ==
    ASSUME NEW M \in Seq(StreamMessages), NEW N \in Seq(StreamMessages), NEW blocks,
           SegmentsOf(M, blocks), SegmentsOf(N, blocks)
    PROVE  SegmentsOf(M \o N, blocks)
<1> DEFINE A == M \o N
<1>1. /\ \A i \in 1..Len(M) : A[i] = M[i]
      /\ \A i \in 1..Len(A) : i \notin 1..Len(M) => i - Len(M) \in 1..Len(N) /\ A[i] = N[i - Len(M)]
  BY JoinedMessages
<1> HIDE DEF A
<1>2. ASSUME NEW i \in 1..Len(A), NEW j \in 1..Len(A[i].items), A[i].items[j].producer = Pcm
      PROVE  blocks[A[i].items[j].n] = A[i].segment
  <2>1. CASE i \in 1..Len(M)
    BY <1>1, <1>2, <2>1, Zenon DEF SegmentsOf
  <2>2. CASE i \notin 1..Len(M)
    <3>1. i - Len(M) \in 1..Len(N) /\ A[i] = N[i - Len(M)]
      BY <1>1, <2>2
    <3>. QED  BY <1>2, <3>1, Zenon DEF SegmentsOf
  <2>. QED  BY <2>1, <2>2
<1>. QED  BY <1>2 DEF A, SegmentsOf

\* The empty sequence holds nothing, in order.
LEMMA NoMessage ==
    /\ << >> \in Seq(StreamMessages)
    /\ \A x : ~Holds(<< >>, x)
    /\ MessagesInOrder(<< >>)
    /\ \A M : Precede(M, << >>) /\ Precede(<< >>, M)
BY DEF Holds, MessagesInOrder, Precede

-----------------------------------------------------------------------------
\* Batches: the facts of a batch are sent once each and in their order.

\* At least one fact fits in a message, and never more than are left.
LEMMA FittingFits ==
    ASSUME NEW n \in Nat \ {0}
    PROVE  Fitting(n) \in 1..n
<1> DEFINE C == {c \in Halves(n) : c > 0 /\ c <= MessageFacts}
           D == {n - c : c \in C}
<1>1. \A d \in {1, 2, 4, 8, 16, 32, 64, 128, 256} : n \div d \in 0..n
  <2>1. /\ n \div 1 \in 0..n /\ n \div 2 \in 0..n /\ n \div 4 \in 0..n /\ n \div 8 \in 0..n
        /\ n \div 16 \in 0..n /\ n \div 32 \in 0..n /\ n \div 64 \in 0..n
        /\ n \div 128 \in 0..n /\ n \div 256 \in 0..n
    OBVIOUS
  <2>. QED  BY <2>1
<1>2. C \subseteq 1..n
  BY <1>1 DEF Halves
<1>3. 1 \in C
  <2>1. MessageFacts \in Nat \ {0}
    BY StreamAssumption
  <2>. QED  BY <2>1 DEF Halves
<1> HIDE DEF C
<1>4. D \subseteq Nat /\ D # {}
  BY <1>2, <1>3
<1>5. PICK m \in D : \A k \in D : m <= k
  BY <1>4, LeastNumber
<1>6. PICK c \in C : m = n - c
  BY <1>5
<1>7. \A y \in C : c >= y
  BY <1>2, <1>5, <1>6
<1>8. Fitting(n) = CHOOSE x \in C : \A y \in C : x >= y
  BY DEF Fitting, Max, C
<1>9. Fitting(n) \in C
  BY <1>6, <1>7, <1>8
<1>. QED  BY <1>2, <1>9

\* The last k facts as messages.
Batched(facts, k, messages) ==
    /\ messages \in Seq(StreamMessages)
    /\ \A x : Holds(messages, x) <=> \E i \in (Len(facts) - k + 1)..Len(facts) : facts[i] = x
    /\ InOrder(facts) => MessagesInOrder(messages)
    /\ \A i \in 1..Len(messages) : messages[i].segment = NoSegment

\* The first part of what is left makes one message more.
LEMMA OneMoreBatch ==
    ASSUME NEW facts \in Seq(Facts), NEW k \in 1..Len(facts), NEW c \in 1..k,
           NEW N, Batched(facts, k - c, N)
    PROVE  Batched(facts, k,
                   <<Message(NoSegment,
                             SubSeq(facts, Len(facts) - k + 1, Len(facts) - k + c))>> \o N)
<1> DEFINE a == Len(facts) - k
           items == SubSeq(facts, Len(facts) - k + 1, Len(facts) - k + c)
           M == <<Message(NoSegment, items)>>
<1>1. /\ Len(facts) \in Nat /\ a \in Nat /\ k \in Nat /\ c \in Nat /\ c <= k /\ 1 <= c
      /\ a + k = Len(facts)
  BY LenProperties
<1>2. /\ items \in Seq(Facts) /\ Len(items) = c
      /\ \A i \in 1..c : items[i] = facts[a + i]
  <2>1. \A i \in (a + 1)..(a + c) : facts[i] \in Facts
    BY <1>1, ElementOfSeq
  <2>2. a + 1 \in 1..(Len(facts) + 1) /\ a + c \in 0..Len(facts)
    BY <1>1
  <2>. QED  BY <1>1, <2>1, <2>2, SubSeqProperties
<1> HIDE DEF items
<1>3. items \in Seq(Facts \cup Blocks)
  BY <1>2, SeqMonotonic
<1>4. NoSegment \in Int
  BY DEF NoSegment
<1>5. /\ M \in Seq(StreamMessages) /\ Len(M) = 1
      /\ M[1].segment = NoSegment /\ M[1].items = items
      /\ \A x : Holds(M, x) <=> Within(x, items)
      /\ MessagesInOrder(M) <=> InOrder(items)
  BY <1>3, <1>4, OneMessage
<1> HIDE DEF M
<1>6. N \in Seq(StreamMessages)
  BY DEF Batched
<1>7. \A x : Holds(M \o N, x) <=> Holds(M, x) \/ Holds(N, x)
  BY <1>5, <1>6, JoinedHold
<1>8. ASSUME NEW x
      PROVE  Holds(M \o N, x) <=> \E i \in (a + 1)..Len(facts) : facts[i] = x
  <2>1. Holds(N, x) <=> \E i \in (a + c + 1)..Len(facts) : facts[i] = x
    <3>1. Len(facts) - (k - c) + 1 = a + c + 1
      BY <1>1
    <3>. QED  BY <3>1 DEF Batched
  <2>2. Holds(M, x) <=> \E i \in (a + 1)..(a + c) : facts[i] = x
    <3>1. Holds(M, x) <=> \E i \in 1..c : facts[a + i] = x
      <4>1. Holds(M, x) <=> \E i \in 1..c : items[i] = x
        BY <1>2, <1>5 DEF Within
      <4>. QED  BY <1>2, <4>1
    <3>2. \A i \in 1..c : a + i \in (a + 1)..(a + c)
      BY <1>1
    <3>3. \A i \in (a + 1)..(a + c) : i - a \in 1..c /\ a + (i - a) = i
      BY <1>1
    <3>. QED  BY <3>1, <3>2, <3>3
  <2>3. \A i : i \in (a + 1)..Len(facts) <=> i \in (a + 1)..(a + c) \/ i \in (a + c + 1)..Len(facts)
    BY <1>1
  <2>. QED  BY <1>7, <2>1, <2>2, <2>3
<1>9. ASSUME InOrder(facts)
      PROVE  MessagesInOrder(M \o N)
  <2>1. InOrder(items)
    <3>1. \A j \in 1..c : a + j \in 1..Len(facts)
      BY <1>1
    <3>2. \A j, l \in 1..c : j < l => a + j < a + l
      BY <1>1
    <3>. QED  BY <1>2, <1>9, <3>1, <3>2 DEF InOrder
  <2>0. ASSUME NEW j \in 1..c, NEW i \in (a + c + 1)..Len(facts)
        PROVE  Before(items[j], facts[i])
    <3>1. a + j \in 1..Len(facts) /\ i \in 1..Len(facts) /\ a + j < i
      BY <1>1
    <3>. QED  BY <1>2, <1>9, <3>1 DEF InOrder
  <2>2. MessagesInOrder(N)
    BY <1>9 DEF Batched
  <2>3. Precede(M, N)
    <3>1. SUFFICES ASSUME NEW x, NEW y, Holds(M, x), Holds(N, y)  PROVE Before(x, y)
      BY DEF Precede
    <3>2. Len(facts) - (k - c) + 1 = a + c + 1
      BY <1>1
    <3>3. PICK i \in (a + c + 1)..Len(facts) : facts[i] = y
      BY <3>1, <3>2 DEF Batched
    <3>4. PICK j \in 1..c : items[j] = x
      BY <1>2, <1>5, <3>1 DEF Within
    <3>. QED  BY <2>0, <3>3, <3>4
  <2>. QED  BY <1>5, <1>6, <2>1, <2>2, <2>3, JoinedInOrder
<1>10. ASSUME NEW i \in 1..Len(M \o N)
       PROVE  (M \o N)[i].segment = NoSegment
  <2>1. i \in 1..Len(M) => (M \o N)[i] = M[i] /\ i = 1
    <3>1. \A l \in 1..Len(M) : (M \o N)[l] = M[l]
      BY <1>5, <1>6, JoinedMessages
    <3>2. \A l \in 1..Len(M) : l = 1
      BY <1>5
    <3>. QED  BY <3>1, <3>2, Zenon
  <2>2. i \notin 1..Len(M) => i - Len(M) \in 1..Len(N) /\ (M \o N)[i] = N[i - Len(M)]
    BY <1>5, <1>6, JoinedMessages
  <2>. QED  BY <1>5, <2>1, <2>2 DEF Batched
<1>11. M \o N \in Seq(StreamMessages)
  BY <1>5, <1>6, JoinedMessages
<1>. QED  BY <1>8, <1>9, <1>10, <1>11 DEF Batched, M, items

\* The messages of the last k facts, from those of fewer.
FirstBatch(facts, k) ==
    Message(NoSegment, SubSeq(facts, Len(facts) - k + 1, Len(facts) - k + Fitting(k)))
Cut(facts, f, upto) ==
    /\ DOMAIN f = 0..upto /\ f[0] = << >>
    /\ \A k \in 1..upto : f[k] = <<FirstBatch(facts, k)>> \o f[k - Fitting(k)]

\* A function that cuts the last k facts of a batch, for every k up to a number.
LEMMA CutExists ==
    ASSUME NEW facts \in Seq(Facts)
    PROVE  \E f : Cut(facts, f, Len(facts))
<1> DEFINE Upto(n) == \E f : Cut(facts, f, n)
           missing == {n \in 0..Len(facts) : ~Upto(n)}
<1>1. Len(facts) \in Nat
  BY LenProperties
<1>2. Upto(0)
  <2> DEFINE f == [i \in 0..0 |-> << >>]
  <2>1. DOMAIN f = 0..0 /\ f[0] = << >>
    OBVIOUS
  <2> HIDE DEF f
  <2>2. \A k \in 1..0 : FALSE
    OBVIOUS
  <2>. QED  BY <2>1, <2>2 DEF Cut
<1>3. ASSUME NEW n \in 1..Len(facts), Upto(n - 1)
      PROVE  Upto(n)
  <2>1. PICK f : Cut(facts, f, n - 1)
    BY <1>3
  <2> DEFINE g == [i \in 0..n |-> IF i < n THEN f[i]
                                  ELSE <<FirstBatch(facts, n)>> \o f[n - Fitting(n)]]
  <2>2. DOMAIN g = 0..n /\ g[0] = << >> /\ \A i \in 0..(n - 1) : g[i] = f[i]
    BY <1>1, <2>1 DEF Cut
  <2>3. g[n] = <<FirstBatch(facts, n)>> \o f[n - Fitting(n)]
    BY <1>1
  <2> HIDE DEF g
  <2>4. ASSUME NEW k \in 1..n
        PROVE  g[k] = <<FirstBatch(facts, k)>> \o g[k - Fitting(k)]
    <3>1. Fitting(k) \in 1..k
      BY <1>1, FittingFits
    <3>2. k - Fitting(k) \in 0..(n - 1)
      BY <1>1, <3>1
    <3>3. CASE k < n
      <4>1. k \in 1..(n - 1) /\ k \in 0..(n - 1)
        BY <1>1, <3>3
      <4>. QED  BY <2>1, <2>2, <3>2, <4>1 DEF Cut
    <3>4. CASE k = n
      BY <2>2, <2>3, <3>2, <3>4
    <3>. QED  BY <1>1, <3>3, <3>4
  <2>. QED  BY <2>2, <2>4 DEF Cut
<1> HIDE DEF Upto
<1>4. missing = {}
  <2>1. SUFFICES ASSUME missing # {}  PROVE FALSE
    OBVIOUS
  <2>2. missing \subseteq Nat
    BY <1>1
  <2>3. PICK n \in missing : \A m \in missing : n <= m
    BY <2>1, <2>2, LeastNumber
  <2>4. n \in 1..Len(facts) /\ n - 1 \in 0..Len(facts)
    BY <1>1, <1>2, <2>3
  <2>5. n - 1 \notin missing
    BY <1>1, <2>3, <2>4
  <2>. QED  BY <1>3, <2>3, <2>4, <2>5
<1>5. Upto(Len(facts))
  BY <1>1, <1>4
<1>. QED  BY <1>5 DEF Upto

\* Batches holds every fact of the batch, in order.
LEMMA BatchesSendAll ==
    ASSUME NEW facts \in Seq(Facts)
    PROVE  Batched(facts, Len(facts), Batches(facts))
<1> DEFINE size == Len(facts)
           Equation(g) == [k \in 0..size |->
               IF k = 0 THEN << >>
               ELSE <<Message(NoSegment, SubSeq(facts, size - k + 1, size - k + Fitting(k)))>>
                    \o g[k - Fitting(k)]]
           c == CHOOSE g : g = Equation(g)
           bad == {k \in 0..size : ~Batched(facts, k, c[k])}
<1>1. size \in Nat
  BY LenProperties
<1>2. PICK f : Cut(facts, f, size)
  BY CutExists
<1> DEFINE h == [k \in 0..size |-> f[k]]
<1>3. h = Equation(h)
  <2>1. ASSUME NEW k \in 0..size
        PROVE  h[k] = IF k = 0 THEN << >> ELSE <<FirstBatch(facts, k)>> \o h[k - Fitting(k)]
    <3>1. CASE k = 0
      BY <1>1, <1>2, <3>1 DEF Cut
    <3>2. CASE k # 0
      <4>1. k \in 1..size /\ Fitting(k) \in 1..k
        BY <1>1, <3>2, FittingFits
      <4>2. k - Fitting(k) \in 0..size
        BY <1>1, <4>1
      <4>3. h[k] = f[k] /\ h[k - Fitting(k)] = f[k - Fitting(k)]
        BY <4>2
      <4>. QED  BY <1>2, <3>2, <4>1, <4>3 DEF Cut
    <3>. QED  BY <3>1, <3>2
  <2>2. h = [k \in 0..size |-> h[k]]
    OBVIOUS
  <2> HIDE DEF h
  <2>. QED  BY <2>1, <2>2 DEF FirstBatch
<1> HIDE DEF h
<1>4. c = Equation(c)
  <2> HIDE DEF Equation
  <2>1. \E g : g = Equation(g)
    BY <1>3
  <2>. QED  BY <2>1, Zenon
<1>5. Batches(facts) = c[size]
  BY DEF Batches
<1> HIDE DEF c
<1>6. \A k \in 0..size :
        c[k] = IF k = 0 THEN << >> ELSE <<FirstBatch(facts, k)>> \o c[k - Fitting(k)]
  BY <1>4 DEF FirstBatch
<1>7. c[0] = << >> /\ \A k \in 1..size : c[k] = <<FirstBatch(facts, k)>> \o c[k - Fitting(k)]
  <2>1. 0 \in 0..size /\ \A k \in 1..size : k \in 0..size /\ k # 0
    BY <1>1
  <2>. QED  BY <1>6, <2>1, Zenon
<1>8. Batched(facts, 0, c[0])
  <2>1. \A x : ~(\E i \in (size - 0 + 1)..size : facts[i] = x)
    BY <1>1
  <2>. QED  BY <1>7, <2>1, NoMessage DEF Batched
<1>9. bad = {}
  <2>1. SUFFICES ASSUME bad # {}  PROVE FALSE
    OBVIOUS
  <2>2. bad \subseteq Nat
    BY <1>1
  <2>3. PICK k \in bad : \A m \in bad : k <= m
    BY <2>1, <2>2, LeastNumber
  <2>4. k \in 1..size
    BY <1>1, <1>8, <2>3
  <2>5. Fitting(k) \in 1..k
    BY <1>1, <2>4, FittingFits
  <2>6. k - Fitting(k) \in 0..size /\ k - Fitting(k) < k
    BY <1>1, <2>4, <2>5
  <2>7. Batched(facts, k - Fitting(k), c[k - Fitting(k)])
    BY <1>1, <2>3, <2>4, <2>6
  <2>8. Batched(facts, k, c[k])
    BY <1>7, <2>4, <2>5, <2>7, OneMoreBatch DEF FirstBatch
  <2>. QED  BY <2>3, <2>8
<1>. QED  BY <1>1, <1>5, <1>9

-----------------------------------------------------------------------------
\* The writer: what it sends and what it keeps.

\* The kinds of items are told apart by their producer.
LEMMA Kinds ==
    /\ \A f \in Facts : f.producer # Pcm /\ (f.producer \in Sources => f.producer \in Producers)
    /\ \A b \in Blocks : b.producer = Pcm
    /\ Pcm \in Sources /\ Pcm \notin Producers
    /\ \A f \in Facts, b \in Blocks : f # b /\ Before(f, b) /\ Before(b, f)
<1>1. Slots \in Nat \ {0} /\ Pcm = -2 /\ Inspection = -1
  BY StreamAssumption DEF Pcm, Inspection
<1>2. Producers \subseteq Nat
  BY <1>1 DEF Producers
<1>3. \A f \in Facts : f.producer \in Producers \cup {Inspection}
  BY DEF Facts, Exclusions
<1>4. \A b \in Blocks : b.producer = Pcm
  BY DEF Blocks
<1>5. Pcm \notin Producers /\ Inspection \notin Sources /\ Pcm # Inspection
  BY <1>1, <1>2 DEF Sources
<1>. QED  BY <1>3, <1>4, <1>5 DEF Sources, Before

\* The writer's fields, typed.
LEMMA StreamFields ==
    ASSUME NEW w \in Streams
    PROVE  /\ w.facts \in Seq(Facts) /\ w.pending \in Seq(Blocks)
           /\ w.starts \in Seq(Nat) /\ w.chunk \in Int /\ w.consumed \in Nat /\ w.segment \in Nat
           /\ Len(w.facts) \in Nat /\ Len(w.pending) \in Nat /\ Len(w.starts) \in Nat
           /\ \A i \in 1..Len(w.facts) : w.facts[i] \in Facts
           /\ \A i \in 1..Len(w.pending) : w.pending[i] \in Blocks
           /\ \A i \in 1..Len(w.starts) : w.starts[i] \in Nat
<1>1. w.facts \in Seq(Facts) /\ w.pending \in Seq(Blocks) /\ w.starts \in Seq(Nat)
      /\ w.chunk \in Int /\ w.consumed \in Nat /\ w.segment \in Nat
  BY DEF Streams
<1>. QED  BY <1>1, LenProperties, ElementOfSeq

\* The facts kept are sent, before any that follow.
LEMMA FactsAreSent ==
    ASSUME NEW M \in Seq(StreamMessages), NEW w \in Streams, NEW v \in Streams, NEW blocks,
           v.facts = << >>, v.pending = w.pending, v.chunk = w.chunk,
           Trace(M, w), Segmented(M, w, blocks)
    PROVE  LET A == M \o Batches(w.facts) IN
           /\ A \in Seq(StreamMessages) /\ Trace(A, v) /\ Segmented(A, v, blocks)
           /\ \A x : Passed(A, v, x) <=> Passed(M, w, x)
<1> DEFINE B == Batches(w.facts)
           A == M \o B
<1>0. Batched(w.facts, Len(w.facts), B)
  BY StreamFields, BatchesSendAll
<1> HIDE DEF B
<1>1. /\ B \in Seq(StreamMessages) /\ \A x : Holds(B, x) <=> Within(x, w.facts)
      /\ InOrder(w.facts) => MessagesInOrder(B)
      /\ \A i \in 1..Len(B) : B[i].segment = NoSegment
  <2>1. Len(w.facts) - Len(w.facts) + 1 = 1
    BY StreamFields
  <2>. QED  BY <1>0, <2>1 DEF Batched, Within
<1>2. A \in Seq(StreamMessages) /\ \A x : Holds(A, x) <=> Holds(M, x) \/ Holds(B, x)
  BY <1>1, JoinedMessages, JoinedHold
<1>3. MessagesInOrder(A)
  <2>1. Precede(M, B)
    BY <1>1 DEF Precede, Trace, Within
  <2>. QED  BY <1>1, <2>1, JoinedInOrder DEF Trace
<1>4. SegmentsOf(A, blocks)
  <2>1. ASSUME NEW i \in 1..Len(B), NEW j \in 1..Len(B[i].items)
        PROVE  B[i].items[j].producer # Pcm
    <3>1. Holds(B, B[i].items[j])
      BY Zenon DEF Holds
    <3>2. PICK k \in 1..Len(w.facts) : w.facts[k] = B[i].items[j]
      BY <1>1, <3>1 DEF Within
    <3>. QED  BY <3>2, StreamFields, Kinds
  <2>2. SegmentsOf(B, blocks)
    BY <2>1, Zenon DEF SegmentsOf
  <2>. QED  BY <1>1, <2>2, JoinedSegments DEF Segmented
<1> HIDE DEF A
<1>5. \A x : ~Within(x, v.facts)
  BY DEF Within
<1>6. \A x : Passed(A, v, x) <=> Passed(M, w, x)
  BY <1>1, <1>2, <1>5 DEF Passed
<1>7. Trace(A, v)
  <2>1. InOrder(v.facts) /\ InOrder(v.pending)
    BY DEF Trace, InOrder
  <2>2. ASSUME NEW x, Holds(A, x), NEW k \in 1..Len(v.pending)
        PROVE  Before(x, v.pending[k])
    <3>1. CASE Holds(M, x)
      BY <2>2, <3>1 DEF Trace
    <3>2. CASE Within(x, w.facts)
      BY <3>2, StreamFields, Kinds DEF Within
    <3>. QED  BY <1>1, <1>2, <2>2, <3>1, <3>2
  <2>3. \A k \in 1..Len(v.facts) : FALSE
    OBVIOUS
  <2>. QED  BY <1>3, <2>1, <2>2, <2>3 DEF Trace
<1>8. Segmented(A, v, blocks)
  BY <1>4 DEF Segmented
<1>. QED  BY <1>2, <1>6, <1>7, <1>8 DEF A, B

\* So is the PCM that waits.
LEMMA PcmIsSent ==
    ASSUME NEW M \in Seq(StreamMessages), NEW w \in Streams, NEW v \in Streams, NEW blocks,
           v.facts = w.facts, v.pending = << >>, Trace(M, w), Segmented(M, w, blocks)
    PROVE  LET A == M \o PcmMessage(w) IN
           /\ A \in Seq(StreamMessages) /\ Trace(A, v) /\ Segmented(A, v, blocks)
           /\ \A x : Passed(A, v, x) <=> Passed(M, w, x)
<1> DEFINE B == PcmMessage(w)
           A == M \o B
<1>1. /\ B \in Seq(StreamMessages) /\ \A x : Holds(B, x) <=> Within(x, w.pending)
      /\ MessagesInOrder(B) /\ SegmentsOf(B, blocks)
  <2>1. CASE w.pending = << >>
    <3>1. B = << >> /\ \A x : ~Within(x, w.pending)
      BY <2>1 DEF PcmMessage, Within
    <3>2. SegmentsOf(<< >>, blocks)
      BY DEF SegmentsOf
    <3>. QED  BY <3>1, <3>2, NoMessage
  <2>2. CASE w.pending # << >>
    <3>1. B = <<Message(w.chunk, w.pending)>>
      BY <2>2 DEF PcmMessage
    <3>2. w.pending \in Seq(Facts \cup Blocks) /\ w.chunk \in Int
      BY StreamFields, SeqMonotonic
    <3> HIDE DEF B
    <3>3. /\ B \in Seq(StreamMessages) /\ Len(B) = 1
          /\ B[1].segment = w.chunk /\ B[1].items = w.pending
          /\ \A x : Holds(B, x) <=> Within(x, w.pending)
          /\ MessagesInOrder(B) <=> InOrder(w.pending)
      BY <3>1, <3>2, OneMessage
    <3>4. \A i \in 1..Len(B) : i = 1
      BY <3>3
    <3>5. SegmentsOf(B, blocks)
      BY <3>3, <3>4 DEF Segmented, SegmentsOf
    <3>. QED  BY <3>3, <3>5 DEF Trace
  <2>. QED  BY <2>1, <2>2
<1> HIDE DEF B
<1>2. A \in Seq(StreamMessages) /\ \A x : Holds(A, x) <=> Holds(M, x) \/ Holds(B, x)
  BY <1>1, JoinedMessages, JoinedHold
<1>3. MessagesInOrder(A)
  <2>1. Precede(M, B)
    BY <1>1 DEF Precede, Trace, Within
  <2>. QED  BY <1>1, <2>1, JoinedInOrder DEF Trace
<1>4. SegmentsOf(A, blocks)
  BY <1>1, JoinedSegments DEF Segmented
<1> HIDE DEF A
<1>5. \A x : ~Within(x, v.pending)
  BY DEF Within
<1>6. \A x : Passed(A, v, x) <=> Passed(M, w, x)
  BY <1>1, <1>2, <1>5 DEF Passed
<1>7. Trace(A, v)
  <2>1. InOrder(v.facts) /\ InOrder(v.pending)
    BY DEF Trace, InOrder
  <2>2. ASSUME NEW x, Holds(A, x), NEW k \in 1..Len(v.facts)
        PROVE  Before(x, v.facts[k])
    <3>1. CASE Holds(M, x)
      BY <2>2, <3>1 DEF Trace
    <3>2. CASE Within(x, w.pending)
      BY <3>2, StreamFields, Kinds DEF Within
    <3>. QED  BY <1>1, <1>2, <2>2, <3>1, <3>2
  <2>3. \A k \in 1..Len(v.pending) : FALSE
    OBVIOUS
  <2>. QED  BY <1>3, <2>1, <2>2, <2>3 DEF Trace
<1>8. Segmented(A, v, blocks)
  BY <1>4 DEF Segmented
<1>. QED  BY <1>2, <1>6, <1>7, <1>8 DEF A, B

\* One item more at the end of a sequence.
LEMMA OneMoreItem ==
    ASSUME NEW S, NEW s \in Seq(S), NEW item \in S
    PROVE  /\ \A x : Within(x, Append(s, item)) <=> Within(x, s) \/ x = item
           /\ Len(Append(s, item)) = Len(s) + 1 /\ Append(s, item)[Len(s) + 1] = item
           /\ \A i \in 1..Len(s) : Append(s, item)[i] = s[i]
           /\ \A i \in 1..(Len(s) + 1) : i \in 1..Len(s) \/ i = Len(s) + 1
           /\ InOrder(s) /\ (\A x : Within(x, s) => Before(x, item)) => InOrder(Append(s, item))
<1> DEFINE t == Append(s, item)
<1>1. Len(s) \in Nat /\ Len(t) = Len(s) + 1 /\ t[Len(s) + 1] = item
      /\ \A i \in 1..Len(s) : t[i] = s[i]
  BY AppendProperties, LenProperties
<1> HIDE DEF t
<1>2. \A i \in 1..(Len(s) + 1) : i \in 1..Len(s) \/ i = Len(s) + 1
  BY <1>1
<1>3. \A i \in 1..Len(s) : i \in 1..(Len(s) + 1)
  BY <1>1
<1>4. Len(s) + 1 \in 1..(Len(s) + 1)
  BY <1>1
<1>5. \A x : Within(x, t) <=> Within(x, s) \/ x = item
  BY <1>1, <1>2, <1>3, <1>4 DEF Within
<1>6. ASSUME InOrder(s), \A x : Within(x, s) => Before(x, item)  PROVE InOrder(t)
  <2>1. SUFFICES ASSUME NEW j \in 1..Len(t), NEW l \in 1..Len(t), j < l
                 PROVE  Before(t[j], t[l])
    BY DEF InOrder
  <2>2. j \in 1..Len(s)
    BY <1>1, <2>1
  <2>3. Within(t[j], s) /\ t[j] = s[j]
    BY <1>1, <2>2 DEF Within
  <2>. QED  BY <1>1, <1>2, <1>6, <2>1, <2>2, <2>3 DEF InOrder
<1>. QED  BY <1>1, <1>2, <1>5, <1>6 DEF t

\* A fact kept after what passed before it.
LEMMA FactIsKept ==
    ASSUME NEW M, NEW w \in Streams, NEW v \in Streams, NEW blocks, NEW fact \in Facts,
           v.facts = Append(w.facts, fact), v.pending = w.pending, v.chunk = w.chunk,
           Trace(M, w), Segmented(M, w, blocks), \A x : Passed(M, w, x) => Before(x, fact)
    PROVE  /\ Trace(M, v) /\ Segmented(M, v, blocks)
           /\ \A x : Passed(M, v, x) <=> Passed(M, w, x) \/ x = fact
<1>1. /\ \A x : Within(x, v.facts) <=> Within(x, w.facts) \/ x = fact
      /\ Len(v.facts) = Len(w.facts) + 1 /\ v.facts[Len(w.facts) + 1] = fact
      /\ \A i \in 1..Len(w.facts) : v.facts[i] = w.facts[i]
      /\ \A i \in 1..(Len(w.facts) + 1) : i \in 1..Len(w.facts) \/ i = Len(w.facts) + 1
      /\ InOrder(w.facts) /\ (\A x : Within(x, w.facts) => Before(x, fact)) => InOrder(v.facts)
  BY StreamFields, OneMoreItem
<1>2. \A x : Passed(M, v, x) <=> Passed(M, w, x) \/ x = fact
  BY <1>1 DEF Passed
<1>3. InOrder(v.facts) /\ InOrder(v.pending) /\ MessagesInOrder(M)
  BY <1>1 DEF Trace, Passed
<1>4. ASSUME NEW x, Holds(M, x)
      PROVE  /\ \A k \in 1..Len(v.facts) : Before(x, v.facts[k])
             /\ \A k \in 1..Len(v.pending) : Before(x, v.pending[k])
  <2>1. Before(x, fact)
    BY <1>4 DEF Passed
  <2>2. \A k \in 1..Len(w.facts) : Before(x, w.facts[k])
    BY <1>4 DEF Trace
  <2>3. \A k \in 1..Len(v.pending) : Before(x, v.pending[k])
    BY <1>4 DEF Trace
  <2>. QED  BY <1>1, <2>1, <2>2, <2>3
<1>. QED  BY <1>2, <1>3, <1>4 DEF Trace, Segmented

\* A block pending after what passed before it, in the segment of its chunk.
LEMMA BlockIsKept ==
    ASSUME NEW M, NEW w \in Streams, NEW v \in Streams, NEW blocks, NEW block \in Blocks,
           v.facts = w.facts, v.pending = Append(w.pending, block),
           w.pending # << >> => v.chunk = w.chunk, blocks[block.n] = v.chunk,
           Trace(M, w), Segmented(M, w, blocks), \A x : Passed(M, w, x) => Before(x, block)
    PROVE  /\ Trace(M, v) /\ Segmented(M, v, blocks)
           /\ \A x : Passed(M, v, x) <=> Passed(M, w, x) \/ x = block
<1>1. /\ \A x : Within(x, v.pending) <=> Within(x, w.pending) \/ x = block
      /\ Len(v.pending) = Len(w.pending) + 1 /\ v.pending[Len(w.pending) + 1] = block
      /\ \A i \in 1..Len(w.pending) : v.pending[i] = w.pending[i]
      /\ \A i \in 1..(Len(w.pending) + 1) : i \in 1..Len(w.pending) \/ i = Len(w.pending) + 1
      /\ InOrder(w.pending) /\ (\A x : Within(x, w.pending) => Before(x, block))
            => InOrder(v.pending)
  BY StreamFields, OneMoreItem
<1>2. \A x : Passed(M, v, x) <=> Passed(M, w, x) \/ x = block
  BY <1>1 DEF Passed
<1>3. InOrder(v.facts) /\ InOrder(v.pending) /\ MessagesInOrder(M)
  BY <1>1 DEF Trace, Passed
<1>4. ASSUME NEW x, Holds(M, x)
      PROVE  /\ \A k \in 1..Len(v.facts) : Before(x, v.facts[k])
             /\ \A k \in 1..Len(v.pending) : Before(x, v.pending[k])
  <2>1. Before(x, block)
    BY <1>4 DEF Passed
  <2>2. \A k \in 1..Len(w.pending) : Before(x, w.pending[k])
    BY <1>4 DEF Trace
  <2>3. \A k \in 1..Len(v.facts) : Before(x, v.facts[k])
    BY <1>4 DEF Trace
  <2>. QED  BY <1>1, <2>1, <2>2, <2>3
<1>5. ASSUME NEW k \in 1..Len(v.pending)
      PROVE  blocks[v.pending[k].n] = v.chunk
  <2>1. CASE k \in 1..Len(w.pending)
    <3>1. w.pending # << >>
      BY <2>1
    <3>. QED  BY <1>1, <2>1, <3>1 DEF Segmented
  <2>. QED  BY <1>1, <2>1
<1>. QED  BY <1>2, <1>3, <1>4, <1>5 DEF Trace, Segmented

\* The writer's record, field by field.
LEMMA FactsUpdated ==
    ASSUME NEW w \in Streams, NEW facts \in Seq(Facts)
    PROVE  LET v == [w EXCEPT !.facts = facts] IN
           /\ v \in Streams /\ v.facts = facts /\ v.valid = w.valid
           /\ v.pending = w.pending /\ v.chunk = w.chunk
           /\ v.starts = w.starts /\ v.consumed = w.consumed /\ v.segment = w.segment
BY Zenon DEF Streams

\* An invalid writer is a writer.
LEMMA Invalidated ==
    ASSUME NEW w \in Streams
    PROVE  LET v == [w EXCEPT !.valid = FALSE] IN v \in Streams /\ ~v.valid
<1> DEFINE no == FALSE
<1>1. no \in BOOLEAN /\ ~no
  OBVIOUS
<1> HIDE DEF no
<1>2. LET v == [w EXCEPT !.valid = no] IN v \in Streams /\ v.valid = no
  BY <1>1, Zenon DEF Streams
<1>. QED  BY <1>1, <1>2 DEF no

\* A write on a channel that broke leaves the writer invalid; another is the result asked for.
LEMMA WroteEffect ==
    ASSUME stream \in Streams, NEW w \in Streams, NEW messages \in Seq(StreamMessages)
    PROVE  LET r == Wrote(w, messages) IN
           /\ r.writer \in Streams /\ r.messages \in Seq(StreamMessages)
           /\ r.writer.valid => r.writer = w /\ r.messages = messages
<1> DEFINE broke == [stream EXCEPT !.valid = FALSE]
           r == Wrote(w, messages)
<1>1. broke \in Streams /\ ~broke.valid
  BY Invalidated
<1>2. << >> \in Seq(StreamMessages)
  BY NoMessage
<1>3. \/ r = [writer |-> w, messages |-> messages]
      \/ r = [writer |-> broke, messages |-> << >>]
  BY Zenon DEF Wrote
<1> HIDE DEF broke, r
<1>4. \/ r.writer = w /\ r.messages = messages
      \/ r.writer = broke /\ r.messages = << >>
  BY <1>3
<1>5. /\ r.writer \in Streams /\ r.messages \in Seq(StreamMessages)
      /\ r.writer.valid => r.writer = w /\ r.messages = messages
  <2>1. CASE r.writer = w /\ r.messages = messages
    BY <2>1
  <2>2. CASE r.writer = broke /\ r.messages = << >>
    BY <1>1, <1>2, <2>2
  <2>. QED  BY <1>4, <2>1, <2>2
<1>. QED  BY <1>5 DEF r

\* What a call to the writer makes of the trace: in order, in its segments, with the new
\* items and no other.
Carries(r, new) ==
    LET A == sent \o r.messages IN
    /\ Trace(A, r.writer) /\ Segmented(A, r.writer, engine.blocks)
    /\ \A x : Passed(A, r.writer, x) <=> Passed(sent, stream, x) \/ x \in new

\* push_fact and consume_fact: the fact passes, whether the batch is sent or not.
LEMMA KeptEffect ==
    ASSUME stream \in Streams, sent \in Seq(StreamMessages), NEW fact \in Facts
    PROVE  LET r == Kept(stream, fact) IN
           /\ r.writer \in Streams /\ r.messages \in Seq(StreamMessages)
           /\ r.writer.valid =>
                /\ stream.valid /\ r.writer.starts = stream.starts
                /\ r.writer.consumed = stream.consumed /\ r.writer.segment = stream.segment
                /\ Trace(sent, stream) /\ Segmented(sent, stream, engine.blocks)
                   /\ (\A x : Passed(sent, stream, x) => Before(x, fact)) => Carries(r, {fact})
<1> DEFINE facts == Append(stream.facts, fact)
           more == [stream EXCEPT !.facts = facts]
           rest == [more EXCEPT !.facts = << >>]
           r == Kept(stream, fact)
<1>1. facts \in Seq(Facts)
  BY StreamFields, AppendProperties
<1>2. << >> \in Seq(Facts) /\ << >> \in Seq(StreamMessages)
  BY NoMessage
<1>3. /\ more \in Streams /\ more.facts = facts /\ more.valid = stream.valid
      /\ more.pending = stream.pending /\ more.chunk = stream.chunk
      /\ more.starts = stream.starts /\ more.consumed = stream.consumed
      /\ more.segment = stream.segment
  BY <1>1, FactsUpdated
<1>4. more = [stream EXCEPT !.facts = Append(@, fact)]
  OBVIOUS
<1> HIDE DEF facts
<1>5. \/ ~stream.valid /\ r = Nothing(stream)
      \/ stream.valid /\ r = Wrote(rest, Batches(more.facts))
      \/ stream.valid /\ r = Nothing(more)
  <2>1. \/ ~stream.valid /\ r = Nothing(stream)
        \/ stream.valid /\ r = Flush(more)
        \/ stream.valid /\ r = Nothing(more)
    BY <1>4 DEF Kept
  <2>. QED  BY <1>3, <2>1 DEF Flush
<1> HIDE DEF more
<1>6. /\ rest \in Streams /\ rest.facts = << >> /\ rest.valid = more.valid
      /\ rest.pending = more.pending /\ rest.chunk = more.chunk
      /\ rest.starts = more.starts /\ rest.consumed = more.consumed
      /\ rest.segment = more.segment
  BY <1>2, <1>3, FactsUpdated
<1>7. Batches(more.facts) \in Seq(StreamMessages)
  BY <1>1, <1>3, BatchesSendAll DEF Batched
<1> HIDE DEF rest, r
<1>8. CASE ~stream.valid /\ r = Nothing(stream)
  <2>1. r.writer = stream /\ r.messages = << >>
    BY <1>8 DEF Nothing
  <2>. QED  BY <1>2, <1>8, <2>1 DEF r
<1>9. ASSUME Trace(sent, stream), Segmented(sent, stream, engine.blocks),
             \A x : Passed(sent, stream, x) => Before(x, fact)
      PROVE  /\ Trace(sent, more) /\ Segmented(sent, more, engine.blocks)
             /\ \A x : Passed(sent, more, x) <=> Passed(sent, stream, x) \/ x = fact
  BY <1>3, <1>9, FactIsKept DEF facts
<1>10. CASE stream.valid /\ r = Nothing(more)
  <2>1. r.writer = more /\ r.messages = << >>
    BY <1>10 DEF Nothing
  <2>2. sent \o r.messages = sent
    BY <2>1
  <2>. QED  BY <1>2, <1>3, <1>9, <1>10, <2>1, <2>2 DEF r, Carries
<1>11. CASE stream.valid /\ r = Wrote(rest, Batches(more.facts))
  <2>1. /\ r.writer \in Streams /\ r.messages \in Seq(StreamMessages)
        /\ r.writer.valid => r.writer = rest /\ r.messages = Batches(more.facts)
    BY <1>6, <1>7, <1>11, WroteEffect
  <2>2. ASSUME r.writer.valid, Trace(sent, stream), Segmented(sent, stream, engine.blocks),
               \A x : Passed(sent, stream, x) => Before(x, fact)
        PROVE  Carries(r, {fact})
    <3>1. /\ Trace(sent, more) /\ Segmented(sent, more, engine.blocks)
          /\ \A x : Passed(sent, more, x) <=> Passed(sent, stream, x) \/ x = fact
      BY <1>9, <2>2
    <3>2. /\ Trace(sent \o Batches(more.facts), rest)
          /\ Segmented(sent \o Batches(more.facts), rest, engine.blocks)
          /\ \A x : Passed(sent \o Batches(more.facts), rest, x) <=> Passed(sent, more, x)
      BY <1>3, <1>6, <3>1, FactsAreSent
    <3>. QED  BY <2>1, <2>2, <3>1, <3>2 DEF Carries
  <2>. QED  BY <1>3, <1>6, <1>11, <2>1, <2>2 DEF r
<1>. QED  BY <1>5, <1>8, <1>10, <1>11

\* The end of the session: everything is sent.
LEMMA FlushAllEffect ==
    ASSUME stream \in Streams, sent \in Seq(StreamMessages)
    PROVE  LET r == FlushAll(stream) IN
           /\ r.writer \in Streams /\ r.messages \in Seq(StreamMessages)
           /\ r.writer.valid =>
                /\ stream.valid /\ r.writer.starts = stream.starts
                /\ r.writer.consumed = stream.consumed /\ r.writer.segment = stream.segment
                /\ r.writer.facts = << >> /\ r.writer.pending = << >>
                /\ Trace(sent, stream) /\ Segmented(sent, stream, engine.blocks)
                     => Carries(r, {})
<1> DEFINE first == [stream EXCEPT !.facts = << >>]
           none == << >>
           rest == [stream EXCEPT !.facts = none, !.pending = none]
           B == Batches(stream.facts)
           P == PcmMessage(stream)
           r == FlushAll(stream)
<1>1. << >> \in Seq(Facts) /\ << >> \in Seq(Blocks) /\ << >> \in Seq(StreamMessages)
  BY NoMessage
<1>2. /\ first \in Streams /\ first.facts = << >> /\ first.valid = stream.valid
      /\ first.pending = stream.pending /\ first.chunk = stream.chunk
      /\ first.starts = stream.starts /\ first.consumed = stream.consumed
      /\ first.segment = stream.segment
  BY <1>1, FactsUpdated
<1>3. /\ rest \in Streams /\ rest.facts = none /\ rest.valid = stream.valid
      /\ rest.pending = none
      /\ rest.starts = stream.starts /\ rest.consumed = stream.consumed
      /\ rest.segment = stream.segment
  <2>1. none \in Seq(Facts) /\ none \in Seq(Blocks)
    BY <1>1
  <2> HIDE DEF none
  <2>. QED  BY <2>1, Zenon DEF Streams
<1>4. rest = [stream EXCEPT !.facts = << >>, !.pending = << >>]
  OBVIOUS
<1>5. /\ B \in Seq(StreamMessages) /\ P = PcmMessage(first)
  BY <1>2, StreamFields, BatchesSendAll DEF Batched, PcmMessage
<1>6. P \in Seq(StreamMessages)
  <2>1. CASE stream.pending = << >>
    BY <1>1, <2>1 DEF PcmMessage
  <2>2. CASE stream.pending # << >>
    <3>1. stream.pending \in Seq(Facts \cup Blocks) /\ stream.chunk \in Int
      BY StreamFields, SeqMonotonic
    <3>. QED  BY <2>2, <3>1, OneMessage DEF PcmMessage
  <2>. QED  BY <2>1, <2>2
<1>7. \/ ~stream.valid /\ r = Nothing(stream)
      \/ stream.valid /\ r = Wrote(rest, B \o P)
  BY <1>4 DEF FlushAll
<1> HIDE DEF first, rest, B, P, r
<1>8. CASE ~stream.valid /\ r = Nothing(stream)
  <2>1. r.writer = stream /\ r.messages = << >>
    BY <1>8 DEF Nothing
  <2>. QED  BY <1>1, <1>8, <2>1 DEF r
<1>9. CASE stream.valid /\ r = Wrote(rest, B \o P)
  <2>1. B \o P \in Seq(StreamMessages)
    BY <1>5, <1>6, JoinedMessages
  <2>2. /\ r.writer \in Streams /\ r.messages \in Seq(StreamMessages)
        /\ r.writer.valid => r.writer = rest /\ r.messages = B \o P
    BY <1>3, <1>9, <2>1, WroteEffect
  <2>3. ASSUME r.writer.valid, Trace(sent, stream), Segmented(sent, stream, engine.blocks)
        PROVE  Carries(r, {})
    <3>1. /\ sent \o B \in Seq(StreamMessages)
          /\ Trace(sent \o B, first) /\ Segmented(sent \o B, first, engine.blocks)
          /\ \A x : Passed(sent \o B, first, x) <=> Passed(sent, stream, x)
      BY <1>2, <2>3, FactsAreSent DEF B
    <3>2. /\ Trace((sent \o B) \o P, rest) /\ Segmented((sent \o B) \o P, rest, engine.blocks)
          /\ \A x : Passed((sent \o B) \o P, rest, x) <=> Passed(sent \o B, first, x)
      BY <1>2, <1>3, <1>5, <3>1, PcmIsSent
    <3>3. (sent \o B) \o P = sent \o (B \o P)
      BY <1>5, <1>6, ConcatAssociative
    <3>. QED  BY <2>2, <2>3, <3>1, <3>2, <3>3 DEF Carries
  <2>. QED  BY <1>3, <1>9, <2>2, <2>3 DEF r
<1>. QED  BY <1>7, <1>8, <1>9

\* The segments that have begun: there is one answer.
LEMMA BegunIsThere ==
    ASSUME NEW starts \in Seq(Nat), NEW consumed \in Nat
    PROVE  LET n == Begun(starts, consumed) IN
           /\ n \in 0..Len(starts) /\ \A i \in 1..n : starts[i] <= consumed
           /\ n < Len(starts) => consumed < starts[n + 1]
<1> DEFINE S == {n \in 0..Len(starts) : n < Len(starts) => consumed < starts[n + 1]}
           Right(n) == /\ \A i \in 1..n : starts[i] <= consumed
                       /\ n < Len(starts) => consumed < starts[n + 1]
<1>1. Len(starts) \in Nat /\ \A i \in 1..Len(starts) : starts[i] \in Nat
  BY LenProperties, ElementOfSeq
<1>2. Len(starts) \in S /\ S \subseteq Nat
  BY <1>1
<1>3. PICK n \in S : \A m \in S : n <= m
  BY <1>2, LeastNumber
<1>4. ASSUME NEW i \in 1..n  PROVE starts[i] <= consumed
  <2>1. i - 1 \in 0..Len(starts) /\ i - 1 < n /\ i - 1 < Len(starts) /\ (i - 1) + 1 = i
    BY <1>1, <1>3
  <2>2. i - 1 \notin S
    BY <1>1, <1>3, <2>1
  <2>3. ~(consumed < starts[i])
    BY <2>1, <2>2
  <2>4. i \in 1..Len(starts)
    BY <1>1, <2>1
  <2>. QED  BY <1>1, <2>3, <2>4
<1>5. n \in 0..Len(starts) /\ Right(n)
  BY <1>3, <1>4
<1>6. Begun(starts, consumed) = CHOOSE m \in 0..Len(starts) : Right(m)
  BY DEF Begun
<1> HIDE DEF Right
<1>7. Begun(starts, consumed) \in 0..Len(starts) /\ Right(Begun(starts, consumed))
  BY <1>5, <1>6
<1>. QED  BY <1>7 DEF Right

\* A block is counted, and the segments that begin at it have begun.
LEMMA CountedEffect ==
    ASSUME stream \in Streams
    PROVE  LET v == Counted(stream)
               begun == Begun(stream.starts, stream.consumed)
           IN /\ v \in Streams /\ v.facts = stream.facts /\ v.valid = stream.valid
              /\ v.pending = stream.pending /\ v.chunk = stream.chunk
              /\ v.consumed = stream.consumed + 1 /\ v.segment = stream.segment + begun
              /\ Len(v.starts) = Len(stream.starts) - begun
              /\ \A j \in 1..Len(v.starts) : v.starts[j] = stream.starts[begun + j]
<1> DEFINE begun == Begun(stream.starts, stream.consumed)
           consumed == stream.consumed + 1
           segment == stream.segment + begun
           starts == SubSeq(stream.starts, begun + 1, Len(stream.starts))
           v == Counted(stream)
<1>1. /\ stream.starts \in Seq(Nat) /\ stream.consumed \in Nat /\ stream.segment \in Nat
      /\ Len(stream.starts) \in Nat /\ \A i \in 1..Len(stream.starts) : stream.starts[i] \in Nat
  BY StreamFields
<1>2. begun \in 0..Len(stream.starts)
  BY <1>1, BegunIsThere
<1>3. v = [stream EXCEPT !.consumed = consumed, !.segment = segment, !.starts = starts]
  BY DEF Counted
<1> HIDE DEF begun, v
<1>4. consumed \in Nat /\ segment \in Nat
  BY <1>1, <1>2
<1>5. /\ starts \in Seq(Nat) /\ Len(starts) = Len(stream.starts) - begun
      /\ \A j \in 1..Len(starts) : starts[j] = stream.starts[begun + j]
  <2>1. \A i \in (begun + 1)..Len(stream.starts) : stream.starts[i] \in Nat
    BY <1>1, <1>2
  <2>2. /\ starts \in Seq(Nat)
        /\ Len(starts) = IF begun + 1 <= Len(stream.starts)
                         THEN Len(stream.starts) - (begun + 1) + 1 ELSE 0
        /\ \A j \in 1..(Len(stream.starts) - (begun + 1) + 1) :
              starts[j] = stream.starts[begun + 1 + j - 1]
    BY <1>1, <1>2, <2>1, SubSeqProperties
  <2> HIDE DEF starts
  <2>3. Len(starts) = Len(stream.starts) - begun
    BY <1>1, <1>2, <2>2
  <2>4. ASSUME NEW j \in 1..Len(starts)  PROVE starts[j] = stream.starts[begun + j]
    <3>1. j \in 1..(Len(stream.starts) - (begun + 1) + 1) /\ begun + 1 + j - 1 = begun + j
      BY <1>1, <1>2, <2>3
    <3>. QED  BY <2>2, <3>1
  <2>. QED  BY <2>2, <2>3, <2>4
<1> HIDE DEF consumed, segment, starts
<1>6. /\ v \in Streams /\ v.facts = stream.facts /\ v.valid = stream.valid
      /\ v.pending = stream.pending /\ v.chunk = stream.chunk
      /\ v.starts = starts /\ v.consumed = consumed /\ v.segment = segment
  BY <1>3, <1>4, <1>5, Zenon DEF Streams
<1>. QED  BY <1>5, <1>6 DEF consumed, segment, begun, v

\* consume_pcm: the block passes in the segment that has begun.
LEMMA ConsumedEffect ==
    ASSUME stream \in Streams, sent \in Seq(StreamMessages), NEW n \in Nat
    PROVE  LET r == Consumed(stream, n)
               begun == Begun(stream.starts, stream.consumed)
           IN /\ r.writer \in Streams /\ r.messages \in Seq(StreamMessages)
              /\ r.writer.valid =>
                   /\ stream.valid
                   /\ r.writer.consumed = stream.consumed + 1
                   /\ r.writer.segment = stream.segment + begun
                   /\ Len(r.writer.starts) = Len(stream.starts) - begun
                   /\ \A j \in 1..Len(r.writer.starts) :
                        r.writer.starts[j] = stream.starts[begun + j]
                   /\ Trace(sent, stream) /\ Segmented(sent, stream, engine.blocks)
                      /\ (\A x : Passed(sent, stream, x) => Before(x, Item(Pcm, n)))
                      /\ engine.blocks[n] = stream.segment + begun
                        => Carries(r, {Item(Pcm, n)})
<1> DEFINE begun == Begun(stream.starts, stream.consumed)
           item == Item(Pcm, n)
           counted == Counted(stream)
           more == Append(stream.pending, item)
           one == <<item>>
           none == << >>
           next == counted.segment
           joined == [counted EXCEPT !.pending = more]
           chunk == [counted EXCEPT !.pending = one, !.chunk = next]
           empty == [counted EXCEPT !.pending = none]
           P == PcmMessage(stream)
           r == Consumed(stream, n)
<1>1. /\ counted \in Streams /\ counted.facts = stream.facts /\ counted.valid = stream.valid
      /\ counted.pending = stream.pending /\ counted.chunk = stream.chunk
      /\ counted.consumed = stream.consumed + 1 /\ counted.segment = stream.segment + begun
      /\ Len(counted.starts) = Len(stream.starts) - begun
      /\ \A j \in 1..Len(counted.starts) : counted.starts[j] = stream.starts[begun + j]
  BY CountedEffect
<1>2. \/ ~stream.valid /\ r = Nothing(stream)
      \/ stream.valid /\ Joins(counted, n) /\ r = Nothing(joined)
      \/ stream.valid /\ r = Wrote(chunk, P)
  <2>1. joined = [counted EXCEPT !.pending = Append(@, item)]
    <3> HIDE DEF counted
    <3>. QED  BY <1>1
  <2>2. chunk = Chunk(counted, n)
    BY DEF Chunk
  <2> HIDE DEF joined, chunk, counted
  <2>. QED  BY <2>1, <2>2 DEF Consumed, counted
<1>3. item \in Blocks /\ item.n = n
  BY DEF Item, Blocks
<1>4. /\ stream.pending \in Seq(Blocks) /\ more \in Seq(Blocks) /\ one \in Seq(Blocks)
      /\ none \in Seq(Blocks) /\ none \in Seq(StreamMessages) /\ Append(none, item) = one
      /\ next \in Int
  <2>1. stream.pending \in Seq(Blocks) /\ next \in Int
    BY <1>1, StreamFields
  <2> HIDE DEF item, counted
  <2>2. more \in Seq(Blocks) /\ one \in Seq(Blocks) /\ Append(none, item) = one
    BY <1>3, <2>1, AppendProperties
  <2>. QED  BY <2>1, <2>2, NoMessage
<1>5. P \in Seq(StreamMessages)
  <2>1. CASE stream.pending = << >>
    BY <2>1, NoMessage DEF PcmMessage
  <2>2. CASE stream.pending # << >>
    <3>1. stream.pending \in Seq(Facts \cup Blocks) /\ stream.chunk \in Int
      BY StreamFields, SeqMonotonic
    <3>. QED  BY <2>2, <3>1, OneMessage DEF PcmMessage
  <2>. QED  BY <2>1, <2>2
<1> HIDE DEF item, more, one, none, counted, next
<1>6. /\ joined \in Streams /\ joined.facts = counted.facts /\ joined.valid = counted.valid
      /\ joined.pending = more /\ joined.chunk = counted.chunk
      /\ joined.starts = counted.starts /\ joined.consumed = counted.consumed
      /\ joined.segment = counted.segment
  BY <1>1, <1>4, Zenon DEF Streams
<1>7. /\ chunk \in Streams /\ chunk.facts = counted.facts /\ chunk.valid = counted.valid
      /\ chunk.pending = one /\ chunk.chunk = next
      /\ chunk.starts = counted.starts /\ chunk.consumed = counted.consumed
      /\ chunk.segment = counted.segment
  BY <1>1, <1>4, Zenon DEF Streams
<1>8. empty \in Streams /\ empty.facts = counted.facts /\ empty.pending = none
  BY <1>1, <1>4, Zenon DEF Streams
<1> HIDE DEF begun, joined, chunk, empty, P, r
<1> DEFINE Ready == /\ Trace(sent, stream) /\ Segmented(sent, stream, engine.blocks)
                    /\ \A x : Passed(sent, stream, x) => Before(x, item)
                    /\ engine.blocks[n] = stream.segment + begun
           Goal == /\ r.writer \in Streams /\ r.messages \in Seq(StreamMessages)
                   /\ r.writer.valid =>
                        /\ stream.valid
                        /\ r.writer.consumed = stream.consumed + 1
                        /\ r.writer.segment = stream.segment + begun
                        /\ Len(r.writer.starts) = Len(stream.starts) - begun
                        /\ \A j \in 1..Len(r.writer.starts) :
                             r.writer.starts[j] = stream.starts[begun + j]
                        /\ Ready => Carries(r, {item})
<1>. SUFFICES Goal
  BY DEF item, r, begun
<1>9. CASE ~stream.valid /\ r = Nothing(stream)
  <2>1. r.writer = stream /\ r.messages = none
    BY <1>9 DEF Nothing, none
  <2>. QED  BY <1>4, <1>9, <2>1
<1>10. CASE stream.valid /\ Joins(counted, n) /\ r = Nothing(joined)
  <2>1. r.writer = joined /\ r.messages = << >>
    BY <1>10 DEF Nothing
  <2>2. sent \o r.messages = sent
    BY <2>1
  <2>3. ASSUME Ready  PROVE Carries(r, {item})
    <3>1. engine.blocks[item.n] = joined.chunk
      BY <1>1, <1>3, <1>6, <1>10, <2>3 DEF Joins
    <3>2. /\ Trace(sent, joined) /\ Segmented(sent, joined, engine.blocks)
          /\ \A x : Passed(sent, joined, x) <=> Passed(sent, stream, x) \/ x = item
      BY <1>1, <1>3, <1>6, <2>3, <3>1, BlockIsKept DEF more
    <3>. QED  BY <2>1, <2>2, <3>2 DEF Carries
  <2>. QED  BY <1>1, <1>4, <1>6, <1>10, <2>1, <2>3 DEF none
<1>11. CASE stream.valid /\ r = Wrote(chunk, P)
  <2>1. /\ r.writer \in Streams /\ r.messages \in Seq(StreamMessages)
        /\ r.writer.valid => r.writer = chunk /\ r.messages = P
    BY <1>5, <1>7, <1>11, WroteEffect
  <2>2. ASSUME Ready, r.writer.valid  PROVE Carries(r, {item})
    <3>1. /\ sent \o P \in Seq(StreamMessages)
          /\ Trace(sent \o P, empty) /\ Segmented(sent \o P, empty, engine.blocks)
          /\ \A x : Passed(sent \o P, empty, x) <=> Passed(sent, stream, x)
      BY <1>1, <1>8, <2>2, PcmIsSent DEF P, none
    <3>2. engine.blocks[item.n] = chunk.chunk /\ empty.pending = << >>
      BY <1>1, <1>3, <1>7, <1>8, <2>2 DEF next, none
    <3>3. chunk.facts = empty.facts /\ chunk.pending = Append(empty.pending, item)
      BY <1>4, <1>7, <1>8
    <3>4. \A x : Passed(sent \o P, empty, x) => Before(x, item)
      BY <2>2, <3>1
    <3>5. /\ Trace(sent \o P, chunk) /\ Segmented(sent \o P, chunk, engine.blocks)
          /\ \A x : Passed(sent \o P, chunk, x) <=> Passed(sent \o P, empty, x) \/ x = item
      BY <1>3, <1>7, <1>8, <3>1, <3>2, <3>3, <3>4, BlockIsKept
    <3>. QED  BY <2>1, <2>2, <3>1, <3>5 DEF Carries
  <2>. QED  BY <1>1, <1>7, <1>11, <2>1, <2>2
<1>. QED  BY <1>2, <1>9, <1>10, <1>11

-----------------------------------------------------------------------------
\* What a source produces goes from its reservation to its lane and from there to the writer.

\* The line of a source with one number more, silenced.
LEMMA LineSilent ==
    ASSUME NEW passed, NEW waiting \in Seq(Nat), NEW reserved \in BOOLEAN, NEW silenced,
           NEW total \in Nat, ~reserved, Line(passed, waiting, reserved, silenced, total)
    PROVE  Line(passed, waiting, reserved, silenced \cup {total + 1}, total + 1)
<1>1. Len(waiting) \in Nat
  BY LenProperties
<1>. QED  BY <1>1 DEF Line

\* The line with one number more, reserved.
LEMMA LineReserved ==
    ASSUME NEW passed, NEW waiting \in Seq(Nat), NEW before \in BOOLEAN, NEW reserved \in BOOLEAN,
           NEW silenced, NEW total \in Nat, ~before, reserved,
           Line(passed, waiting, before, silenced, total)
    PROVE  Line(passed, waiting, reserved, silenced, total + 1)
<1>1. Len(waiting) \in Nat
  BY LenProperties
<1>. QED  BY <1>1 DEF Line

\* What was reserved joins the lane.
LEMMA LinePublished ==
    ASSUME NEW passed, NEW waiting \in Seq(Nat), NEW before \in BOOLEAN, NEW reserved \in BOOLEAN,
           NEW silenced, NEW total \in Nat, before, ~reserved,
           Line(passed, waiting, before, silenced, total)
    PROVE  Line(passed, Append(waiting, total), reserved, silenced, total)
<1> DEFINE more == Append(waiting, total)
<1>1. Len(waiting) \in Nat /\ Len(more) = Len(waiting) + 1 /\ more[Len(waiting) + 1] = total
      /\ \A i \in 1..Len(waiting) : more[i] = waiting[i]
  BY AppendProperties, LenProperties
<1>2. \A x : Within(x, more) <=> Within(x, waiting) \/ x = total
  BY OneMoreItem
<1> HIDE DEF more
<1>3. ASSUME NEW i \in 1..Len(more)
      PROVE  /\ more[i] \in 1..total /\ more[i] \notin silenced
             /\ \A n \in passed : n < more[i]
             /\ \A k \in 1..Len(more) : i < k => more[i] < more[k]
  <2>1. CASE i \in 1..Len(waiting)
    <3>1. /\ waiting[i] \in 1..total /\ waiting[i] \notin silenced
          /\ \A n \in passed : n < waiting[i]
          /\ waiting[i] < total
      BY <2>1 DEF Line
    <3>2. ASSUME NEW k \in 1..Len(more), i < k  PROVE more[i] < more[k]
      <4>1. CASE k \in 1..Len(waiting)
        BY <1>1, <2>1, <3>2, <4>1 DEF Line
      <4>2. CASE k = Len(waiting) + 1
        BY <1>1, <2>1, <3>1, <4>2
      <4>. QED  BY <1>1, <4>1, <4>2
    <3>. QED  BY <1>1, <2>1, <3>1, <3>2
  <2>2. CASE i = Len(waiting) + 1
    <3>1. total \in 1..total /\ total \notin silenced /\ \A n \in passed : n < total
      BY DEF Line
    <3>2. \A k \in 1..Len(more) : ~(i < k)
      BY <1>1, <2>2
    <3>. QED  BY <1>1, <2>2, <3>1, <3>2
  <2>. QED  BY <1>1, <2>1, <2>2
<1>4. /\ passed \subseteq 1..total /\ silenced \subseteq 1..total
      /\ passed \cap silenced = {}
  BY DEF Line
<1>5. \A n \in 1..total : n \in silenced \/ n \in passed \/ Within(n, more)
  BY <1>2 DEF Line
<1>. QED  BY <1>3, <1>4, <1>5 DEF Line, more

\* The head of the lane passes.
LEMMA LinePassed ==
    ASSUME NEW passed, NEW waiting \in Seq(Nat), NEW reserved \in BOOLEAN, NEW silenced,
           NEW total \in Nat, waiting # << >>,
           Line(passed, waiting, reserved, silenced, total)
    PROVE  Line(passed \cup {Head(waiting)}, Tail(waiting), reserved, silenced, total)
<1> DEFINE head == Head(waiting)
           tail == Tail(waiting)
           all == passed \cup {head}
<1>1. /\ Len(waiting) \in Nat \ {0} /\ head = waiting[1] /\ Len(tail) = Len(waiting) - 1
      /\ \A i \in 1..Len(tail) : tail[i] = waiting[i + 1]
  BY HeadTailProperties, LenProperties, EmptySeq
<1> HIDE DEF head, tail
<1>2. 1 \in 1..Len(waiting) /\ \A i \in 1..Len(tail) : i + 1 \in 1..Len(waiting) /\ 1 < i + 1
  BY <1>1
<1>3. /\ head \in 1..total /\ head \notin silenced
      /\ \A i \in 1..Len(tail) : head < tail[i]
      /\ reserved => head < total
  BY <1>1, <1>2 DEF Line
<1>4. ASSUME NEW i \in 1..Len(tail)
      PROVE  /\ tail[i] \in 1..total /\ tail[i] \notin silenced
             /\ \A n \in all : n < tail[i]
             /\ \A k \in 1..Len(tail) : i < k => tail[i] < tail[k]
             /\ reserved => tail[i] < total
  <2>1. /\ tail[i] \in 1..total /\ tail[i] \notin silenced
        /\ \A n \in passed : n < tail[i]
        /\ reserved => tail[i] < total
    BY <1>1, <1>2 DEF Line
  <2>2. ASSUME NEW k \in 1..Len(tail), i < k  PROVE tail[i] < tail[k]
    <3>1. i + 1 < k + 1
      BY <1>1, <2>2
    <3>. QED  BY <1>1, <1>2, <3>1 DEF Line
  <2>. QED  BY <1>3, <2>1, <2>2
<1>5. \A x : Within(x, waiting) => x = head \/ Within(x, tail)
  <2>1. \A i \in 1..Len(waiting) : i = 1 \/ (i - 1 \in 1..Len(tail) /\ waiting[i] = tail[i - 1])
    BY <1>1
  <2>. QED  BY <1>1, <2>1 DEF Within
<1>6. /\ all \subseteq 1..total /\ silenced \subseteq 1..total
      /\ all \cap silenced = {}
  BY <1>3 DEF Line
<1>7. reserved => /\ total # 0 /\ total \notin silenced
                  /\ \A n \in all : n < total
  BY <1>3 DEF Line
<1>8. \A n \in 1..total :
        n \in silenced \/ n \in all \/ Within(n, tail) \/ (reserved /\ n = total)
  BY <1>5 DEF Line
<1> HIDE DEF all
<1>9. Line(all, tail, reserved, silenced, total)
  BY <1>4, <1>6, <1>7, <1>8 DEF Line
<1>. QED  BY <1>9 DEF all, head, tail

-----------------------------------------------------------------------------
\* Steps: what passed, and what a call to the writer makes of it.

\* What passed is an item, and an item of a source is its number.
LEMMA PassedItems ==
    ASSUME StreamTyped
    PROVE  /\ \A x : Passed(sent, stream, x) => x \in Facts \cup Blocks
           /\ \A s \in Sources : \A x : Passed(sent, stream, x) /\ x.producer = s
                => x = Item(s, x.n) /\ x.n \in PassedOf(s)
<1>1. ASSUME NEW x, Passed(sent, stream, x)  PROVE x \in Facts \cup Blocks
  <2>1. CASE Holds(sent, x)
    <3>1. PICK i \in 1..Len(sent) : \E j \in 1..Len(sent[i].items) : sent[i].items[j] = x
      BY <2>1 DEF Holds
    <3>2. \A j \in 1..Len(sent[i].items) : sent[i].items[j] \in Facts \cup Blocks
      BY MessageTypes DEF StreamTyped
    <3>. QED  BY <3>1, <3>2
  <2>2. CASE Within(x, stream.facts)
    BY <2>2, StreamFields DEF StreamTyped, Within
  <2>3. CASE Within(x, stream.pending)
    BY <2>3, StreamFields DEF StreamTyped, Within
  <2>. QED  BY <1>1, <2>1, <2>2, <2>3 DEF Passed
<1>2. ASSUME NEW s \in Sources, NEW x, Passed(sent, stream, x), x.producer = s
      PROVE  x = Item(s, x.n) /\ x.n \in PassedOf(s)
  <2>1. x \in Facts \cup Blocks
    BY <1>1, <1>2
  <2>2. x \notin Exclusions
    <3>1. Inspection \notin Sources
      BY StreamAssumption DEF Inspection, Sources, Producers, Pcm
    <3>. QED  BY <1>2, <3>1 DEF Exclusions
  <2>3. x \in [producer : Producers, n : Nat] \/ x \in [producer : {Pcm}, n : Nat]
    BY <2>1, <2>2 DEF Facts, Blocks
  <2>4. x = Item(s, x.n) /\ x.n \in Nat
    BY <1>2, <2>3 DEF Item
  <2>. QED  BY <1>2, <2>4 DEF PassedOf
<1>. QED  BY <1>1, <1>2

\* A writer that was given an item.
Given(item) ==
    /\ stream.valid
    /\ Trace(sent, stream) /\ Segmented(sent, stream, engine.blocks)
       /\ (\A x : Passed(sent, stream, x) => Before(x, item))
       => /\ Trace(sent', stream') /\ Segmented(sent', stream', engine.blocks)
          /\ \A x : Passed(sent', stream', x) <=> Passed(sent, stream, x) \/ x = item

\* A fact given to the writer passes, or the writer is invalid.
LEMMA FactDelivered ==
    ASSUME StreamTyped, NEW fact \in Facts,
           Does(Kept(stream, fact)) \/ Delivers(Kept(stream, fact))
    PROVE  /\ stream' \in Streams /\ sent' \in Seq(StreamMessages)
           /\ stream'.valid =>
                /\ stream'.starts = stream.starts /\ stream'.consumed = stream.consumed
                /\ stream'.segment = stream.segment /\ Given(fact)
<1> DEFINE r == Kept(stream, fact)
           no == [stream EXCEPT !.valid = FALSE]
<1>1. stream \in Streams /\ sent \in Seq(StreamMessages)
  BY DEF StreamTyped
<1>2. /\ r.writer \in Streams /\ r.messages \in Seq(StreamMessages)
      /\ r.writer.valid =>
           /\ stream.valid /\ r.writer.starts = stream.starts
           /\ r.writer.consumed = stream.consumed /\ r.writer.segment = stream.segment
           /\ Trace(sent, stream) /\ Segmented(sent, stream, engine.blocks)
              /\ (\A x : Passed(sent, stream, x) => Before(x, fact)) => Carries(r, {fact})
  BY <1>1, KeptEffect
<1> HIDE DEF r
<1>3. CASE Does(r)
  <2>1. stream' = r.writer /\ sent' = sent \o r.messages
    BY <1>3 DEF Does
  <2>2. sent' \in Seq(StreamMessages)
    BY <1>1, <1>2, <2>1, JoinedMessages
  <2>3. Carries(r, {fact}) => /\ Trace(sent', stream') /\ Segmented(sent', stream', engine.blocks)
                              /\ \A x : Passed(sent', stream', x)
                                        <=> Passed(sent, stream, x) \/ x = fact
    BY <2>1 DEF Carries
  <2>. QED  BY <1>2, <2>1, <2>2, <2>3 DEF Given
<1>4. CASE Does(Unreadable)
  <2>1. no \in Streams /\ ~no.valid
    BY <1>1, Invalidated
  <2>2. stream' = no /\ sent' = sent \o << >>
    BY <1>4 DEF Does, Unreadable, Nothing
  <2> HIDE DEF no
  <2>3. << >> \in Seq(StreamMessages)
    BY NoMessage
  <2>. QED  BY <1>1, <2>1, <2>2, <2>3, JoinedMessages
<1>. QED  BY <1>3, <1>4 DEF Delivers, r

\* A block given to the writer passes in the segment that has begun, or the writer is invalid.
LEMMA BlockDelivered ==
    ASSUME StreamTyped, NEW n \in Nat, Delivers(Consumed(stream, n))
    PROVE  LET begun == Begun(stream.starts, stream.consumed) IN
           /\ stream' \in Streams /\ sent' \in Seq(StreamMessages)
           /\ stream'.valid =>
                /\ stream.valid
                /\ stream'.consumed = stream.consumed + 1
                /\ stream'.segment = stream.segment + begun
                /\ Len(stream'.starts) = Len(stream.starts) - begun
                /\ \A j \in 1..Len(stream'.starts) :
                     stream'.starts[j] = stream.starts[begun + j]
                /\ engine.blocks[n] = stream.segment + begun => Given(Item(Pcm, n))
<1> DEFINE r == Consumed(stream, n)
           no == [stream EXCEPT !.valid = FALSE]
           begun == Begun(stream.starts, stream.consumed)
<1>1. stream \in Streams /\ sent \in Seq(StreamMessages)
  BY DEF StreamTyped
<1>2. /\ r.writer \in Streams /\ r.messages \in Seq(StreamMessages)
      /\ r.writer.valid =>
           /\ stream.valid
           /\ r.writer.consumed = stream.consumed + 1
           /\ r.writer.segment = stream.segment + begun
           /\ Len(r.writer.starts) = Len(stream.starts) - begun
           /\ \A j \in 1..Len(r.writer.starts) :
                r.writer.starts[j] = stream.starts[begun + j]
           /\ Trace(sent, stream) /\ Segmented(sent, stream, engine.blocks)
              /\ (\A x : Passed(sent, stream, x) => Before(x, Item(Pcm, n)))
              /\ engine.blocks[n] = stream.segment + begun
                => Carries(r, {Item(Pcm, n)})
  BY <1>1, ConsumedEffect
<1> HIDE DEF r
<1>3. CASE Does(r)
  <2>1. stream' = r.writer /\ sent' = sent \o r.messages
    BY <1>3 DEF Does
  <2>2. sent' \in Seq(StreamMessages)
    BY <1>1, <1>2, <2>1, JoinedMessages
  <2>3. Carries(r, {Item(Pcm, n)}) =>
            /\ Trace(sent', stream') /\ Segmented(sent', stream', engine.blocks)
            /\ \A x : Passed(sent', stream', x) <=> Passed(sent, stream, x) \/ x = Item(Pcm, n)
    BY <2>1 DEF Carries
  <2> HIDE DEF begun
  <2>. QED  BY <1>2, <2>1, <2>2, <2>3 DEF Given, begun
<1>4. CASE Does(Unreadable)
  <2>1. no \in Streams /\ ~no.valid
    BY <1>1, Invalidated
  <2>2. stream' = no /\ sent' = sent \o << >>
    BY <1>4 DEF Does, Unreadable, Nothing
  <2> HIDE DEF no
  <2>3. << >> \in Seq(StreamMessages)
    BY NoMessage
  <2>. QED  BY <1>1, <2>1, <2>2, <2>3, JoinedMessages
<1>. QED  BY <1>3, <1>4 DEF Delivers, r

\* The writer sends what it kept, or is invalid.
LEMMA AllFlushed ==
    ASSUME StreamTyped, Does(FlushAll(stream))
    PROVE  /\ stream' \in Streams /\ sent' \in Seq(StreamMessages)
           /\ stream'.valid =>
                /\ stream.valid /\ stream'.starts = stream.starts
                /\ stream'.consumed = stream.consumed /\ stream'.segment = stream.segment
                /\ stream'.facts = << >> /\ stream'.pending = << >>
                /\ Trace(sent, stream) /\ Segmented(sent, stream, engine.blocks)
                   => /\ Trace(sent', stream') /\ Segmented(sent', stream', engine.blocks)
                      /\ \A x : Passed(sent', stream', x) <=> Passed(sent, stream, x)
<1> DEFINE r == FlushAll(stream)
<1>1. stream \in Streams /\ sent \in Seq(StreamMessages)
  BY DEF StreamTyped
<1>2. /\ r.writer \in Streams /\ r.messages \in Seq(StreamMessages)
      /\ r.writer.valid =>
           /\ stream.valid /\ r.writer.starts = stream.starts
           /\ r.writer.consumed = stream.consumed /\ r.writer.segment = stream.segment
           /\ r.writer.facts = << >> /\ r.writer.pending = << >>
           /\ Trace(sent, stream) /\ Segmented(sent, stream, engine.blocks)
                => Carries(r, {})
  BY <1>1, FlushAllEffect
<1> HIDE DEF r
<1>3. stream' = r.writer /\ sent' = sent \o r.messages
  BY DEF Does, r
<1>4. sent' \in Seq(StreamMessages)
  BY <1>1, <1>2, <1>3, JoinedMessages
<1>5. Carries(r, {}) => /\ Trace(sent', stream') /\ Segmented(sent', stream', engine.blocks)
                        /\ \A x : Passed(sent', stream', x) <=> Passed(sent, stream, x)
  BY <1>3 DEF Carries
<1>. QED  BY <1>2, <1>3, <1>4, <1>5

-----------------------------------------------------------------------------
\* The invariant holds at first.

\* Nothing is produced, waits or passed.
LEMMA StreamStarts == StreamInit => StreamInv
<1>1. SUFFICES ASSUME StreamInit  PROVE StreamInv
  OBVIOUS
<1>2. Slots \in Nat \ {0} /\ 0 \in Nat /\ Pcm = -2 /\ Producers \subseteq Nat
  BY StreamAssumption DEF Producers, Pcm
<1>3. engine \in Engines
  <2> DEFINE mode == "audible"
             none == {}
             facts == [p \in Producers |-> 0]
             blocks == << >>
  <2>1. /\ mode \in {"audible", "paused", "silent", "declaring", "stopped"}
        /\ none \in SUBSET Producers /\ facts \in [Producers -> Nat] /\ blocks \in Seq(Int)
    OBVIOUS
  <2>2. engine = [facts |-> facts, reserved |-> none, blocks |-> blocks, mode |-> mode,
                  segment |-> 0]
    BY <1>1 DEF StreamInit
  <2> HIDE DEF mode, none, facts, blocks
  <2>. QED  BY <1>2, <2>1, <2>2, Zenon DEF Engines
<1>4. gate \in Gates
  <2> DEFINE none == {}
             zero == [p \in Producers |-> 0]
  <2>1. none \in SUBSET (Producers \X Nat) /\ none \in SUBSET Exclusions
        /\ zero \in [Producers -> Nat]
    OBVIOUS
  <2>2. gate = [first |-> zero, last |-> zero, forwarded |-> 0, hidden |-> none,
                taken |-> none]
    BY <1>1 DEF StreamInit
  <2> HIDE DEF none, zero
  <2>. QED  BY <1>2, <2>1, <2>2, Zenon DEF Gates
<1>5. lanes \in Lanes /\ cursor \in Cursors
  BY <1>1, <1>2 DEF StreamInit, Lanes, Cursors, NoLane
<1>6. stream \in Streams
  <2> DEFINE yes == TRUE
             none == << >>
  <2>1. yes \in BOOLEAN /\ none \in Seq(Facts) /\ none \in Seq(Blocks) /\ none \in Seq(Nat)
        /\ 0 \in Int
    OBVIOUS
  <2>2. stream = [valid |-> yes, facts |-> none, pending |-> none, chunk |-> 0,
                  starts |-> none, consumed |-> 0, segment |-> 0]
    BY <1>1 DEF StreamInit
  <2> HIDE DEF yes, none
  <2>. QED  BY <1>2, <2>1, <2>2, Zenon DEF Streams
<1>7. sent = << >> /\ sent \in Seq(StreamMessages)
  BY <1>1, NoMessage DEF StreamInit
<1>8. /\ \A p \in Producers : engine.facts[p] = 0 /\ lanes.queue[p] = << >> /\ lanes.occ[p] = 0
                              /\ gate.last[p] = 0
      /\ engine.reserved = {} /\ engine.blocks = << >> /\ engine.mode = "audible"
      /\ engine.segment = 0 /\ gate.hidden = {} /\ gate.taken = {} /\ gate.forwarded = 0
      /\ lanes.pcm = << >> /\ cursor.pc = "scan" /\ cursor.who = "worker"
      /\ stream.facts = << >> /\ stream.pending = << >> /\ stream.starts = << >>
      /\ stream.consumed = 0 /\ stream.segment = 0
  BY <1>1 DEF StreamInit
<1>9. \A x : ~Passed(sent, stream, x)
  BY <1>7, <1>8, NoMessage DEF Passed, Within
<1>10. \A s : PassedOf(s) = {}
  BY <1>9 DEF PassedOf
<1>11. Len(<< >>) = 0 /\ (\A i \in 1..0 : FALSE)
  OBVIOUS
<1>12. \A waiting, reserved, silenced : waiting = << >> /\ ~reserved /\ silenced = {}
            => Line({}, waiting, reserved, silenced, 0)
  BY <1>11 DEF Line
<1>13. Lossless
  <2>1. ASSUME NEW p \in Producers  PROVE FactLine(p)
    <3>1. {n \in 1..engine.facts[p] : <<p, n>> \in gate.hidden} = {}
      BY <1>8
    <3>. QED  BY <1>8, <1>10, <1>12, <3>1 DEF FactLine
  <2>2. PcmLine
    <3>1. {n \in 1..Len(engine.blocks) : engine.blocks[n] = NoSegment} = {}
      BY <1>8, <1>11
    <3>2. Len(engine.blocks) = 0 /\ ~FALSE
      BY <1>8
    <3>. QED  BY <1>8, <1>10, <1>12, <3>1, <3>2 DEF PcmLine
  <2>3. Trace(sent, stream) /\ Segmented(sent, stream, engine.blocks)
    BY <1>7, <1>8, <1>11, NoMessage DEF Trace, Segmented, SegmentsOf, InOrder
  <2>4. SegmentsWait
    BY <1>8, <1>11 DEF SegmentsWait, Waits
  <2>5. ExclusionsKept
    BY <1>8, <1>9 DEF ExclusionsKept
  <2>. QED  BY <2>1, <2>2, <2>3, <2>4, <2>5 DEF Lossless
<1>14. OccupancyIsExact /\ GateKeeps /\ Ends
  <2>1. OccupancyIsExact
    BY <1>8, <1>11 DEF OccupancyIsExact
  <2>2. GateKeeps /\ Ends
    BY <1>8 DEF GateKeeps, Ends
  <2>. QED  BY <2>1, <2>2
<1>. QED  BY <1>3, <1>4, <1>5, <1>6, <1>7, <1>13, <1>14 DEF StreamInv, StreamTyped

-----------------------------------------------------------------------------
\* Steps that move no item.

\* The writer's counts alone change.
LEMMA NothingPasses ==
    ASSUME sent' = sent, stream'.facts = stream.facts, stream'.pending = stream.pending,
           stream'.chunk = stream.chunk
    PROVE  /\ \A x : Passed(sent', stream', x) <=> Passed(sent, stream, x)
           /\ Trace(sent, stream) => Trace(sent', stream')
           /\ \A blocks : Segmented(sent, stream, blocks) => Segmented(sent', stream', blocks)
           /\ \A s : PassedOf(s)' = PassedOf(s)
<1>1. \A x : Passed(sent', stream', x) <=> Passed(sent, stream, x)
  BY DEF Passed
<1>2. \A s : PassedOf(s)' = PassedOf(s)
  BY <1>1 DEF PassedOf
<1>. QED  BY <1>1, <1>2 DEF Trace, Segmented

\* What is excluded changes with the gate and the exclusions that passed alone.
LEMMA ExclusionsStay ==
    ASSUME ExclusionsKept, gate'.last = gate.last, gate'.first = gate.first,
           gate'.hidden = gate.hidden, gate'.taken = gate.taken,
           \A d \in Exclusions : Passed(sent', stream', d) <=> Passed(sent, stream, d)
    PROVE  ExclusionsKept'
<1> DEFINE Declared(p, n) ==
             \E d \in Exclusions :
                  (d \in gate.taken \/ Passed(sent, stream, d)) /\ Declares(d, p, n)
           DeclaredNext(p, n) ==
             \E d \in Exclusions :
                  (d \in gate'.taken \/ Passed(sent', stream', d)) /\ Declares(d, p, n)
<1>1. SUFFICES ASSUME NEW p \in Producers, NEW n \in Nat
      PROVE <<p, n>> \in gate'.hidden <=>
              \/ gate'.last[p] # 0 /\ gate'.first[p] <= n /\ n <= gate'.last[p]
              \/ DeclaredNext(p, n)
  BY Zenon DEF ExclusionsKept
<1>2. DeclaredNext(p, n) <=> Declared(p, n)
  OBVIOUS
<1>3. <<p, n>> \in gate.hidden <=>
              \/ gate.last[p] # 0 /\ gate.first[p] <= n /\ n <= gate.last[p]
              \/ Declared(p, n)
  BY DEF ExclusionsKept
<1> HIDE DEF Declared, DeclaredNext
<1>. QED  BY <1>2, <1>3

\* Only the control of the Engine, of the consumer and of the gate changes.
LEMMA NothingMoves ==
    ASSUME Lossless, UNCHANGED <<stream, sent, gate, lanes.queue, lanes.pcm>>,
           engine'.facts = engine.facts, engine'.reserved = engine.reserved,
           engine'.blocks = engine.blocks, engine'.segment = engine.segment
    PROVE  Lossless'
<1>1. /\ \A x : Passed(sent', stream', x) <=> Passed(sent, stream, x)
      /\ Trace(sent, stream) => Trace(sent', stream')
      /\ \A blocks : Segmented(sent, stream, blocks) => Segmented(sent', stream', blocks)
      /\ \A s : PassedOf(s)' = PassedOf(s)
  BY NothingPasses
<1>2. \A p \in Producers : FactLine(p)'
  <2>. SUFFICES ASSUME NEW p \in Producers  PROVE FactLine(p)'
    OBVIOUS
  <2>1. FactLine(p) /\ PassedOf(p)' = PassedOf(p)
    BY <1>1 DEF Lossless
  <2>. QED  BY <2>1 DEF FactLine
<1>3. PcmLine'
  BY <1>1 DEF Lossless, PcmLine
<1>4. SegmentsWait'
  BY DEF Lossless, SegmentsWait
<1>5. ExclusionsKept'
  BY <1>1, ExclusionsStay DEF Lossless
<1>. QED  BY <1>1, <1>2, <1>3, <1>4, <1>5 DEF Lossless

Modes == {"audible", "paused", "silent", "declaring", "stopped"}
\* The Engine in another mode.
LEMMA ModeUpdated ==
    ASSUME engine \in Engines, NEW mode \in Modes, engine' = [engine EXCEPT !.mode = mode]
    PROVE  /\ engine' \in Engines /\ engine'.mode = mode /\ engine'.facts = engine.facts
           /\ engine'.reserved = engine.reserved /\ engine'.blocks = engine.blocks
           /\ engine'.segment = engine.segment
BY Zenon DEF Engines, Modes

\* A pause, a navigation and its end, and the end of the run.
LEMMA ModeSteps ==
    ASSUME StreamInv, Pause \/ Navigate \/ EndNavigation \/ ChannelBreaks
    PROVE  StreamInv'
<1>1. CASE ChannelBreaks
  <2>1. UNCHANGED <<engine, gate, lanes, cursor, stream, sent>>
    BY <1>1 DEF ChannelBreaks
  <2>2. StreamTyped' /\ OccupancyIsExact' /\ GateKeeps' /\ Ends'
    BY <2>1 DEF StreamInv, StreamTyped, OccupancyIsExact, GateKeeps, Ends
  <2>. QED  BY <2>1, <2>2, NothingMoves DEF StreamInv, Clean
<1>2. CASE Pause \/ Navigate \/ EndNavigation
  <2>1. /\ \/ engine.mode = "audible" /\ engine.reserved = {}
              /\ engine' = [engine EXCEPT !.mode = "paused"]
           \/ engine.mode = "paused" /\ engine' = [engine EXCEPT !.mode = "silent"]
           \/ engine.mode = "declaring" /\ gate.taken = {}
              /\ engine' = [engine EXCEPT !.mode = "paused"]
        /\ UNCHANGED <<gate, lanes, cursor, stream, sent, broken, faults>>
    BY <1>2 DEF Pause, Navigate, EndNavigation, NothingReserved
  <2>2. /\ engine' \in Engines /\ engine'.facts = engine.facts
        /\ engine'.reserved = engine.reserved /\ engine'.blocks = engine.blocks
        /\ engine'.segment = engine.segment
        /\ \/ engine.mode = "audible" /\ engine.reserved = {} /\ engine'.mode = "paused"
           \/ engine.mode = "paused" /\ engine'.mode = "silent"
           \/ engine.mode = "declaring" /\ gate.taken = {} /\ engine'.mode = "paused"
    <3>1. "paused" \in Modes /\ "silent" \in Modes /\ engine \in Engines
      BY DEF Modes, StreamInv, StreamTyped
    <3>. QED  BY <2>1, <3>1, ModeUpdated
  <2>3. StreamTyped'
    BY <2>1, <2>2 DEF StreamInv, StreamTyped
  <2>4. OccupancyIsExact'
    BY <2>1, <2>2 DEF StreamInv, OccupancyIsExact
  <2>5. GateKeeps'
    BY <2>1, <2>2 DEF StreamInv, GateKeeps
  <2>6. Ends'
    BY <2>1, <2>2 DEF StreamInv, Ends
  <2>7. Clean' => Lossless'
    BY <2>1, <2>2, NothingMoves DEF StreamInv, Clean
  <2>. QED  BY <2>3, <2>4, <2>5, <2>6, <2>7 DEF StreamInv
<1>. QED  BY <1>1, <1>2

\* The worker stops and the session consumes.
LEMMA StopStep ==
    ASSUME StreamInv, Stop
    PROVE  StreamInv'
<1>1. /\ engine.mode \in {"audible", "paused"} /\ engine.reserved = {}
      /\ cursor.who = "worker" /\ cursor.pc = "scan"
      /\ engine' = [engine EXCEPT !.mode = "stopped"]
      /\ cursor' = [cursor EXCEPT !.who = "session"]
      /\ UNCHANGED <<gate, lanes, stream, sent, broken, faults>>
  BY DEF Stop, NothingReserved
<1>2. /\ engine' \in Engines /\ engine'.facts = engine.facts
      /\ engine'.reserved = engine.reserved /\ engine'.blocks = engine.blocks
      /\ engine'.segment = engine.segment /\ engine'.mode = "stopped"
  <2>1. "stopped" \in Modes /\ engine \in Engines
    BY DEF Modes, StreamInv, StreamTyped
  <2>. QED  BY <1>1, <2>1, ModeUpdated
<1>3. cursor' \in Cursors /\ cursor'.who = "session" /\ cursor'.pc = "scan"
      /\ cursor'.lane = cursor.lane
  BY <1>1 DEF StreamInv, StreamTyped, Cursors
<1>4. StreamTyped'
  BY <1>1, <1>2, <1>3 DEF StreamInv, StreamTyped
<1>5. OccupancyIsExact'
  BY <1>1, <1>2, <1>3 DEF StreamInv, OccupancyIsExact
<1>6. GateKeeps'
  BY <1>1, <1>2 DEF StreamInv, GateKeeps
<1>7. Ends'
  BY <1>1, <1>2, <1>3 DEF StreamInv, Ends
<1>8. Clean' => Lossless'
  BY <1>1, <1>2, NothingMoves DEF StreamInv, Clean
<1>. QED  BY <1>4, <1>5, <1>6, <1>7, <1>8 DEF StreamInv

\* The line of a producer that a step leaves alone.
LEMMA LineStays ==
    ASSUME NEW p \in Producers, FactLine(p), PassedOf(p)' = PassedOf(p),
           lanes'.queue[p] = lanes.queue[p], p \in engine'.reserved <=> p \in engine.reserved,
           engine'.facts[p] = engine.facts[p],
           \A n \in Nat : <<p, n>> \in gate'.hidden <=> <<p, n>> \in gate.hidden
    PROVE  FactLine(p)'
<1> DEFINE silenced == {n \in 1..engine.facts[p] : <<p, n>> \in gate.hidden}
           silencedNext == {n \in 1..engine'.facts[p] : <<p, n>> \in gate'.hidden}
           reserved == p \in engine.reserved
           reservedNext == p \in engine'.reserved
<1>1. \A n \in 1..engine.facts[p] : n \in Nat
  BY DEF FactLine, Line
<1>2. silencedNext = silenced /\ reservedNext = reserved
  BY <1>1
<1>3. Line(PassedOf(p), lanes.queue[p], reserved, silenced, engine.facts[p])
  BY DEF FactLine
<1>. SUFFICES Line(PassedOf(p)', lanes'.queue[p], reservedNext, silencedNext, engine'.facts[p])
  BY DEF FactLine
<1> HIDE DEF silenced, silencedNext, reserved, reservedNext
<1>. QED  BY <1>2, <1>3

\* The types the steps use.
LEMMA Typed ==
    ASSUME StreamTyped
    PROVE  /\ engine.facts \in [Producers -> Nat] /\ engine.reserved \subseteq Producers
           /\ engine.blocks \in Seq(Int) /\ engine.segment \in Nat /\ engine.mode \in Modes
           /\ gate.first \in [Producers -> Nat] /\ gate.last \in [Producers -> Nat]
           /\ gate.forwarded \in Nat /\ gate.hidden \subseteq Producers \X Nat
           /\ gate.taken \subseteq Exclusions
           /\ lanes.queue \in [Producers -> Seq(Nat)] /\ lanes.occ \in [Producers -> Int]
           /\ lanes.pcm \in Seq(Nat) /\ lanes.losses \in Nat
           /\ cursor.lane \in 0..Slots /\ cursor.drain \in 0..Slots /\ cursor.next \in Nat
           /\ cursor.run \in Nat
           /\ Producers \subseteq Sources /\ Pcm \in Sources /\ Pcm \notin Producers
           /\ Inspection \notin Sources /\ Producers \subseteq 0..Slots /\ NoLane \notin Producers
           /\ Producers = (0..Slots) \ {NoLane} /\ Slots \in Nat \ {0}
           /\ \A p \in Producers :
                /\ engine.facts[p] \in Nat /\ gate.first[p] \in Nat /\ gate.last[p] \in Nat
                /\ lanes.queue[p] \in Seq(Nat) /\ Len(lanes.queue[p]) \in Nat
                /\ lanes.occ[p] \in Int
<1>1. /\ engine.facts \in [Producers -> Nat] /\ engine.reserved \subseteq Producers
      /\ engine.blocks \in Seq(Int) /\ engine.segment \in Nat /\ engine.mode \in Modes
  BY DEF StreamTyped, Engines, Modes
<1>2. /\ gate.first \in [Producers -> Nat] /\ gate.last \in [Producers -> Nat]
      /\ gate.forwarded \in Nat /\ gate.hidden \subseteq Producers \X Nat
      /\ gate.taken \subseteq Exclusions
  BY DEF StreamTyped, Gates
<1>3. /\ lanes.queue \in [Producers -> Seq(Nat)] /\ lanes.occ \in [Producers -> Int]
      /\ lanes.pcm \in Seq(Nat) /\ lanes.losses \in Nat
      /\ cursor.lane \in 0..Slots /\ cursor.drain \in 0..Slots /\ cursor.next \in Nat
      /\ cursor.run \in Nat
  BY DEF StreamTyped, Lanes, Cursors
<1>4. Slots \in Nat \ {0} /\ Inspection = -1 /\ Pcm = -2
  BY StreamAssumption DEF Inspection, Pcm
<1>5. /\ Producers \subseteq Sources /\ Pcm \in Sources /\ Pcm \notin Producers
      /\ Inspection \notin Sources /\ Producers \subseteq 0..Slots /\ NoLane \notin Producers
      /\ Producers = (0..Slots) \ {NoLane}
  BY <1>4 DEF Sources, Producers, NoLane
<1>6. \A p \in Producers :
        /\ engine.facts[p] \in Nat /\ gate.first[p] \in Nat /\ gate.last[p] \in Nat
        /\ lanes.queue[p] \in Seq(Nat) /\ Len(lanes.queue[p]) \in Nat
        /\ lanes.occ[p] \in Int
  BY <1>1, <1>2, <1>3, LenProperties
<1>. QED  BY <1>1, <1>2, <1>3, <1>4, <1>5, <1>6

\* Silent production widens the interval of its producer.
LEMMA ObserveSilent ==
    ASSUME StreamInv, NEW p \in Producers, Observe(p), Silent
    PROVE  StreamInv'
<1> DEFINE n == engine.facts[p] + 1
           first == IF gate.last[p] = 0 THEN n ELSE gate.first[p]
           facts == [engine.facts EXCEPT ![p] = n]
           firsts == [gate.first EXCEPT ![p] = first]
           lasts == [gate.last EXCEPT ![p] = n]
           hidden == gate.hidden \cup {<<p, n>>}
<1>1. /\ engine.mode = "silent" /\ p \notin engine.reserved
      /\ engine' = [engine EXCEPT !.facts = facts]
      /\ gate' = [gate EXCEPT !.first = firsts, !.last = lasts, !.hidden = hidden]
      /\ UNCHANGED <<lanes, cursor, stream, sent, broken, faults>>
  BY DEF Observe, Silent
<1>2. /\ n \in Nat /\ first \in Nat /\ facts \in [Producers -> Nat] /\ firsts \in [Producers -> Nat]
      /\ lasts \in [Producers -> Nat] /\ hidden \in SUBSET (Producers \X Nat)
      /\ n # 0 /\ n = engine.facts[p] + 1
      /\ facts[p] = n /\ firsts[p] = first /\ lasts[p] = n
      /\ \A q \in Producers : q # p => /\ facts[q] = engine.facts[q] /\ firsts[q] = gate.first[q]
                                       /\ lasts[q] = gate.last[q]
      /\ \A q \in Producers, m \in Nat :
            <<q, m>> \in hidden <=> <<q, m>> \in gate.hidden \/ (q = p /\ m = n)
  <2>1. engine.facts[p] \in Nat /\ gate.first[p] \in Nat
    BY Typed DEF StreamInv
  <2>2. n \in Nat /\ n # 0 /\ first \in Nat
    BY <2>1
  <2>3. /\ engine.facts \in [Producers -> Nat] /\ gate.first \in [Producers -> Nat]
        /\ gate.last \in [Producers -> Nat] /\ gate.hidden \subseteq Producers \X Nat
        /\ n = engine.facts[p] + 1
    BY Typed DEF StreamInv
  <2> HIDE DEF n, first
  <2>4. hidden \in SUBSET (Producers \X Nat)
    BY <2>2, <2>3
  <2>5. \A q \in Producers, m \in Nat :
            <<q, m>> \in hidden <=> <<q, m>> \in gate.hidden \/ (q = p /\ m = n)
    BY <2>2
  <2> HIDE DEF hidden
  <2>6. facts \in [Producers -> Nat] /\ firsts \in [Producers -> Nat]
        /\ lasts \in [Producers -> Nat]
    BY <2>2, <2>3
  <2>7. /\ facts[p] = n /\ firsts[p] = first /\ lasts[p] = n
        /\ \A q \in Producers : q # p => /\ facts[q] = engine.facts[q] /\ firsts[q] = gate.first[q]
                                         /\ lasts[q] = gate.last[q]
    BY <2>3
  <2>. QED  BY <2>2, <2>3, <2>4, <2>5, <2>6, <2>7
<1> HIDE DEF n, first, facts, firsts, lasts, hidden
<1>3. /\ engine' \in Engines /\ engine'.facts = facts /\ engine'.mode = engine.mode
      /\ engine'.reserved = engine.reserved /\ engine'.blocks = engine.blocks
      /\ engine'.segment = engine.segment
  BY <1>1, <1>2, Zenon DEF StreamInv, StreamTyped, Engines
<1>4. /\ gate' \in Gates /\ gate'.first = firsts /\ gate'.last = lasts /\ gate'.hidden = hidden
      /\ gate'.taken = gate.taken /\ gate'.forwarded = gate.forwarded
  BY <1>1, <1>2, Zenon DEF StreamInv, StreamTyped, Gates
<1>5. StreamTyped'
  BY <1>1, <1>3, <1>4 DEF StreamInv, StreamTyped
<1>6. OccupancyIsExact' /\ Ends'
  BY <1>1, <1>3, <1>4 DEF StreamInv, OccupancyIsExact, Ends
<1>7. GateKeeps'
  <2>1. GateKeeps /\ engine.facts[p] \in Nat /\ gate.last \in [Producers -> Nat]
    BY Typed DEF StreamInv
  <2>2. ASSUME NEW q \in Producers, gate'.last[q] # 0
        PROVE  /\ engine'.mode = "silent" /\ gate'.last[q] = engine'.facts[q]
               /\ 1 <= gate'.first[q] /\ gate'.first[q] <= gate'.last[q]
    <3>1. CASE q = p
      BY <1>1, <1>2, <1>3, <1>4, <2>1, <3>1 DEF GateKeeps, first
    <3>2. CASE q # p
      BY <1>1, <1>2, <1>3, <1>4, <2>1, <2>2, <3>2 DEF GateKeeps
    <3>. QED  BY <3>1, <3>2
  <2>3. ASSUME NEW q \in Producers, NEW m \in Nat, <<q, m>> \in gate'.hidden
        PROVE  m \in 1..engine'.facts[q]
    <3>1. CASE q = p /\ m = n
      BY <1>2, <1>3, <3>1
    <3>2. CASE <<q, m>> \in gate.hidden /\ q = p
      <4>1. m \in 1..engine.facts[p]
        BY <2>1, <3>2 DEF GateKeeps
      <4>. QED  BY <1>2, <1>3, <2>1, <3>2, <4>1
    <3>3. CASE <<q, m>> \in gate.hidden /\ q # p
      BY <1>2, <1>3, <2>1, <3>3 DEF GateKeeps
    <3>. QED  BY <1>2, <1>4, <2>3, <3>1, <3>2, <3>3
  <2>4. gate'.taken # {} => engine'.mode = "declaring"
    BY <1>1, <1>3, <1>4, <2>1 DEF GateKeeps
  <2>. QED  BY <2>2, <2>3, <2>4 DEF GateKeeps
<1>8. ASSUME Clean'  PROVE Lossless'
  <2>1. Lossless
    BY <1>1, <1>8 DEF StreamInv, Clean
  <2>2. /\ \A x : Passed(sent', stream', x) <=> Passed(sent, stream, x)
        /\ Trace(sent, stream) => Trace(sent', stream')
        /\ \A blocks : Segmented(sent, stream, blocks) => Segmented(sent', stream', blocks)
        /\ \A s : PassedOf(s)' = PassedOf(s)
    BY <1>1, NothingPasses
  <2>3. ASSUME NEW q \in Producers  PROVE FactLine(q)'
    <3>1. CASE q # p
      BY <1>1, <1>2, <1>3, <1>4, <2>1, <2>2, <3>1, LineStays DEF Lossless
    <3>2. CASE q = p
      <4> DEFINE no == p \in engine.reserved
                 silenced == {m \in 1..engine.facts[p] : <<p, m>> \in gate.hidden}
                 silencedNext == {m \in 1..engine'.facts[p] : <<p, m>> \in gate'.hidden}
      <4>1. engine.facts[p] \in Nat /\ lanes.queue[p] \in Seq(Nat)
        BY Typed DEF StreamInv
      <4>6. ~no /\ no \in BOOLEAN
        BY <1>1
      <4>2. Line(PassedOf(p), lanes.queue[p], no, silenced, engine.facts[p])
        BY <2>1 DEF Lossless, FactLine
      <4>3. silencedNext = silenced \cup {engine.facts[p] + 1}
        <5>1. <<p, engine.facts[p] + 1>> \in gate'.hidden
          BY <1>2, <1>4
        <5>2. \A m \in Nat : m # engine.facts[p] + 1
                      => (<<p, m>> \in gate'.hidden <=> <<p, m>> \in gate.hidden)
          BY <1>2, <1>4
        <5>3. engine'.facts[p] = engine.facts[p] + 1
          BY <1>2, <1>3
        <5>4. \A m : m \in 1..(engine.facts[p] + 1)
                      <=> m \in 1..engine.facts[p] \/ m = engine.facts[p] + 1
          BY <4>1
        <5>5. \A m \in 1..engine.facts[p] : m \in Nat /\ m # engine.facts[p] + 1
          BY <4>1
        <5>. QED  BY <5>1, <5>2, <5>3, <5>4, <5>5
      <4> HIDE DEF no, silenced, silencedNext
      <4>4. Line(PassedOf(p), lanes.queue[p], no, silencedNext, engine.facts[p] + 1)
        BY <4>1, <4>2, <4>3, <4>6, LineSilent
      <4>5. engine'.facts[p] = engine.facts[p] + 1 /\ PassedOf(p)' = PassedOf(p)
            /\ lanes'.queue[p] = lanes.queue[p] /\ engine'.reserved = engine.reserved
        BY <1>1, <1>2, <1>3, <2>2
      <4>. QED  BY <3>2, <4>4, <4>5 DEF FactLine, silencedNext, no
    <3>. QED  BY <3>1, <3>2
  <2>4. PcmLine' /\ SegmentsWait' /\ Trace(sent', stream')
        /\ Segmented(sent', stream', engine'.blocks)
    BY <1>1, <1>3, <1>4, <2>1, <2>2 DEF Lossless, PcmLine, SegmentsWait
  <2>5. ExclusionsKept'
    <3> DEFINE Declared(q, m) ==
                 \E d \in Exclusions :
                      (d \in gate.taken \/ Passed(sent, stream, d)) /\ Declares(d, q, m)
               DeclaredNext(q, m) ==
                 \E d \in Exclusions :
                      (d \in gate'.taken \/ Passed(sent', stream', d)) /\ Declares(d, q, m)
    <3>1. SUFFICES ASSUME NEW q \in Producers, NEW m \in Nat
          PROVE <<q, m>> \in gate'.hidden <=>
                  \/ gate'.last[q] # 0 /\ gate'.first[q] <= m /\ m <= gate'.last[q]
                  \/ DeclaredNext(q, m)
      BY Zenon DEF ExclusionsKept
    <3>2. DeclaredNext(q, m) <=> Declared(q, m)
      BY <1>1, <1>4
    <3>3. <<q, m>> \in gate.hidden <=>
                  \/ gate.last[q] # 0 /\ gate.first[q] <= m /\ m <= gate.last[q]
                  \/ Declared(q, m)
      BY <2>1, Zenon DEF Lossless, ExclusionsKept
    <3> HIDE DEF Declared, DeclaredNext
    <3>4. CASE q # p
      BY <1>2, <1>4, <3>2, <3>3, <3>4
    <3>5. CASE q = p
      <4>1. /\ gate.last[p] \in Nat /\ gate.first[p] \in Nat
            /\ gate.last[p] # 0 => gate.last[p] = engine.facts[p] /\ gate.first[p] <= gate.last[p]
        BY Typed DEF StreamInv, GateKeeps
      <4>2. gate'.last[p] = n /\ gate'.first[p] = (IF gate.last[p] = 0 THEN n ELSE gate.first[p])
        BY <1>2, <1>4 DEF first
      <4>3. <<p, m>> \in gate'.hidden <=> <<p, m>> \in gate.hidden \/ m = n
        BY <1>2, <1>4
      <4>4. engine.facts[p] \in Nat
        BY Typed DEF StreamInv
      <4>. QED  BY <1>2, <3>2, <3>3, <3>5, <4>1, <4>2, <4>3, <4>4
    <3>. QED  BY <3>4, <3>5
  <2>. QED  BY <2>3, <2>4, <2>5 DEF Lossless
<1>. QED  BY <1>5, <1>6, <1>7, <1>8 DEF StreamInv

\* The rest reserves its place.
LEMMA ObserveAudible ==
    ASSUME StreamInv, NEW p \in Producers, Observe(p), ~Silent
    PROVE  StreamInv'
<1> DEFINE n == engine.facts[p] + 1
           more == lanes.occ[p] + 1
           facts == [engine.facts EXCEPT ![p] = n]
           reserved == engine.reserved \cup {p}
           occ == [lanes.occ EXCEPT ![p] = more]
<1>1. /\ engine.mode = "audible" /\ p \notin engine.reserved
      /\ engine' = [engine EXCEPT !.facts = facts, !.reserved = reserved]
      /\ lanes' = [lanes EXCEPT !.occ = occ]
      /\ UNCHANGED <<gate, cursor, stream, sent, broken, faults>>
  BY DEF Observe, Silent, Producing
<1>2. /\ n \in Nat /\ facts \in [Producers -> Nat] /\ reserved \in SUBSET Producers
      /\ occ \in [Producers -> Int]
      /\ n # 0 /\ n = engine.facts[p] + 1 /\ more = lanes.occ[p] + 1 /\ more \in Int
      /\ facts[p] = n /\ occ[p] = more /\ p \in reserved
      /\ \A q \in Producers : q # p => /\ facts[q] = engine.facts[q] /\ occ[q] = lanes.occ[q]
                                       /\ q \in reserved <=> q \in engine.reserved
  <2>1. /\ engine.facts \in [Producers -> Nat] /\ lanes.occ \in [Producers -> Int]
        /\ engine.reserved \subseteq Producers
        /\ engine.facts[p] \in Nat /\ lanes.occ[p] \in Int
        /\ n = engine.facts[p] + 1 /\ more = lanes.occ[p] + 1
    BY Typed DEF StreamInv
  <2>2. n \in Nat /\ n # 0 /\ more \in Int
    BY <2>1
  <2> HIDE DEF n, more
  <2>. QED  BY <2>1, <2>2
<1> HIDE DEF n, more, facts, reserved, occ
<1>3. /\ engine' \in Engines /\ engine'.facts = facts /\ engine'.mode = engine.mode
      /\ engine'.reserved = reserved /\ engine'.blocks = engine.blocks
      /\ engine'.segment = engine.segment
  BY <1>1, <1>2, Zenon DEF StreamInv, StreamTyped, Engines
<1>4. /\ lanes' \in Lanes /\ lanes'.occ = occ /\ lanes'.queue = lanes.queue
      /\ lanes'.pcm = lanes.pcm /\ lanes'.losses = lanes.losses
  BY <1>1, <1>2, Zenon DEF StreamInv, StreamTyped, Lanes
<1>5. StreamTyped'
  BY <1>1, <1>3, <1>4 DEF StreamInv, StreamTyped
<1>6. OccupancyIsExact'
  <2>1. SUFFICES ASSUME NEW q \in Producers
                 PROVE  occ[q] = Len(lanes.queue[q]) + (IF q \in reserved THEN 1 ELSE 0)
                          + (IF cursor.pc = "release" /\ cursor.lane = q THEN 1 ELSE 0)
    BY <1>1, <1>3, <1>4 DEF OccupancyIsExact
  <2>2. lanes.occ[q] = Len(lanes.queue[q]) + (IF q \in engine.reserved THEN 1 ELSE 0)
                          + (IF cursor.pc = "release" /\ cursor.lane = q THEN 1 ELSE 0)
    BY DEF StreamInv, OccupancyIsExact
  <2> DEFINE unreleased == IF cursor.pc = "release" /\ cursor.lane = q THEN 1 ELSE 0
  <2>3. Len(lanes.queue[q]) \in Nat /\ unreleased \in {0, 1}
    BY Typed DEF StreamInv
  <2> HIDE DEF unreleased
  <2>4. CASE q = p
    <3>1. p \in reserved /\ p \notin engine.reserved /\ occ[p] = lanes.occ[p] + 1
      BY <1>1, <1>2
    <3>2. lanes.occ[p] = Len(lanes.queue[p]) + 0 + unreleased
      BY <2>2, <2>4, <3>1 DEF unreleased
    <3>3. occ[p] = Len(lanes.queue[p]) + 1 + unreleased
      BY <2>3, <2>4, <3>1, <3>2
    <3>. QED  BY <2>4, <3>1, <3>3 DEF unreleased
  <2>5. CASE q # p
    BY <1>2, <2>2, <2>5
  <2>. QED  BY <2>4, <2>5
<1>7. Ends'
  BY <1>1, <1>3, <1>4 DEF StreamInv, Ends
<1>8. GateKeeps'
  <2>1. GateKeeps /\ engine.facts[p] \in Nat
    BY Typed DEF StreamInv
  <2>2. \A q \in Producers : gate.last[q] = 0
    BY <1>1, <2>1 DEF GateKeeps
  <2>3. ASSUME NEW q \in Producers, NEW m \in Nat, <<q, m>> \in gate.hidden
        PROVE  m \in 1..facts[q]
    <3>1. m \in 1..engine.facts[q]
      BY <2>1, <2>3 DEF GateKeeps
    <3>2. CASE q = p
      BY <1>2, <2>1, <3>1, <3>2
    <3>3. CASE q # p
      BY <1>2, <3>1, <3>3
    <3>. QED  BY <3>2, <3>3
  <2>. QED  BY <1>1, <1>3, <2>1, <2>2, <2>3 DEF GateKeeps
<1>9. ASSUME Clean'  PROVE Lossless'
  <2>1. Lossless
    BY <1>1, <1>4, <1>9 DEF StreamInv, Clean
  <2>2. /\ \A x : Passed(sent', stream', x) <=> Passed(sent, stream, x)
        /\ Trace(sent, stream) => Trace(sent', stream')
        /\ \A blocks : Segmented(sent, stream, blocks) => Segmented(sent', stream', blocks)
        /\ \A s : PassedOf(s)' = PassedOf(s)
    BY <1>1, NothingPasses
  <2>3. ASSUME NEW q \in Producers  PROVE FactLine(q)'
    <3>1. CASE q # p
      BY <1>1, <1>2, <1>3, <1>4, <2>1, <2>2, <3>1, LineStays DEF Lossless
    <3>2. CASE q = p
      <4> DEFINE no == p \in engine.reserved
                 yes == p \in engine'.reserved
                 silenced == {m \in 1..engine.facts[p] : <<p, m>> \in gate.hidden}
                 silencedNext == {m \in 1..engine'.facts[p] : <<p, m>> \in gate'.hidden}
      <4>0. no \in BOOLEAN /\ yes \in BOOLEAN
        OBVIOUS
      <4>1. ~no /\ yes
            /\ engine.facts[p] \in Nat /\ lanes.queue[p] \in Seq(Nat)
        BY <1>1, <1>2, <1>3, Typed DEF StreamInv
      <4>2. Line(PassedOf(p), lanes.queue[p], no, silenced, engine.facts[p])
        BY <2>1 DEF Lossless, FactLine
      <4>3. silencedNext = silenced
        <5>1. \A m \in Nat : <<p, m>> \in gate.hidden => m \in 1..engine.facts[p]
          BY DEF StreamInv, GateKeeps
        <5>2. engine'.facts[p] = engine.facts[p] + 1 /\ gate' = gate
          BY <1>1, <1>2, <1>3
        <5>3. \A m \in 1..(engine.facts[p] + 1) : m \in Nat
          BY <4>1
        <5>4. \A m \in 1..engine.facts[p] : m \in 1..(engine.facts[p] + 1)
          BY <4>1
        <5>. QED  BY <5>1, <5>2, <5>3, <5>4
      <4> HIDE DEF no, yes, silenced, silencedNext
      <4>4. Line(PassedOf(p), lanes.queue[p], yes, silencedNext, engine.facts[p] + 1)
        BY <4>0, <4>1, <4>2, <4>3, LineReserved
      <4>5. engine'.facts[p] = engine.facts[p] + 1 /\ PassedOf(p)' = PassedOf(p)
            /\ lanes'.queue[p] = lanes.queue[p]
        BY <1>1, <1>2, <1>3, <1>4, <2>2
      <4>. QED  BY <3>2, <4>4, <4>5 DEF FactLine, silencedNext, yes
    <3>. QED  BY <3>1, <3>2
  <2>4. PcmLine' /\ SegmentsWait' /\ Trace(sent', stream')
        /\ Segmented(sent', stream', engine'.blocks)
    BY <1>1, <1>3, <1>4, <2>1, <2>2 DEF Lossless, PcmLine, SegmentsWait
  <2>5. ExclusionsKept'
    BY <1>1, <2>1, <2>2, ExclusionsStay DEF Lossless
  <2>. QED  BY <2>3, <2>4, <2>5 DEF Lossless
<1>. QED  BY <1>5, <1>6, <1>7, <1>8, <1>9 DEF StreamInv

\* A publication: what is not accepted is counted as lost.
LEMMA PublishStep ==
    ASSUME StreamInv, NEW p \in Producers, Publish(p)
    PROVE  StreamInv'
<1> DEFINE reserved == engine.reserved \ {p}
           less == lanes.occ[p] - 1
           occ == [lanes.occ EXCEPT ![p] = less]
           more == Append(lanes.queue[p], engine.facts[p])
           queues == [lanes.queue EXCEPT ![p] = more]
           lost == lanes.losses + 1
<1>1. /\ p \in engine.reserved /\ engine' = [engine EXCEPT !.reserved = reserved]
      /\ UNCHANGED <<gate, cursor, stream, sent, broken>>
      /\ \/ lanes' = [lanes EXCEPT !.queue = queues]
         \/ lanes' = [lanes EXCEPT !.occ = occ, !.losses = lost]
  BY DEF Publish
<1>2. /\ reserved \in SUBSET Producers /\ occ \in [Producers -> Int]
      /\ queues \in [Producers -> Seq(Nat)] /\ lost \in Nat /\ lost # 0
      /\ p \notin reserved /\ occ[p] = less /\ less = lanes.occ[p] - 1 /\ queues[p] = more
      /\ more = Append(lanes.queue[p], engine.facts[p])
      /\ Len(more) = Len(lanes.queue[p]) + 1 /\ lanes.occ[p] \in Int
      /\ \A q \in Producers : /\ Len(lanes.queue[q]) \in Nat
                              /\ q # p => /\ queues[q] = lanes.queue[q] /\ occ[q] = lanes.occ[q]
                                          /\ q \in reserved <=> q \in engine.reserved
  <2>1. /\ lanes.queue \in [Producers -> Seq(Nat)] /\ lanes.occ \in [Producers -> Int]
        /\ engine.reserved \subseteq Producers /\ lanes.losses \in Nat
        /\ engine.facts[p] \in Nat /\ lanes.occ[p] \in Int /\ lanes.queue[p] \in Seq(Nat)
        /\ \A q \in Producers : Len(lanes.queue[q]) \in Nat
    BY Typed DEF StreamInv
  <2>0. lost \in Nat /\ lost # 0 /\ less \in Int
    BY <2>1
  <2>2. more \in Seq(Nat) /\ Len(more) = Len(lanes.queue[p]) + 1
    BY <2>1, AppendProperties
  <2> HIDE DEF more, less, lost
  <2>4. occ \in [Producers -> Int] /\ queues \in [Producers -> Seq(Nat)] /\ occ[p] = less
        /\ queues[p] = more
        /\ \A q \in Producers : q # p => queues[q] = lanes.queue[q] /\ occ[q] = lanes.occ[q]
    BY <2>0, <2>1, <2>2
  <2>. QED  BY <2>0, <2>1, <2>2, <2>4 DEF more, less
<1> HIDE DEF reserved, less, occ, more, queues, lost
<1>3. /\ engine' \in Engines /\ engine'.facts = engine.facts /\ engine'.mode = engine.mode
      /\ engine'.reserved = reserved /\ engine'.blocks = engine.blocks
      /\ engine'.segment = engine.segment
  BY <1>1, <1>2, Zenon DEF StreamInv, StreamTyped, Engines
<1>4. /\ lanes' \in Lanes /\ lanes'.pcm = lanes.pcm
      /\ \/ lanes'.queue = queues /\ lanes'.occ = lanes.occ /\ lanes'.losses = lanes.losses
         \/ lanes'.queue = lanes.queue /\ lanes'.occ = occ /\ lanes'.losses = lost
  <2>1. CASE lanes' = [lanes EXCEPT !.queue = queues]
    <3>1. /\ lanes' \in Lanes /\ lanes'.pcm = lanes.pcm
          /\ lanes'.queue = queues /\ lanes'.occ = lanes.occ /\ lanes'.losses = lanes.losses
      BY <1>2, <2>1, Zenon DEF StreamInv, StreamTyped, Lanes
    <3>. QED  BY <3>1
  <2>2. CASE lanes' = [lanes EXCEPT !.occ = occ, !.losses = lost]
    <3>1. /\ lanes' \in Lanes /\ lanes'.pcm = lanes.pcm
          /\ lanes'.queue = lanes.queue /\ lanes'.occ = occ /\ lanes'.losses = lost
      BY <1>2, <2>2, Zenon DEF StreamInv, StreamTyped, Lanes
    <3>. QED  BY <3>1
  <2>. QED  BY <1>1, <2>1, <2>2
<1>5. StreamTyped'
  BY <1>1, <1>3, <1>4 DEF StreamInv, StreamTyped
<1>6. OccupancyIsExact'
  <2>1. SUFFICES ASSUME NEW q \in Producers
                 PROVE  lanes'.occ[q] = Len(lanes'.queue[q]) + (IF q \in reserved THEN 1 ELSE 0)
                          + (IF cursor.pc = "release" /\ cursor.lane = q THEN 1 ELSE 0)
    BY <1>1, <1>3 DEF OccupancyIsExact
  <2>2. lanes.occ[q] = Len(lanes.queue[q]) + (IF q \in engine.reserved THEN 1 ELSE 0)
                          + (IF cursor.pc = "release" /\ cursor.lane = q THEN 1 ELSE 0)
    BY DEF StreamInv, OccupancyIsExact
  <2> DEFINE unreleased == IF cursor.pc = "release" /\ cursor.lane = q THEN 1 ELSE 0
  <2>3. unreleased \in {0, 1}
    OBVIOUS
  <2> HIDE DEF unreleased
  <2>4. CASE q = p
    <3>1. p \notin reserved /\ p \in engine.reserved /\ Len(lanes.queue[p]) \in Nat
      BY <1>1, <1>2
    <3>2. \/ lanes'.occ[p] = lanes.occ[p] /\ Len(lanes'.queue[p]) = Len(lanes.queue[p]) + 1
          \/ lanes'.occ[p] = lanes.occ[p] - 1 /\ Len(lanes'.queue[p]) = Len(lanes.queue[p])
      BY <1>2, <1>4
    <3>3. lanes.occ[p] = Len(lanes.queue[p]) + 1 + unreleased
      BY <2>2, <2>4, <3>1 DEF unreleased
    <3>4. lanes'.occ[p] = Len(lanes'.queue[p]) + 0 + unreleased
      <4>1. lanes.occ[p] \in Int
        BY <1>2
      <4>2. CASE lanes'.occ[p] = lanes.occ[p] /\ Len(lanes'.queue[p]) = Len(lanes.queue[p]) + 1
        BY <2>3, <3>1, <3>3, <4>2
      <4>3. CASE lanes'.occ[p] = lanes.occ[p] - 1 /\ Len(lanes'.queue[p]) = Len(lanes.queue[p])
        BY <2>3, <3>1, <3>3, <4>3
      <4>. QED  BY <3>2, <4>2, <4>3
    <3>. QED  BY <2>4, <3>1, <3>4 DEF unreleased
  <2>5. CASE q # p
    BY <1>2, <1>4, <2>2, <2>5
  <2>. QED  BY <2>4, <2>5
<1>7. Ends'
  <2>1. engine.mode = "audible" /\ cursor.who = "worker"
    BY <1>1 DEF StreamInv, Ends
  <2>. QED  BY <1>1, <1>3, <2>1 DEF StreamInv, Ends
<1>8. GateKeeps'
  BY <1>1, <1>3 DEF StreamInv, GateKeeps
<1>9. ASSUME Clean'  PROVE Lossless'
  <2>1. Lossless /\ lanes'.queue = queues
    BY <1>1, <1>2, <1>4, <1>9 DEF StreamInv, Clean
  <2>2. /\ \A x : Passed(sent', stream', x) <=> Passed(sent, stream, x)
        /\ Trace(sent, stream) => Trace(sent', stream')
        /\ \A blocks : Segmented(sent, stream, blocks) => Segmented(sent', stream', blocks)
        /\ \A s : PassedOf(s)' = PassedOf(s)
    BY <1>1, NothingPasses
  <2>3. ASSUME NEW q \in Producers  PROVE FactLine(q)'
    <3>1. CASE q # p
      BY <1>1, <1>2, <1>3, <2>1, <2>2, <3>1, LineStays DEF Lossless
    <3>2. CASE q = p
      <4> DEFINE yes == p \in engine.reserved
                 no == p \in engine'.reserved
                 silenced == {m \in 1..engine.facts[p] : <<p, m>> \in gate.hidden}
      <4>0. no \in BOOLEAN /\ yes \in BOOLEAN
        OBVIOUS
      <4>1. ~no /\ yes
            /\ engine.facts[p] \in Nat /\ lanes.queue[p] \in Seq(Nat)
        BY <1>1, <1>2, <1>3, Typed DEF StreamInv
      <4>2. Line(PassedOf(p), lanes.queue[p], yes, silenced, engine.facts[p])
        BY <2>1 DEF Lossless, FactLine
      <4>3. {m \in 1..engine'.facts[p] : <<p, m>> \in gate'.hidden} = silenced
        BY <1>1, <1>3
      <4> HIDE DEF no, yes, silenced
      <4>4. Line(PassedOf(p), Append(lanes.queue[p], engine.facts[p]),
                    no, silenced, engine.facts[p])
        BY <4>0, <4>1, <4>2, LinePublished
      <4>5. engine'.facts[p] = engine.facts[p] /\ PassedOf(p)' = PassedOf(p)
            /\ lanes'.queue[p] = Append(lanes.queue[p], engine.facts[p])
        BY <1>2, <1>3, <2>1, <2>2
      <4>. QED  BY <3>2, <4>3, <4>4, <4>5 DEF FactLine, no
    <3>. QED  BY <3>1, <3>2
  <2>4. PcmLine' /\ SegmentsWait' /\ Trace(sent', stream')
        /\ Segmented(sent', stream', engine'.blocks)
    BY <1>1, <1>3, <1>4, <2>1, <2>2 DEF Lossless, PcmLine, SegmentsWait
  <2>5. ExclusionsKept'
    BY <1>1, <2>1, <2>2, ExclusionsStay DEF Lossless
  <2>. QED  BY <2>3, <2>4, <2>5 DEF Lossless
<1>. QED  BY <1>5, <1>6, <1>7, <1>8, <1>9 DEF StreamInv

\* The segments that wait, with a block more, a segment more and a block less.
MoreWaits(waiting, blocks, forwarded, played, starts, consumed, segment, more, after) ==
    /\ waiting \in Seq(Nat) /\ more \in Seq(Nat) /\ starts \in Seq(Nat)
    /\ {forwarded, played, consumed, segment} \subseteq Nat
    /\ Waits(waiting, blocks, forwarded, played, starts, consumed, segment)
    /\ Len(more) = Len(waiting) + 1
    /\ \A i \in 1..Len(waiting) : after[more[i]] = blocks[waiting[i]]
    /\ after[more[Len(waiting) + 1]] = played

\* A block more waits, in the segment that is played.
LEMMA WaitsMore ==
    ASSUME NEW waiting, NEW blocks, NEW forwarded, NEW played, NEW starts, NEW consumed,
           NEW segment, NEW more, NEW after,
           MoreWaits(waiting, blocks, forwarded, played, starts, consumed, segment, more, after)
    PROVE  Waits(more, after, forwarded + 1, played, starts, consumed, segment)
<1>4. /\ waiting \in Seq(Nat) /\ more \in Seq(Nat) /\ starts \in Seq(Nat)
      /\ forwarded \in Nat /\ played \in Nat /\ consumed \in Nat /\ segment \in Nat
      /\ Waits(waiting, blocks, forwarded, played, starts, consumed, segment)
      /\ Len(more) = Len(waiting) + 1
      /\ \A i \in 1..Len(waiting) : after[more[i]] = blocks[waiting[i]]
      /\ after[more[Len(waiting) + 1]] = played
  BY DEF MoreWaits
<1> USE <1>4
<1>1. /\ Len(waiting) \in Nat /\ Len(starts) \in Nat
      /\ \A j \in 1..Len(starts) : starts[j] \in Nat
  BY LenProperties, ElementOfSeq
<1>2. /\ segment + Len(starts) = played /\ forwarded = consumed + Len(waiting)
      /\ \A j \in 1..Len(starts) : starts[j] <= forwarded
  BY DEF Waits
<1>3. ASSUME NEW i \in 1..Len(more)
      PROVE  /\ after[more[i]] \in segment..played
             /\ \A j \in 1..Len(starts) : segment + j <= after[more[i]] <=> starts[j] < consumed + i
  <2>1. CASE i \in 1..Len(waiting)
    BY <2>1 DEF Waits
  <2>2. CASE i = Len(waiting) + 1
    <3>1. after[more[i]] = played /\ played \in segment..played
      BY <1>1, <1>2, <2>2
    <3>2. ASSUME NEW j \in 1..Len(starts)
          PROVE  segment + j <= played /\ starts[j] < consumed + i
      <4>1. starts[j] <= forwarded /\ starts[j] \in Nat
        BY <1>1, <1>2
      <4> DEFINE start == starts[j]
                 size == Len(starts)
      <4>2. start <= forwarded /\ start \in Nat /\ size \in Nat /\ j \in 1..size
            /\ segment + size = played
        BY <1>1, <1>2, <4>1
      <4> HIDE DEF start, size
      <4>3. segment + j <= played
        BY <4>2
      <4>4. start < consumed + i
        BY <1>1, <1>2, <2>2, <4>2
      <4>. QED  BY <4>3, <4>4 DEF start
    <3>. QED  BY <3>1, <3>2
  <2>. QED  BY <1>1, <2>1, <2>2
<1>5. forwarded + 1 = consumed + Len(more)
  BY <1>1, <1>2
<1>6. \A j \in 1..Len(starts) : starts[j] <= forwarded + 1
  BY <1>1, <1>2
<1>. QED  BY <1>2, <1>3, <1>5, <1>6, Zenon DEF Waits

OneMoreSegment(waiting, blocks, forwarded, played, starts, consumed, segment, more) ==
    /\ waiting \in Seq(Nat) /\ starts \in Seq(Nat)
    /\ {forwarded, played, consumed, segment} \subseteq Nat
    /\ Waits(waiting, blocks, forwarded, played, starts, consumed, segment)
    /\ more = Append(starts, forwarded)

\* A segment more starts, after every block that waits.
LEMMA WaitsResumed ==
    ASSUME NEW waiting, NEW blocks, NEW forwarded, NEW played, NEW starts, NEW consumed,
           NEW segment, NEW more,
           OneMoreSegment(waiting, blocks, forwarded, played, starts, consumed, segment, more)
    PROVE  /\ more \in Seq(Nat)
           /\ Waits(waiting, blocks, forwarded, played + 1, more, consumed, segment)
<1>7. /\ waiting \in Seq(Nat) /\ starts \in Seq(Nat)
      /\ forwarded \in Nat /\ played \in Nat /\ consumed \in Nat /\ segment \in Nat
      /\ Waits(waiting, blocks, forwarded, played, starts, consumed, segment)
      /\ more = Append(starts, forwarded)
  BY DEF OneMoreSegment
<1>8. more \in Seq(Nat)
  BY <1>7, AppendProperties
<1> USE <1>7, <1>8
<1>1. /\ Len(waiting) \in Nat /\ Len(starts) \in Nat
      /\ \A j \in 1..Len(starts) : starts[j] \in Nat
      /\ Len(more) = Len(starts) + 1 /\ more[Len(starts) + 1] = forwarded
      /\ \A j \in 1..Len(starts) : more[j] = starts[j]
  BY LenProperties, ElementOfSeq, AppendProperties
<1>2. /\ segment + Len(starts) = played /\ forwarded = consumed + Len(waiting)
      /\ \A j \in 1..Len(starts) : starts[j] <= forwarded
  BY DEF Waits
<1>3. \A j \in 1..Len(more) : j \in 1..Len(starts) \/ j = Len(starts) + 1
  BY <1>1
<1>4. \A j \in 1..Len(more) : more[j] <= forwarded
  BY <1>1, <1>2, <1>3
<1>5. ASSUME NEW i \in 1..Len(waiting)
      PROVE  /\ blocks[waiting[i]] \in segment..(played + 1)
             /\ \A j \in 1..Len(more) : segment + j <= blocks[waiting[i]] <=> more[j] < consumed + i
  <2> DEFINE block == blocks[waiting[i]]
             size == Len(starts)
  <2>1. /\ block \in segment..played
        /\ \A j \in 1..size : segment + j <= block <=> starts[j] < consumed + i
    BY DEF Waits
  <2>2. size \in Nat /\ segment + size = played
    BY <1>1, <1>2
  <2>3. more[size + 1] = consumed + Len(waiting) /\ Len(waiting) \in Nat
    BY <1>1, <1>2
  <2>4. \A j \in 1..Len(more) : (j \in 1..size /\ more[j] = starts[j]) \/ j = size + 1
    BY <1>1, <1>3
  <2> HIDE DEF block, size
  <2>5. ~(segment + (size + 1) <= block) /\ block \in segment..(played + 1)
    BY <2>1, <2>2
  <2>6. ~(more[size + 1] < consumed + i)
    BY <2>3
  <2>7. \A j \in 1..Len(more) : segment + j <= block <=> more[j] < consumed + i
    BY <2>1, <2>4, <2>5, <2>6
  <2>. QED  BY <2>5, <2>7 DEF block
<1>6. segment + Len(more) = played + 1
  <2> DEFINE size == Len(starts)
             longer == Len(more)
  <2>1. longer = size + 1 /\ size \in Nat /\ segment + size = played
    BY <1>1, <1>2
  <2> HIDE DEF size, longer
  <2>2. segment + longer = played + 1
    BY <2>1
  <2>. QED  BY <2>2 DEF longer
<1>. QED  BY <1>1, <1>2, <1>4, <1>5, <1>6 DEF Waits

Passing(waiting, blocks, forwarded, played, starts, consumed, segment, rest, begun) ==
    /\ waiting \in Seq(Nat) /\ starts \in Seq(Nat) /\ rest \in Seq(Nat)
    /\ {forwarded, played, consumed, segment, begun} \subseteq Nat
    /\ Waits(waiting, blocks, forwarded, played, starts, consumed, segment)
    /\ waiting # << >> /\ begun = Begun(starts, consumed)
    /\ Len(rest) = Len(starts) - begun /\ \A j \in 1..Len(rest) : rest[j] = starts[begun + j]

\* The first block that waits passes: it was played in the segment that has begun.
LEMMA WaitsPassed ==
    ASSUME NEW waiting, NEW blocks, NEW forwarded, NEW played, NEW starts, NEW consumed,
           NEW segment, NEW rest, NEW begun,
           Passing(waiting, blocks, forwarded, played, starts, consumed, segment, rest, begun)
    PROVE  /\ blocks[Head(waiting)] = segment + begun
           /\ Waits(Tail(waiting), blocks, forwarded, played, rest, consumed + 1, segment + begun)
<1>11. /\ Waits(waiting, blocks, forwarded, played, starts, consumed, segment)
       /\ waiting # << >> /\ begun = Begun(starts, consumed) /\ Len(rest) = Len(starts) - begun
       /\ \A j \in 1..Len(rest) : rest[j] = starts[begun + j]
  BY DEF Passing
<1>12. /\ waiting \in Seq(Nat) /\ starts \in Seq(Nat) /\ rest \in Seq(Nat)
       /\ forwarded \in Nat /\ played \in Nat /\ consumed \in Nat /\ segment \in Nat
       /\ begun \in Nat
  BY DEF Passing
<1> USE <1>12
<1> DEFINE tail == Tail(waiting)
<1>1. /\ Len(waiting) \in Nat \ {0} /\ Len(starts) \in Nat /\ Head(waiting) = waiting[1]
      /\ \A j \in 1..Len(starts) : starts[j] \in Nat
      /\ Len(tail) = Len(waiting) - 1 /\ \A i \in 1..Len(tail) : tail[i] = waiting[i + 1]
  BY <1>11, LenProperties, ElementOfSeq, HeadTailProperties, EmptySeq
<1> HIDE DEF tail
<1>2. /\ segment + Len(starts) = played /\ forwarded = consumed + Len(waiting)
      /\ \A j \in 1..Len(starts) : starts[j] <= forwarded
  BY <1>11 DEF Waits
<1>3. /\ begun \in 0..Len(starts) /\ \A i \in 1..begun : starts[i] <= consumed
      /\ begun < Len(starts) => consumed < starts[begun + 1]
  BY <1>11, BegunIsThere
<1>4. \A i \in 1..Len(waiting) :
        /\ blocks[waiting[i]] \in segment..played
        /\ \A j \in 1..Len(starts) : segment + j <= blocks[waiting[i]] <=> starts[j] < consumed + i
  BY <1>11 DEF Waits
<1> DEFINE size == Len(starts)
<1>5. size \in Nat /\ segment + size = played /\ begun <= size
  BY <1>1, <1>2, <1>3
<1>0. /\ \A j \in 1..size : starts[j] \in Nat
      /\ \A j \in 1..begun : j \in 1..size /\ starts[j] <= consumed
      /\ begun < size => consumed < starts[begun + 1]
  BY <1>1, <1>2, <1>3
<1>6. blocks[waiting[1]] = segment + begun
  <2> DEFINE first == blocks[waiting[1]]
  <2>1. first \in segment..played
        /\ \A j \in 1..size : segment + j <= first <=> starts[j] < consumed + 1
    BY <1>1, <1>4
  <2> HIDE DEF first, size
  <2>2. segment + begun <= first
    <3>1. CASE begun = 0
      BY <2>1, <3>1
    <3>2. CASE begun # 0
      <4>1. begun \in 1..begun
        BY <3>2
      <4>2. begun \in 1..size /\ starts[begun] \in Nat /\ starts[begun] <= consumed
        BY <1>0, <4>1
      <4>3. starts[begun] < consumed + 1
        <5> DEFINE start == starts[begun]
        <5>1. start \in Nat /\ start <= consumed
          BY <4>2
        <5> HIDE DEF start
        <5>2. start < consumed + 1
          BY <5>1
        <5>. QED  BY <5>2 DEF start
      <4>. QED  BY <2>1, <4>2, <4>3
    <3>. QED  BY <3>1, <3>2
  <2>3. first <= segment + begun
    <3>1. CASE begun = size
      BY <1>5, <2>1, <3>1
    <3>2. CASE begun < size
      <4>0. begun + 1 \in 1..size
        BY <1>5, <3>2
      <4>1. begun + 1 \in 1..size /\ starts[begun + 1] \in Nat /\ consumed < starts[begun + 1]
        BY <1>0, <3>2, <4>0
      <4>2. ~(starts[begun + 1] < consumed + 1)
        <5> DEFINE start == starts[begun + 1]
        <5>1. start \in Nat /\ consumed < start
          BY <4>1
        <5> HIDE DEF start
        <5>2. ~(start < consumed + 1)
          BY <5>1
        <5>. QED  BY <5>2 DEF start
      <4>3. ~(segment + (begun + 1) <= first)
        BY <2>1, <4>1, <4>2
      <4>. QED  BY <1>5, <2>1, <4>3
    <3>. QED  BY <1>5, <3>1, <3>2
  <2>4. first \in Int
    BY <2>1
  <2>5. first = segment + begun
    BY <2>2, <2>3, <2>4
  <2>. QED  BY <2>5 DEF first
<1>7. ASSUME NEW i \in 1..Len(tail)
      PROVE  /\ blocks[tail[i]] \in (segment + begun)..played
             /\ \A j \in 1..Len(rest) :
                  (segment + begun) + j <= blocks[tail[i]] <=> rest[j] < (consumed + 1) + i
  <2> DEFINE block == blocks[tail[i]]
             left == Len(rest)
  <2>0. Len(tail) = Len(waiting) - 1 /\ Len(waiting) \in Nat
    BY <1>1
  <2>1. i + 1 \in 1..Len(waiting) /\ tail[i] = waiting[i + 1] /\ i \in Nat /\ i # 0
    <3>1. i \in Nat /\ i # 0 /\ i + 1 \in 1..Len(waiting)
      BY <2>0
    <3>. QED  BY <1>1, <3>1
  <2>2. block \in segment..played
        /\ \A j \in 1..size : segment + j <= block <=> starts[j] < consumed + (i + 1)
    BY <1>4, <2>1
  <2>3. left = size - begun
    BY <1>11
  <2>6. \A j \in 1..left : rest[j] = starts[begun + j]
    BY <1>11
  <2> HIDE DEF block, left, size
  <2>4. segment + begun <= block
    <3>1. CASE begun = 0
      BY <2>2, <3>1
    <3>2. CASE begun # 0
      <4>1. begun \in 1..begun
        BY <3>2
      <4>2. begun \in 1..size /\ starts[begun] \in Nat /\ starts[begun] <= consumed
        BY <1>0, <4>1
      <4>3. starts[begun] < consumed + (i + 1)
        <5> DEFINE start == starts[begun]
        <5>1. start \in Nat /\ start <= consumed
          BY <4>2
        <5>2. i \in Nat
          BY <2>1
        <5> HIDE DEF start
        <5>3. start < consumed + (i + 1)
          BY <5>1, <5>2
        <5>. QED  BY <5>3 DEF start
      <4>. QED  BY <2>2, <4>2, <4>3
    <3>. QED  BY <3>1, <3>2
  <2>5. ASSUME NEW j \in 1..left
        PROVE  (segment + begun) + j <= block <=> rest[j] < (consumed + 1) + i
    <3>1. begun + j \in 1..size
      BY <1>5, <2>3
    <3>0. rest[j] = starts[begun + j]
      BY <2>6
    <3>2. segment + (begun + j) <= block <=> starts[begun + j] < consumed + (i + 1)
      BY <2>2, <3>1
    <3>5. left \in Nat /\ j \in Nat
      BY <1>5, <2>3
    <3>3. segment + (begun + j) = (segment + begun) + j
      BY <3>5
    <3>4. consumed + (i + 1) = (consumed + 1) + i
      BY <2>1
    <3>. QED  BY <3>0, <3>2, <3>3, <3>4, Zenon
  <2>7. block \in (segment + begun)..played
    BY <1>5, <2>2, <2>4
  <2>. QED  BY <2>5, <2>7 DEF block, left
<1>8. segment + begun + Len(rest) = played
  <2> DEFINE left == Len(rest)
  <2>1. left = size - begun
    BY <1>11
  <2> HIDE DEF left, size
  <2>2. segment + begun + left = played
    BY <1>5, <2>1
  <2>. QED  BY <2>2 DEF left
<1>9. forwarded = (consumed + 1) + Len(tail)
  BY <1>1, <1>2
<1>10. \A j \in 1..Len(rest) : rest[j] <= forwarded
  <2> DEFINE left == Len(rest)
  <2>1. left = size - begun
    BY <1>11
  <2>2. \A j \in 1..left : rest[j] = starts[begun + j]
    BY <1>11
  <2>3. \A j \in 1..size : starts[j] <= forwarded
    BY <1>2
  <2> HIDE DEF left, size
  <2>4. \A j \in 1..left : begun + j \in 1..size
    BY <1>5, <2>1
  <2>. QED  BY <2>2, <2>3, <2>4 DEF left
<1>. QED  BY <1>1, <1>6, <1>7, <1>8, <1>9, <1>10 DEF Waits, tail

\* A block more leaves the segments of those that passed as they are.
LEMMA BlocksGrow ==
    ASSUME StreamTyped, PcmLine, NEW segment \in Int,
           engine'.blocks = Append(engine.blocks, segment)
    PROVE  /\ Len(engine.blocks) \in Nat /\ Len(engine'.blocks) = Len(engine.blocks) + 1
           /\ \A n \in 1..Len(engine.blocks) : engine'.blocks[n] = engine.blocks[n]
           /\ engine'.blocks[Len(engine.blocks) + 1] = segment
           /\ Segmented(sent, stream, engine.blocks) => Segmented(sent, stream, engine'.blocks)
<1>1. /\ Len(engine.blocks) \in Nat /\ Len(engine'.blocks) = Len(engine.blocks) + 1
      /\ \A n \in 1..Len(engine.blocks) : engine'.blocks[n] = engine.blocks[n]
      /\ engine'.blocks[Len(engine.blocks) + 1] = segment
  BY Typed, AppendProperties, LenProperties
<1>2. ASSUME NEW x, Passed(sent, stream, x), x.producer = Pcm
      PROVE  engine'.blocks[x.n] = engine.blocks[x.n]
  <2>1. x.n \in PassedOf(Pcm)
    BY <1>2, PassedItems, Typed
  <2>2. PassedOf(Pcm) \subseteq 1..Len(engine.blocks)
    BY DEF PcmLine, Line
  <2>. QED  BY <1>1, <2>1, <2>2
<1>3. ASSUME Segmented(sent, stream, engine.blocks)
      PROVE  Segmented(sent, stream, engine'.blocks)
  <2>1. ASSUME NEW i \in 1..Len(sent), NEW j \in 1..Len(sent[i].items),
               sent[i].items[j].producer = Pcm
        PROVE  engine'.blocks[sent[i].items[j].n] = sent[i].segment
    <3>1. Passed(sent, stream, sent[i].items[j])
      BY Zenon DEF Passed, Holds
    <3>2. engine.blocks[sent[i].items[j].n] = sent[i].segment
      BY <1>3, <2>1, Zenon DEF Segmented, SegmentsOf
    <3>. QED  BY <1>2, <2>1, <3>1, <3>2
  <2>2. ASSUME NEW k \in 1..Len(stream.pending)
        PROVE  engine'.blocks[stream.pending[k].n] = stream.chunk
    <3>1. Passed(sent, stream, stream.pending[k])
      BY Zenon DEF Passed, Within
    <3>2. stream.pending[k].producer = Pcm
      BY StreamFields, Kinds DEF StreamTyped
    <3>. QED  BY <1>2, <1>3, <3>1, <3>2 DEF Segmented
  <2>. QED  BY <2>1, <2>2, Zenon DEF Segmented, SegmentsOf
<1>. QED  BY <1>1, <1>3

\* PCM: silent, accepted or lost.
LEMMA ObservePcmStep ==
    ASSUME StreamInv, ObservePcm
    PROVE  StreamInv'
<1> DEFINE n == Len(engine.blocks) + 1
           segment == IF Silent THEN NoSegment ELSE engine.segment
           blocks == Append(engine.blocks, segment)
           forwarded == gate.forwarded + 1
           pcm == Append(lanes.pcm, n)
           lost == lanes.losses + 1
<1>1. /\ engine.mode \in {"audible", "silent"} /\ engine' = [engine EXCEPT !.blocks = blocks]
      /\ UNCHANGED <<cursor, stream, sent, broken, faults>>
      /\ \/ Silent /\ UNCHANGED <<gate, lanes>>
         \/ /\ ~Silent /\ gate' = [gate EXCEPT !.forwarded = forwarded]
            /\ \/ lanes' = [lanes EXCEPT !.pcm = pcm]
               \/ lanes' = [lanes EXCEPT !.losses = lost]
  BY DEF ObservePcm, Silent, Producing
<1>2. /\ segment \in Int /\ blocks \in Seq(Int) /\ n \in Nat /\ forwarded \in Nat
      /\ pcm \in Seq(Nat) /\ lost \in Nat /\ lost # 0 /\ n = Len(engine.blocks) + 1
      /\ Len(lanes.pcm) \in Nat /\ Len(pcm) = Len(lanes.pcm) + 1 /\ pcm[Len(lanes.pcm) + 1] = n
      /\ \A i \in 1..Len(lanes.pcm) : pcm[i] = lanes.pcm[i]
      /\ forwarded = gate.forwarded + 1
  <2>1. /\ engine.blocks \in Seq(Int) /\ engine.segment \in Nat /\ lanes.pcm \in Seq(Nat)
        /\ Len(engine.blocks) \in Nat /\ gate.forwarded \in Nat /\ lanes.losses \in Nat
    BY Typed, LenProperties DEF StreamInv
  <2>2. segment \in Int /\ n \in Nat /\ forwarded \in Nat /\ lost \in Nat /\ lost # 0
    BY <2>1 DEF NoSegment
  <2> HIDE DEF segment
  <2>3. blocks \in Seq(Int)
    BY <2>1, <2>2, AppendProperties
  <2> HIDE DEF n
  <2>4. /\ pcm \in Seq(Nat) /\ Len(lanes.pcm) \in Nat /\ Len(pcm) = Len(lanes.pcm) + 1
        /\ pcm[Len(lanes.pcm) + 1] = n /\ \A i \in 1..Len(lanes.pcm) : pcm[i] = lanes.pcm[i]
    BY <2>1, <2>2, AppendProperties, LenProperties
  <2>. QED  BY <2>1, <2>2, <2>3, <2>4 DEF n
<1> HIDE DEF n, segment, blocks, forwarded, pcm, lost
<1>3. /\ engine' \in Engines /\ engine'.facts = engine.facts /\ engine'.mode = engine.mode
      /\ engine'.reserved = engine.reserved /\ engine'.blocks = blocks
      /\ engine'.segment = engine.segment
  BY <1>1, <1>2, Zenon DEF StreamInv, StreamTyped, Engines
<1>4. /\ gate' \in Gates /\ gate'.first = gate.first /\ gate'.last = gate.last
      /\ gate'.hidden = gate.hidden /\ gate'.taken = gate.taken
      /\ Silent => gate'.forwarded = gate.forwarded
      /\ ~Silent => gate'.forwarded = forwarded
  <2>1. CASE UNCHANGED gate /\ Silent
    BY <2>1 DEF StreamInv, StreamTyped
  <2>2. CASE ~Silent /\ gate' = [gate EXCEPT !.forwarded = forwarded]
    <3>1. /\ gate' \in Gates /\ gate'.first = gate.first /\ gate'.last = gate.last
          /\ gate'.hidden = gate.hidden /\ gate'.taken = gate.taken
          /\ gate'.forwarded = forwarded
      BY <1>2, <2>2, Zenon DEF StreamInv, StreamTyped, Gates
    <3>. QED  BY <2>2, <3>1
  <2>. QED  BY <1>1, <2>1, <2>2
<1>5. /\ lanes' \in Lanes /\ lanes'.queue = lanes.queue /\ lanes'.occ = lanes.occ
      /\ \/ Silent /\ lanes'.pcm = lanes.pcm
         \/ ~Silent /\ lanes'.pcm = pcm
         \/ lanes'.losses = lost
      /\ lanes'.losses \in {lanes.losses, lost}
  <2>1. CASE UNCHANGED lanes /\ Silent
    BY <2>1 DEF StreamInv, StreamTyped
  <2>2. CASE ~Silent /\ lanes' = [lanes EXCEPT !.pcm = pcm]
    <3>1. /\ lanes' \in Lanes /\ lanes'.queue = lanes.queue /\ lanes'.occ = lanes.occ
          /\ lanes'.pcm = pcm /\ lanes'.losses = lanes.losses
      BY <1>2, <2>2, Zenon DEF StreamInv, StreamTyped, Lanes
    <3>. QED  BY <2>2, <3>1
  <2>3. CASE lanes' = [lanes EXCEPT !.losses = lost]
    <3>1. /\ lanes' \in Lanes /\ lanes'.queue = lanes.queue /\ lanes'.occ = lanes.occ
          /\ lanes'.losses = lost
      BY <1>2, <2>3, Zenon DEF StreamInv, StreamTyped, Lanes
    <3>. QED  BY <3>1
  <2>. QED  BY <1>1, <2>1, <2>2, <2>3
<1>6. StreamTyped'
  BY <1>1, <1>3, <1>4, <1>5 DEF StreamInv, StreamTyped
<1>7. OccupancyIsExact' /\ GateKeeps'
  <2>1. OccupancyIsExact'
    BY <1>1, <1>3, <1>5 DEF StreamInv, OccupancyIsExact
  <2>2. GateKeeps'
    BY <1>3, <1>4 DEF StreamInv, GateKeeps
  <2>. QED  BY <2>1, <2>2
<1>8. Ends'
  <2>1. cursor.who = "worker"
    BY <1>1 DEF StreamInv, Ends
  <2>. QED  BY <1>1, <1>3, <2>1 DEF StreamInv, Ends
<1>9. ASSUME Clean'  PROVE Lossless'
  <2>1. /\ Lossless
        /\ \/ Silent /\ lanes'.pcm = lanes.pcm
           \/ ~Silent /\ lanes'.pcm = pcm
    BY <1>1, <1>2, <1>5, <1>9 DEF StreamInv, Clean
  <2>2. /\ \A x : Passed(sent', stream', x) <=> Passed(sent, stream, x)
        /\ Trace(sent, stream) => Trace(sent', stream')
        /\ \A bs : Segmented(sent, stream, bs) => Segmented(sent', stream', bs)
        /\ \A s : PassedOf(s)' = PassedOf(s)
    BY <1>1, NothingPasses
  <2>3. ASSUME NEW q \in Producers  PROVE FactLine(q)'
    BY <1>1, <1>3, <1>4, <1>5, <2>1, <2>2, LineStays DEF Lossless
  <2>4. /\ Len(engine.blocks) \in Nat /\ Len(engine'.blocks) = Len(engine.blocks) + 1
        /\ \A m \in 1..Len(engine.blocks) : engine'.blocks[m] = engine.blocks[m]
        /\ engine'.blocks[n] = segment
        /\ Segmented(sent, stream, engine.blocks) => Segmented(sent, stream, engine'.blocks)
    <3>1. StreamTyped /\ PcmLine /\ engine'.blocks = Append(engine.blocks, segment)
          /\ n = Len(engine.blocks) + 1
      BY <1>2, <1>3, <2>1 DEF StreamInv, Lossless, blocks
    <3>. QED  BY <1>2, <3>1, BlocksGrow
  <2>5. Trace(sent', stream') /\ Segmented(sent', stream', engine'.blocks)
    BY <2>1, <2>2, <2>4 DEF Lossless
  <2>6. ExclusionsKept'
    BY <1>1, <1>4, <2>1, <2>2, ExclusionsStay DEF Lossless
  <2> DEFINE silenced == {m \in 1..Len(engine.blocks) : engine.blocks[m] = NoSegment}
             silencedNext == {m \in 1..Len(engine'.blocks) : engine'.blocks[m] = NoSegment}
             no == FALSE
             yes == TRUE
  <2>7. /\ Line(PassedOf(Pcm), lanes.pcm, no, silenced, Len(engine.blocks)) /\ SegmentsWait
        /\ no \in BOOLEAN /\ ~no /\ yes \in BOOLEAN /\ yes /\ lanes.pcm \in Seq(Nat)
    BY <2>1, Typed DEF StreamInv, Lossless, PcmLine
  <2>8. Line(PassedOf(Pcm)', lanes'.pcm, no, silencedNext, Len(engine'.blocks)) => PcmLine'
    BY DEF PcmLine
  <2>9. \A i \in 1..Len(lanes.pcm) : /\ lanes.pcm[i] \in 1..Len(engine.blocks)
                                     /\ engine'.blocks[lanes.pcm[i]] = engine.blocks[lanes.pcm[i]]
    BY <2>4, <2>7 DEF Line
  <2>10. CASE Silent /\ lanes'.pcm = lanes.pcm
    <3>1. silencedNext = silenced \cup {Len(engine.blocks) + 1}
      <4>1. segment = NoSegment
        BY <2>10 DEF segment
      <4>2. \A m : m \in 1..(Len(engine.blocks) + 1)
                    <=> m \in 1..Len(engine.blocks) \/ m = Len(engine.blocks) + 1
        BY <2>4
      <4>. QED  BY <1>2, <2>4, <4>1, <4>2
    <3> HIDE DEF silenced, silencedNext, no, yes
    <3>2. Line(PassedOf(Pcm), lanes.pcm, no, silencedNext, Len(engine.blocks) + 1)
      BY <2>4, <2>7, <3>1, LineSilent
    <3>3. PcmLine'
      BY <2>2, <2>4, <2>8, <2>10, <3>2
    <3>4. SegmentsWait'
      BY <1>1, <1>3, <1>4, <2>7, <2>9, <2>10 DEF SegmentsWait, Waits
    <3>. QED  BY <2>3, <2>5, <2>6, <3>3, <3>4 DEF Lossless
  <2>11. CASE ~Silent /\ lanes'.pcm = pcm
    <3>0. segment = engine.segment /\ engine.segment \in Nat
      BY <2>11, Typed DEF segment, StreamInv
    <3>1. silencedNext = silenced
      <4>1. segment # NoSegment
        BY <3>0 DEF NoSegment
      <4>2. \A m : m \in 1..(Len(engine.blocks) + 1)
                    <=> m \in 1..Len(engine.blocks) \/ m = Len(engine.blocks) + 1
        BY <2>4
      <4>. QED  BY <1>2, <2>4, <4>1, <4>2
    <3> HIDE DEF silenced, silencedNext, no, yes
    <3>2. Line(PassedOf(Pcm), lanes.pcm, yes, silencedNext, Len(engine.blocks) + 1)
      BY <2>4, <2>7, <3>1, LineReserved
    <3>3. Line(PassedOf(Pcm), Append(lanes.pcm, n), no, silencedNext, n)
      BY <1>2, <2>7, <3>2, LinePublished
    <3>4. PcmLine'
      BY <1>2, <2>2, <2>4, <2>8, <2>11, <3>3 DEF pcm
    <3>5. SegmentsWait'
      <4>1. /\ stream.starts \in Seq(Nat) /\ stream.consumed \in Nat /\ stream.segment \in Nat
            /\ gate.forwarded \in Nat
        BY StreamFields, Typed DEF StreamInv, StreamTyped
      <4>2. \A i \in 1..Len(lanes.pcm) : engine'.blocks[pcm[i]] = engine.blocks[lanes.pcm[i]]
        BY <1>2, <2>9
      <4>3. engine'.blocks[pcm[Len(lanes.pcm) + 1]] = engine.segment
        BY <1>2, <2>4, <3>0
      <4> DEFINE waiting == lanes.pcm
                 before == engine.blocks
                 after == engine'.blocks
                 start == stream.starts
                 consumed == stream.consumed
                 played == engine.segment
                 first == stream.segment
                 passed == gate.forwarded
      <4>4. /\ Waits(waiting, before, passed, played, start, consumed, first)
            /\ \A i \in 1..Len(waiting) : after[pcm[i]] = before[waiting[i]]
            /\ after[pcm[Len(waiting) + 1]] = played
            /\ pcm \in Seq(Nat) /\ waiting \in Seq(Nat) /\ Len(pcm) = Len(waiting) + 1
            /\ played \in Nat /\ start \in Seq(Nat) /\ consumed \in Nat /\ first \in Nat
            /\ passed \in Nat
        BY <1>2, <2>7, <3>0, <4>1, <4>2, <4>3 DEF SegmentsWait
      <4> HIDE DEF waiting, before, after, start, consumed, played, first, passed
      <4>5. Waits(pcm, after, passed + 1, played, start, consumed, first)
        <5>1. MoreWaits(waiting, before, passed, played, start, consumed, first, pcm, after)
          BY <4>4 DEF MoreWaits
        <5>. QED  BY <5>1, WaitsMore
      <4> USE DEF waiting, before, after, start, consumed, played, first, passed
      <4>. QED  BY <1>1, <1>2, <1>3, <1>4, <2>11, <4>5 DEF SegmentsWait
    <3>. QED  BY <2>3, <2>5, <2>6, <3>4, <3>5 DEF Lossless
  <2>. QED  BY <2>1, <2>10, <2>11
<1>. QED  BY <1>6, <1>7, <1>8, <1>9 DEF StreamInv

\* One item more passes.
LEMMA PassedMore ==
    ASSUME StreamTyped, NEW s \in Sources, NEW n \in Nat,
           \A x : Passed(sent', stream', x) <=> Passed(sent, stream, x) \/ x = Item(s, n)
    PROVE  /\ PassedOf(s)' = PassedOf(s) \cup {n}
           /\ \A t : t # s => PassedOf(t)' = PassedOf(t)
           /\ \A d \in Exclusions : Passed(sent', stream', d) <=> Passed(sent, stream, d)
<1>1. \A t, m : Item(t, m) = Item(s, n) <=> t = s /\ m = n
  BY DEF Item
<1>2. \A d \in Exclusions : d # Item(s, n)
  <2>1. \A d \in Exclusions : d.producer = Inspection
    BY DEF Exclusions
  <2>2. Item(s, n).producer = s /\ s # Inspection
    BY Typed DEF Item
  <2>. QED  BY <2>1, <2>2
<1>3. PassedOf(s)' = PassedOf(s) \cup {n}
  BY <1>1 DEF PassedOf
<1>4. \A t : t # s => PassedOf(t)' = PassedOf(t)
  BY <1>1 DEF PassedOf
<1>. QED  BY <1>2, <1>3, <1>4

\* The head of a source's lane comes after what passed.
LEMMA HeadIsNext ==
    ASSUME StreamTyped, NEW s \in Sources, NEW waiting \in Seq(Nat), waiting # << >>,
           NEW reserved, NEW silenced, NEW total,
           Line(PassedOf(s), waiting, reserved, silenced, total)
    PROVE  /\ Head(waiting) \in Nat /\ Tail(waiting) \in Seq(Nat)
           /\ \A x : Passed(sent, stream, x) => Before(x, Item(s, Head(waiting)))
<1>1. /\ Len(waiting) \in Nat \ {0} /\ Head(waiting) = waiting[1] /\ Head(waiting) \in Nat
      /\ Tail(waiting) \in Seq(Nat)
  BY LenProperties, HeadTailProperties, EmptySeq, ElementOfSeq
<1>2. \A n \in PassedOf(s) : n < Head(waiting)
  <2>1. 1 \in 1..Len(waiting)
    BY <1>1
  <2>. QED  BY <1>1, <2>1 DEF Line
<1>3. ASSUME NEW x, Passed(sent, stream, x)  PROVE Before(x, Item(s, Head(waiting)))
  <2>1. Item(s, Head(waiting)).producer = s /\ Item(s, Head(waiting)).n = Head(waiting)
    BY DEF Item
  <2>2. x.producer = s => x.n \in PassedOf(s)
    BY <1>3, PassedItems
  <2>. QED  BY <1>2, <2>1, <2>2 DEF Before
<1>. QED  BY <1>1, <1>3

\* The consumer takes the fact at the head of a lane.
LEMMA TakesStep ==
    ASSUME StreamInv, NEW p \in Producers, NEW next \in Nat, NEW run \in Nat,
           Takes(p, next, run), Consuming, cursor.pc # "release"
    PROVE  StreamInv'
<1> DEFINE waiting == lanes.queue[p]
           fact == Item(p, Head(waiting))
           rest == Tail(waiting)
           queues == [lanes.queue EXCEPT ![p] = rest]
           pc == "release"
<1>1. /\ waiting # << >> /\ lanes' = [lanes EXCEPT !.queue = queues]
      /\ Delivers(Kept(stream, fact))
      /\ cursor' = [cursor EXCEPT !.pc = pc, !.lane = p, !.next = next, !.drain = p, !.run = run]
      /\ UNCHANGED <<engine, gate, broken>>
  BY DEF Takes
<1>2. /\ StreamTyped /\ lanes.queue \in [Producers -> Seq(Nat)] /\ waiting \in Seq(Nat)
      /\ p \in 0..Slots /\ p \in Sources
  BY Typed DEF StreamInv
<1>3. /\ Head(waiting) \in Nat /\ rest \in Seq(Nat) /\ Len(rest) = Len(waiting) - 1
      /\ Len(waiting) \in Nat
  BY <1>1, <1>2, LenProperties, HeadTailProperties, EmptySeq, ElementOfSeq
<1>4. fact \in Facts
  BY <1>3 DEF Facts, Item
<1>5. /\ stream' \in Streams /\ sent' \in Seq(StreamMessages)
      /\ stream'.valid =>
           /\ stream'.starts = stream.starts /\ stream'.consumed = stream.consumed
           /\ stream'.segment = stream.segment /\ Given(fact)
  <2> HIDE DEF fact
  <2>. QED  BY <1>1, <1>2, <1>4, FactDelivered
<1>6. /\ queues \in [Producers -> Seq(Nat)] /\ queues[p] = rest
      /\ \A q \in Producers : q # p => queues[q] = lanes.queue[q]
  <2> HIDE DEF rest
  <2>. QED  BY <1>2, <1>3
<1> HIDE DEF queues, fact, rest, pc
<1>7. /\ lanes' \in Lanes /\ lanes'.queue = queues /\ lanes'.occ = lanes.occ
      /\ lanes'.pcm = lanes.pcm /\ lanes'.losses = lanes.losses
  BY <1>1, <1>6, Zenon DEF StreamInv, StreamTyped, Lanes
<1>8. cursor' \in Cursors /\ cursor'.pc = pc /\ cursor'.lane = p /\ cursor'.who = cursor.who
  <2>1. pc \in {"scan", "take", "release", "pcm"}
    BY DEF pc
  <2>2. cursor \in Cursors
    BY <1>2 DEF StreamTyped
  <2>. QED  BY <1>1, <1>2, <2>1, <2>2, Zenon DEF Cursors
<1>9. StreamTyped'
  BY <1>1, <1>2, <1>5, <1>7, <1>8 DEF StreamTyped
<1>10. OccupancyIsExact'
  <2>1. SUFFICES ASSUME NEW q \in Producers
                 PROVE  lanes.occ[q] = Len(queues[q]) + (IF q \in engine.reserved THEN 1 ELSE 0)
                          + (IF p = q THEN 1 ELSE 0)
    BY <1>1, <1>7, <1>8 DEF OccupancyIsExact, pc
  <2> DEFINE reserved == IF q \in engine.reserved THEN 1 ELSE 0
  <2>2. lanes.occ[q] = Len(lanes.queue[q]) + reserved + 0
    BY DEF StreamInv, OccupancyIsExact
  <2>3. reserved \in {0, 1} /\ Len(lanes.queue[q]) \in Nat
    BY Typed DEF StreamInv
  <2> HIDE DEF reserved
  <2>4. CASE q = p
    <3> DEFINE size == Len(waiting)
               left == Len(rest)
    <3>1. left = size - 1 /\ size \in Nat /\ lanes.occ[q] = size + reserved
      BY <1>3, <2>2, <2>3, <2>4
    <3> HIDE DEF size, left
    <3>2. lanes.occ[q] = left + reserved + 1
      BY <2>3, <3>1
    <3>. QED  BY <1>6, <2>4, <3>2 DEF left, reserved
  <2>5. CASE q # p
    BY <1>6, <2>2, <2>5 DEF reserved
  <2>. QED  BY <2>4, <2>5
<1>11. GateKeeps' /\ Ends'
  <2>1. GateKeeps'
    BY <1>1 DEF StreamInv, GateKeeps
  <2>2. Ends'
    <3>1. cursor.who # "none" /\ pc # "pcm"
      BY DEF Consuming, pc
    <3>. QED  BY <1>1, <1>8, <3>1 DEF StreamInv, Ends
  <2>. QED  BY <2>1, <2>2
<1>12. ASSUME Clean'  PROVE Lossless'
  <2>1. Lossless /\ stream'.valid /\ Given(fact)
    BY <1>5, <1>7, <1>12 DEF StreamInv, Clean, Given
  <2> DEFINE reserved == p \in engine.reserved
             silenced == {n \in 1..engine.facts[p] : <<p, n>> \in gate.hidden}
  <2>2. Line(PassedOf(p), waiting, reserved, silenced, engine.facts[p])
    BY <2>1 DEF Lossless, FactLine
  <2>3. reserved \in BOOLEAN
    OBVIOUS
  <2>9. engine.facts[p] \in Nat
    BY <1>2, Typed
  <2> HIDE DEF waiting, reserved, silenced
  <2>4. \A x : Passed(sent, stream, x) => Before(x, fact)
    BY <1>1, <1>2, <2>2, HeadIsNext DEF fact
  <2>5. /\ Trace(sent', stream') /\ Segmented(sent', stream', engine.blocks)
        /\ \A x : Passed(sent', stream', x) <=> Passed(sent, stream, x) \/ x = fact
    BY <2>1, <2>4 DEF Lossless, Given
  <2>6. /\ PassedOf(p)' = PassedOf(p) \cup {Head(waiting)}
        /\ \A t : t # p => PassedOf(t)' = PassedOf(t)
        /\ \A d \in Exclusions : Passed(sent', stream', d) <=> Passed(sent, stream, d)
    BY <1>2, <1>3, <2>5, PassedMore DEF fact
  <2>7. ASSUME NEW q \in Producers  PROVE FactLine(q)'
    <3>1. CASE q # p
      BY <1>1, <1>6, <1>7, <2>1, <2>6, <3>1, LineStays DEF Lossless
    <3>2. CASE q = p
      <4>1. Line(PassedOf(p) \cup {Head(waiting)}, rest, reserved, silenced, engine.facts[p])
        BY <1>1, <1>2, <2>2, <2>3, <2>9, LinePassed DEF rest
      <4>. QED  BY <1>1, <1>6, <1>7, <2>6, <3>2, <4>1 DEF FactLine, reserved, silenced
    <3>. QED  BY <3>1, <3>2
  <2>8. PcmLine' /\ SegmentsWait'
    <3>1. PassedOf(Pcm)' = PassedOf(Pcm)
      BY <1>2, <2>6, Typed
    <3>2. PcmLine'
      BY <1>1, <1>7, <2>1, <3>1 DEF Lossless, PcmLine
    <3>3. SegmentsWait'
      BY <1>1, <1>5, <1>7, <2>1 DEF Lossless, SegmentsWait
    <3>. QED  BY <3>2, <3>3
  <2>10. ExclusionsKept'
    BY <1>1, <2>1, <2>6, ExclusionsStay DEF Lossless
  <2>. QED  BY <1>1, <2>5, <2>7, <2>8, <2>10 DEF Lossless
<1>. QED  BY <1>9, <1>10, <1>11, <1>12 DEF StreamInv

\* The first of some lanes, from the one that is next.
LEMMA LeastLater ==
    ASSUME StreamTyped, NEW S, S \subseteq Producers, S # {}
    PROVE  (CHOOSE q \in S : \A o \in S : Later(q) <= Later(o)) \in S
<1> DEFINE N == {Later(q) : q \in S}
<1>1. \A q \in S : Later(q) \in Nat
  <2>1. Slots \in Nat \ {0} /\ cursor.next \in Nat
    BY Typed
  <2>2. \A q \in S : q \in Int
    BY StreamAssumption DEF Producers
  <2>. QED  BY <2>1, <2>2 DEF Later
<1>2. N \subseteq Nat /\ N # {}
  BY <1>1
<1>3. PICK n \in N : \A m \in N : n <= m
  BY <1>2, LeastNumber
<1>4. PICK q \in S : n = Later(q)
  BY <1>3
<1>5. \A o \in S : Later(q) <= Later(o)
  BY <1>3, <1>4
<1>. QED  BY <1>4, <1>5

\* The three ways to choose a lane take the head of a producer's lane.
LEMMA TakeActions ==
    ASSUME StreamInv, DrainLane \/ TakeSelected \/ FallBack
    PROVE  StreamInv'
<1>1. /\ StreamTyped /\ cursor.lane \in 0..Slots /\ cursor.drain \in 0..Slots
      /\ cursor.next \in Nat /\ cursor.run \in Nat /\ Producers = (0..Slots) \ {NoLane}
      /\ Slots \in Nat \ {0}
  BY Typed DEF StreamInv
<1>2. \A p \in Producers : (p + 1) % Slots \in Nat
  BY <1>1
<1>3. CASE DrainLane
  <2>1. cursor.drain \in Producers /\ cursor.run + 1 \in Nat /\ Consuming
        /\ cursor.pc # "release" /\ Takes(cursor.drain, cursor.next, cursor.run + 1)
    BY <1>1, <1>3 DEF DrainLane, Draining
  <2>. QED  BY <1>1, <2>1, TakesStep
<1>4. CASE TakeSelected
  <2>1. cursor.lane \in Producers /\ Consuming /\ cursor.pc # "release"
        /\ Takes(cursor.lane, (cursor.lane + 1) % Slots, 1)
    BY <1>1, <1>4 DEF TakeSelected
  <2>. QED  BY <1>2, <2>1, TakesStep
<1>5. CASE FallBack
  <2> DEFINE p == CHOOSE q \in Others : \A o \in Others : Later(q) <= Later(o)
  <2>1. Consuming /\ cursor.pc # "release" /\ Others # {} /\ Takes(p, (p + 1) % Slots, 1)
    BY <1>5 DEF FallBack
  <2>2. p \in Others /\ Others \subseteq Producers
    BY <1>1, <2>1, LeastLater DEF Others
  <2> HIDE DEF p
  <2>. QED  BY <1>2, <2>1, <2>2, TakesStep
<1>. QED  BY <1>3, <1>4, <1>5

\* The consumer looks for a fact and finds the fullest lane, or none.
LEMMA SelectLaneStep ==
    ASSUME StreamInv, SelectLane
    PROVE  StreamInv'
<1> DEFINE lane == Fullest
           pc == "take"
<1>1. /\ cursor' = [cursor EXCEPT !.pc = pc, !.lane = lane, !.drain = NoLane, !.run = 0]
      /\ cursor.pc = "scan" /\ cursor.who # "none"
      /\ UNCHANGED <<engine, gate, lanes, stream, sent, broken, faults>>
  BY DEF SelectLane, Consuming
<1>2. lane \in 0..Slots /\ NoLane \in 0..Slots
  <2> DEFINE busy == {p \in Producers : lanes.occ[p] # 0}
             fuller(p, q) == lanes.occ[p] * Lane(q) > lanes.occ[q] * Lane(p)
             best == {p \in busy : \A q \in busy : ~fuller(q, p)}
  <2>1. lane = IF best = {} THEN NoLane
                ELSE CHOOSE p \in best : \A q \in best : Later(p) <= Later(q)
    BY DEF Fullest
  <2>2. best \subseteq Producers
    OBVIOUS
  <2> HIDE DEF best, lane
  <2>3. best # {} => (CHOOSE p \in best : \A q \in best : Later(p) <= Later(q)) \in best
    BY <2>2, LeastLater DEF StreamInv
  <2>4. Producers \subseteq 0..Slots /\ NoLane \in 0..Slots
    <3>1. NoLane \in 0..Slots
      BY StreamAssumption DEF NoLane
    <3>. QED  BY <3>1, Typed DEF StreamInv
  <2>. QED  BY <2>1, <2>2, <2>3, <2>4
<1> HIDE DEF lane, pc
<1>3. cursor' \in Cursors /\ cursor'.pc = pc /\ cursor'.who = cursor.who
  <2>1. pc \in {"scan", "take", "release", "pcm"} /\ cursor \in Cursors /\ 0 \in Nat
    BY DEF pc, StreamInv, StreamTyped
  <2>. QED  BY <1>1, <1>2, <2>1, Zenon DEF Cursors
<1>4. StreamTyped'
  BY <1>1, <1>3 DEF StreamInv, StreamTyped
<1>5. OccupancyIsExact' /\ GateKeeps' /\ Ends'
  <2>1. pc = "take"
    BY DEF pc
  <2>2. OccupancyIsExact'
    BY <1>1, <1>3, <2>1 DEF StreamInv, OccupancyIsExact
  <2>3. GateKeeps' /\ Ends'
    BY <1>1, <1>3, <2>1 DEF StreamInv, GateKeeps, Ends
  <2>. QED  BY <2>2, <2>3
<1>6. Clean' => Lossless'
  BY <1>1, NothingMoves DEF StreamInv, Clean
<1>. QED  BY <1>4, <1>5, <1>6 DEF StreamInv

\* No lane has a fact.
LEMMA NoFactStep ==
    ASSUME StreamInv, NoFact
    PROVE  StreamInv'
<1> DEFINE pc == "pcm"
<1>1. /\ cursor' = [cursor EXCEPT !.pc = pc] /\ cursor.pc = "take" /\ cursor.who # "none"
      /\ NothingSelected /\ Others = {}
      /\ UNCHANGED <<engine, gate, lanes, stream, sent, broken, faults>>
  BY DEF NoFact, Consuming
<1>2. pc \in {"scan", "take", "release", "pcm"} /\ pc # "release"
  OBVIOUS
<1> HIDE DEF pc
<1>3. cursor' \in Cursors /\ cursor'.pc = pc /\ cursor'.who = cursor.who
  <2>1. cursor \in Cursors
    BY DEF StreamInv, StreamTyped
  <2>. QED  BY <1>1, <1>2, <2>1, Zenon DEF Cursors
<1>4. \A p \in Producers : lanes.queue[p] = << >>
  <2>1. NoLane \notin Producers
    BY Typed DEF StreamInv
  <2>2. ASSUME NEW p \in Producers  PROVE lanes.queue[p] = << >>
    <3>1. CASE p = cursor.lane
      BY <1>1, <2>1, <3>1 DEF NothingSelected
    <3>2. CASE p # cursor.lane
      BY <1>1, <3>2 DEF Others
    <3>. QED  BY <3>1, <3>2
  <2>. QED  BY <2>2
<1>5. StreamTyped'
  BY <1>1, <1>3 DEF StreamInv, StreamTyped
<1>6. OccupancyIsExact' /\ GateKeeps' /\ Ends'
  <2>1. OccupancyIsExact'
    BY <1>1, <1>2, <1>3 DEF StreamInv, OccupancyIsExact
  <2>2. GateKeeps' /\ Ends'
    BY <1>1, <1>3, <1>4 DEF StreamInv, GateKeeps, Ends
  <2>. QED  BY <2>1, <2>2
<1>7. Clean' => Lossless'
  BY <1>1, NothingMoves DEF StreamInv, Clean
<1>. QED  BY <1>5, <1>6, <1>7 DEF StreamInv

\* The occupancy is given back.
LEMMA ReleaseStep ==
    ASSUME StreamInv, Release
    PROVE  StreamInv'
<1> DEFINE p == cursor.lane
           less == lanes.occ[p] - 1
           occ == [lanes.occ EXCEPT ![p] = less]
           pc == IF cursor.who = "worker" THEN "pcm" ELSE "scan"
<1>1. /\ lanes' = [lanes EXCEPT !.occ = occ] /\ cursor' = [cursor EXCEPT !.pc = pc]
      /\ cursor.pc = "release" /\ cursor.who # "none"
      /\ UNCHANGED <<engine, gate, stream, sent, broken, faults>>
  BY DEF Release, Consuming
<1>2. /\ pc \in {"scan", "take", "release", "pcm"} /\ pc # "release"
      /\ cursor.who # "worker" => pc # "pcm"
  OBVIOUS
<1>3. /\ occ \in [Producers -> Int]
      /\ \A q \in Producers : occ[q] = IF q = p THEN lanes.occ[q] - 1 ELSE lanes.occ[q]
  <2>1. lanes.occ \in [Producers -> Int] /\ \A q \in Producers : lanes.occ[q] \in Int
    BY Typed DEF StreamInv
  <2>2. p \in Producers => less \in Int
    BY <2>1
  <2>3. p \in Producers => less = lanes.occ[p] - 1
    OBVIOUS
  <2> HIDE DEF less, p
  <2>4. occ \in [Producers -> Int]
    BY <2>1, <2>2
  <2>5. \A q \in Producers : occ[q] = IF q = p THEN less ELSE lanes.occ[q]
    BY <2>1
  <2>. QED  BY <2>3, <2>4, <2>5
<1> HIDE DEF p, less, occ, pc
<1>4. /\ lanes' \in Lanes /\ lanes'.occ = occ /\ lanes'.queue = lanes.queue
      /\ lanes'.pcm = lanes.pcm /\ lanes'.losses = lanes.losses
  BY <1>1, <1>3, Zenon DEF StreamInv, StreamTyped, Lanes
<1>5. cursor' \in Cursors /\ cursor'.pc = pc /\ cursor'.who = cursor.who
      /\ cursor'.lane = cursor.lane
  <2>1. cursor \in Cursors
    BY DEF StreamInv, StreamTyped
  <2>. QED  BY <1>1, <1>2, <2>1, Zenon DEF Cursors
<1>6. StreamTyped'
  BY <1>1, <1>4, <1>5 DEF StreamInv, StreamTyped
<1>7. OccupancyIsExact'
  <2>1. SUFFICES ASSUME NEW q \in Producers
                 PROVE  occ[q] = Len(lanes.queue[q]) + (IF q \in engine.reserved THEN 1 ELSE 0) + 0
    BY <1>1, <1>2, <1>4, <1>5 DEF OccupancyIsExact
  <2> DEFINE reserved == IF q \in engine.reserved THEN 1 ELSE 0
  <2>2. lanes.occ[q] = Len(lanes.queue[q]) + reserved + (IF p = q THEN 1 ELSE 0)
    BY <1>1 DEF StreamInv, OccupancyIsExact, p
  <2>3. reserved \in {0, 1} /\ Len(lanes.queue[q]) \in Nat
    BY Typed DEF StreamInv
  <2> HIDE DEF reserved
  <2>4. occ[q] = Len(lanes.queue[q]) + reserved + 0
    <3>1. CASE q = p
      <4>1. lanes.occ[q] = Len(lanes.queue[q]) + reserved + 1
        BY <2>2, <3>1
      <4>2. occ[q] = lanes.occ[q] - 1
        BY <1>3, <3>1
      <4>. QED  BY <2>3, <4>1, <4>2
    <3>2. CASE q # p
      BY <1>3, <2>2, <3>2
    <3>. QED  BY <3>1, <3>2
  <2>. QED  BY <2>4 DEF reserved
<1>8. GateKeeps' /\ Ends'
  BY <1>1, <1>2, <1>4, <1>5 DEF StreamInv, GateKeeps, Ends
<1>9. Clean' => Lossless'
  BY <1>1, <1>4, NothingMoves DEF StreamInv, Clean
<1>. QED  BY <1>6, <1>7, <1>8, <1>9 DEF StreamInv

\* The consumer takes the block at the head of the PCM lane, in the segment it was played in.
LEMMA TakePcmStep ==
    ASSUME StreamInv, TakePcm
    PROVE  StreamInv'
<1> DEFINE waiting == lanes.pcm
           block == Item(Pcm, Head(waiting))
           rest == Tail(waiting)
           begun == Begun(stream.starts, stream.consumed)
           pc == IF cursor.who = "worker" THEN "scan" ELSE "pcm"
<1>1. /\ waiting # << >> /\ lanes' = [lanes EXCEPT !.pcm = rest]
      /\ Delivers(Consumed(stream, Head(waiting)))
      /\ cursor' = [cursor EXCEPT !.pc = pc] /\ cursor.pc = "pcm" /\ cursor.who # "none"
      /\ UNCHANGED <<engine, gate, broken>>
  BY DEF TakePcm, Consuming
<1>2. /\ StreamTyped /\ waiting \in Seq(Nat) /\ Pcm \in Sources
  BY Typed DEF StreamInv
<1>3. /\ Head(waiting) \in Nat /\ rest \in Seq(Nat)
  BY <1>1, <1>2, HeadTailProperties, EmptySeq, ElementOfSeq
<1>4. pc \in {"scan", "take", "release", "pcm"} /\ pc # "release"
  OBVIOUS
<1>5. /\ stream' \in Streams /\ sent' \in Seq(StreamMessages)
      /\ stream'.valid =>
           /\ stream.valid
           /\ stream'.consumed = stream.consumed + 1 /\ stream'.segment = stream.segment + begun
           /\ Len(stream'.starts) = Len(stream.starts) - begun
           /\ \A j \in 1..Len(stream'.starts) : stream'.starts[j] = stream.starts[begun + j]
           /\ engine.blocks[Head(waiting)] = stream.segment + begun => Given(block)
  BY <1>1, <1>2, <1>3, BlockDelivered
<1> HIDE DEF waiting, block, rest, begun, pc
<1>6. /\ lanes' \in Lanes /\ lanes'.queue = lanes.queue /\ lanes'.occ = lanes.occ
      /\ lanes'.pcm = rest /\ lanes'.losses = lanes.losses
  BY <1>1, <1>3, Zenon DEF StreamInv, StreamTyped, Lanes
<1>7. cursor' \in Cursors /\ cursor'.pc = pc /\ cursor'.lane = cursor.lane
      /\ cursor'.who = cursor.who
  <2>1. cursor \in Cursors
    BY <1>2 DEF StreamTyped
  <2>. QED  BY <1>1, <1>4, <2>1, Zenon DEF Cursors
<1>8. StreamTyped'
  BY <1>1, <1>2, <1>5, <1>6, <1>7 DEF StreamTyped
<1>9. OccupancyIsExact' /\ GateKeeps' /\ Ends'
  <2>1. OccupancyIsExact'
    BY <1>1, <1>4, <1>6, <1>7 DEF StreamInv, OccupancyIsExact
  <2>2. GateKeeps' /\ Ends'
    BY <1>1, <1>6, <1>7 DEF StreamInv, GateKeeps, Ends
  <2>. QED  BY <2>1, <2>2
<1>10. ASSUME Clean'  PROVE Lossless'
  <2>1. Lossless /\ stream'.valid
    BY <1>5, <1>6, <1>10 DEF StreamInv, Clean
  <2> DEFINE silenced == {n \in 1..Len(engine.blocks) : engine.blocks[n] = NoSegment}
             no == FALSE
             size == Len(engine.blocks)
  <2>2. Line(PassedOf(Pcm), waiting, no, silenced, size) /\ no \in BOOLEAN /\ size \in Nat
    <3>1. Len(engine.blocks) \in Nat
      BY <1>2, Typed, LenProperties
    <3>. QED  BY <2>1, <3>1 DEF Lossless, PcmLine, waiting
  <2>3. /\ engine.blocks[Head(waiting)] = stream.segment + begun
        /\ Waits(rest, engine.blocks, gate.forwarded, engine.segment,
                 stream'.starts, stream.consumed + 1, stream.segment + begun)
    <3> DEFINE blocks == engine.blocks
               forwarded == gate.forwarded
               played == engine.segment
               starts == stream.starts
               left == stream'.starts
               consumed == stream.consumed
               segment == stream.segment
    <3>1. /\ starts \in Seq(Nat) /\ left \in Seq(Nat) /\ consumed \in Nat /\ segment \in Nat
          /\ forwarded \in Nat /\ played \in Nat
      BY <1>2, <1>5, StreamFields, Typed DEF StreamTyped
    <3>2. begun = Begun(starts, consumed) /\ begun \in Nat
      <4>1. begun \in 0..Len(starts) /\ Len(starts) \in Nat
        BY <3>1, BegunIsThere, LenProperties DEF begun
      <4>. QED  BY <4>1 DEF begun
    <3>3. /\ Len(left) = Len(starts) - begun
          /\ \A j \in 1..Len(left) : left[j] = starts[begun + j]
      BY <1>5, <2>1
    <3>4. Waits(waiting, blocks, forwarded, played, starts, consumed, segment)
      BY <2>1 DEF Lossless, SegmentsWait, waiting
    <3> HIDE DEF blocks, forwarded, played, starts, left, consumed, segment
    <3>5. /\ blocks[Head(waiting)] = segment + begun
          /\ Waits(Tail(waiting), blocks, forwarded, played, left, consumed + 1, segment + begun)
      <4>1. Passing(waiting, blocks, forwarded, played, starts, consumed, segment, left, begun)
        BY <1>1, <1>2, <3>1, <3>2, <3>3, <3>4 DEF Passing
      <4>. QED  BY <4>1, WaitsPassed
    <3>. QED  BY <3>5 DEF blocks, forwarded, played, left, consumed, segment, rest
  <2> HIDE DEF silenced, no, size
  <2>4. Given(block)
    BY <1>5, <2>1, <2>3
  <2>5. \A x : Passed(sent, stream, x) => Before(x, block)
    BY <1>1, <1>2, <2>2, HeadIsNext DEF block
  <2>6. /\ Trace(sent', stream') /\ Segmented(sent', stream', engine.blocks)
        /\ \A x : Passed(sent', stream', x) <=> Passed(sent, stream, x) \/ x = block
    BY <2>1, <2>4, <2>5 DEF Lossless, Given
  <2>7. /\ PassedOf(Pcm)' = PassedOf(Pcm) \cup {Head(waiting)}
        /\ \A t : t # Pcm => PassedOf(t)' = PassedOf(t)
        /\ \A d \in Exclusions : Passed(sent', stream', d) <=> Passed(sent, stream, d)
    BY <1>2, <1>3, <2>6, PassedMore DEF block
  <2>8. ASSUME NEW q \in Producers  PROVE FactLine(q)'
    <3>1. q # Pcm
      BY <1>2, Typed
    <3>. QED  BY <1>1, <1>6, <2>1, <2>7, <3>1, LineStays DEF Lossless
  <2>9. PcmLine'
    <3>1. Line(PassedOf(Pcm) \cup {Head(waiting)}, rest, no, silenced, size)
      BY <1>1, <1>2, <2>2, LinePassed DEF rest
    <3>. QED  BY <1>1, <1>6, <2>7, <3>1 DEF PcmLine, silenced, no, size
  <2>10. SegmentsWait'
    BY <1>1, <1>5, <1>6, <2>1, <2>3 DEF SegmentsWait
  <2>11. ExclusionsKept'
    BY <1>1, <2>1, <2>7, ExclusionsStay DEF Lossless
  <2>. QED  BY <1>1, <2>6, <2>8, <2>9, <2>10, <2>11 DEF Lossless
<1>. QED  BY <1>8, <1>9, <1>10 DEF StreamInv

\* No block is left: the worker starts again, the session sends what the writer kept.
LEMMA NoPcmStep ==
    ASSUME StreamInv, NoPcm
    PROVE  StreamInv'
<1>1. /\ cursor.pc = "pcm" /\ lanes.pcm = << >> /\ cursor \in Cursors /\ StreamTyped
      /\ UNCHANGED <<engine, gate, lanes, broken, faults>>
  BY DEF NoPcm, StreamInv, StreamTyped
<1>2. CASE /\ cursor.who = "worker" /\ cursor' = [cursor EXCEPT !.pc = "scan"]
           /\ UNCHANGED <<stream, sent>>
  <2> DEFINE pc == "scan"
  <2>1. pc \in {"scan", "take", "release", "pcm"} /\ pc # "release" /\ pc # "pcm"
        /\ cursor' = [cursor EXCEPT !.pc = pc]
    BY <1>2
  <2> HIDE DEF pc
  <2>2. cursor' \in Cursors /\ cursor'.pc = pc /\ cursor'.who = cursor.who
    BY <1>1, <2>1, Zenon DEF Cursors
  <2>3. StreamTyped'
    BY <1>1, <1>2, <2>2 DEF StreamTyped
  <2>4. OccupancyIsExact'
    BY <1>1, <2>1, <2>2 DEF StreamInv, OccupancyIsExact
  <2>5. GateKeeps' /\ Ends'
    BY <1>1, <1>2, <2>1, <2>2 DEF StreamInv, GateKeeps, Ends
  <2>6. Clean' => Lossless'
    BY <1>1, <1>2, NothingMoves DEF StreamInv, Clean
  <2>. QED  BY <2>3, <2>4, <2>5, <2>6 DEF StreamInv
<1>3. CASE /\ cursor.who = "session" /\ Does(FlushAll(stream))
           /\ cursor' = [cursor EXCEPT !.who = "none"]
  <2> DEFINE who == "none"
  <2>1. who \in {"worker", "session", "none"} /\ who # "worker"
        /\ cursor' = [cursor EXCEPT !.who = who]
    BY <1>3
  <2> HIDE DEF who
  <2>2. cursor' \in Cursors /\ cursor'.who = who /\ cursor'.pc = cursor.pc
        /\ cursor'.lane = cursor.lane
    BY <1>1, <2>1, Zenon DEF Cursors
  <2>3. /\ stream' \in Streams /\ sent' \in Seq(StreamMessages)
        /\ stream'.valid =>
             /\ stream.valid /\ stream'.starts = stream.starts
             /\ stream'.consumed = stream.consumed /\ stream'.segment = stream.segment
             /\ stream'.facts = << >> /\ stream'.pending = << >>
             /\ Trace(sent, stream) /\ Segmented(sent, stream, engine.blocks)
                => /\ Trace(sent', stream') /\ Segmented(sent', stream', engine.blocks)
                   /\ \A x : Passed(sent', stream', x) <=> Passed(sent, stream, x)
    BY <1>1, <1>3, AllFlushed
  <2>4. StreamTyped'
    BY <1>1, <2>2, <2>3 DEF StreamTyped
  <2>5. OccupancyIsExact'
    BY <1>1, <2>2 DEF StreamInv, OccupancyIsExact
  <2>6. GateKeeps' /\ Ends'
    BY <1>1, <1>3, <2>1, <2>2, <2>3 DEF StreamInv, GateKeeps, Ends
  <2>7. ASSUME Clean'  PROVE Lossless'
    <3>1. Lossless /\ stream'.valid
      BY <1>1, <2>3, <2>7 DEF StreamInv, Clean
    <3>2. /\ Trace(sent', stream') /\ Segmented(sent', stream', engine.blocks)
          /\ \A x : Passed(sent', stream', x) <=> Passed(sent, stream, x)
      BY <2>3, <3>1 DEF Lossless
    <3>3. \A s : PassedOf(s)' = PassedOf(s)
      BY <3>2 DEF PassedOf
    <3>4. ASSUME NEW q \in Producers  PROVE FactLine(q)'
      BY <1>1, <3>1, <3>3, LineStays DEF Lossless
    <3>5. PcmLine'
      BY <1>1, <3>1, <3>3 DEF Lossless, PcmLine
    <3>6. SegmentsWait'
      BY <1>1, <2>3, <3>1 DEF Lossless, SegmentsWait
    <3>7. ExclusionsKept'
      BY <1>1, <3>1, <3>2, ExclusionsStay DEF Lossless
    <3>. QED  BY <1>1, <3>2, <3>4, <3>5, <3>6, <3>7 DEF Lossless
  <2>. QED  BY <2>4, <2>5, <2>6, <2>7 DEF StreamInv
<1>. QED  BY <1>2, <1>3 DEF NoPcm

\* What was hidden becomes the exclusions to declare.
LEMMA TakeExclusionsStep ==
    ASSUME StreamInv, TakeExclusions
    PROVE  StreamInv'
<1> DEFINE mode == "declaring"
           taken == {Exclusion(p) : p \in Hidden}
           zero == [p \in Producers |-> 0]
<1>1. /\ engine.mode = "silent" /\ engine' = [engine EXCEPT !.mode = mode]
      /\ gate' = [gate EXCEPT !.taken = taken, !.first = zero, !.last = zero]
      /\ UNCHANGED <<lanes, cursor, stream, sent, broken, faults>>
  BY DEF TakeExclusions
<1>2. /\ StreamTyped /\ engine \in Engines /\ gate \in Gates
  BY DEF StreamInv, StreamTyped
<1>3. ASSUME NEW p \in Producers
      PROVE  /\ Exclusion(p) \in Exclusions /\ Exclusion(p).of = p
             /\ Exclusion(p).first = gate.first[p] /\ Exclusion(p).last = gate.last[p]
  BY <1>2, Typed DEF Exclusion, Exclusions
<1>4. mode \in Modes /\ zero \in [Producers -> Nat] /\ taken \in SUBSET Exclusions
      /\ \A p \in Producers : zero[p] = 0
  BY <1>3 DEF Modes, Hidden
<1>5. /\ engine' \in Engines /\ engine'.facts = engine.facts /\ engine'.reserved = engine.reserved
      /\ engine'.blocks = engine.blocks /\ engine'.segment = engine.segment
      /\ engine'.mode = "declaring"
  BY <1>1, <1>2, <1>4, ModeUpdated
<1>6. \A d : d \in taken <=> \E p \in Producers : gate.last[p] # 0 /\ d = Exclusion(p)
  BY DEF Hidden
<1> HIDE DEF mode, taken, zero
<1>7. /\ gate' \in Gates /\ gate'.taken = taken /\ gate'.first = zero /\ gate'.last = zero
      /\ gate'.hidden = gate.hidden /\ gate'.forwarded = gate.forwarded
  BY <1>1, <1>2, <1>4, Zenon DEF Gates
<1>8. StreamTyped'
  BY <1>1, <1>2, <1>5, <1>7 DEF StreamTyped
<1>9. OccupancyIsExact' /\ GateKeeps' /\ Ends'
  <2>1. OccupancyIsExact'
    BY <1>1, <1>5 DEF StreamInv, OccupancyIsExact
  <2>2. GateKeeps'
    BY <1>4, <1>5, <1>7 DEF StreamInv, GateKeeps
  <2>3. Ends'
    BY <1>1, <1>5 DEF StreamInv, Ends
  <2>. QED  BY <2>1, <2>2, <2>3
<1>10. ASSUME Clean'  PROVE Lossless'
  <2>1. Lossless
    BY <1>1, <1>10 DEF StreamInv, Clean
  <2>2. /\ \A x : Passed(sent', stream', x) <=> Passed(sent, stream, x)
        /\ Trace(sent, stream) => Trace(sent', stream')
        /\ \A blocks : Segmented(sent, stream, blocks) => Segmented(sent', stream', blocks)
        /\ \A s : PassedOf(s)' = PassedOf(s)
    BY <1>1, NothingPasses
  <2>3. ASSUME NEW q \in Producers  PROVE FactLine(q)'
    BY <1>1, <1>5, <1>7, <2>1, <2>2, LineStays DEF Lossless
  <2>4. PcmLine' /\ SegmentsWait' /\ Trace(sent', stream')
        /\ Segmented(sent', stream', engine'.blocks)
    BY <1>1, <1>5, <1>7, <2>1, <2>2 DEF Lossless, PcmLine, SegmentsWait
  <2>5. ExclusionsKept'
    <3> DEFINE Declared(q, m) ==
                 \E d \in Exclusions :
                      (d \in gate.taken \/ Passed(sent, stream, d)) /\ Declares(d, q, m)
               DeclaredNext(q, m) ==
                 \E d \in Exclusions :
                      (d \in gate'.taken \/ Passed(sent', stream', d)) /\ Declares(d, q, m)
    <3>1. SUFFICES ASSUME NEW q \in Producers, NEW m \in Nat
          PROVE <<q, m>> \in gate'.hidden <=>
                  \/ gate'.last[q] # 0 /\ gate'.first[q] <= m /\ m <= gate'.last[q]
                  \/ DeclaredNext(q, m)
      BY Zenon DEF ExclusionsKept
    <3> DEFINE within == gate.last[q] # 0 /\ gate.first[q] <= m /\ m <= gate.last[q]
    <3>2. <<q, m>> \in gate.hidden <=> within \/ Declared(q, m)
      BY <2>1 DEF Lossless, ExclusionsKept
    <3>3. gate.taken = {}
      BY <1>1 DEF StreamInv, GateKeeps
    <3>4. ASSUME within  PROVE DeclaredNext(q, m)
      <4>1. Exclusion(q) \in gate'.taken
        BY <1>6, <1>7, <3>4
      <4>2. Declares(Exclusion(q), q, m)
        BY <1>3, <3>4 DEF Declares
      <4>. QED  BY <1>3, <4>1, <4>2
    <3>5. ASSUME Declared(q, m)  PROVE DeclaredNext(q, m)
      BY <2>2, <3>3, <3>5
    <3>6. ASSUME DeclaredNext(q, m)  PROVE within \/ Declared(q, m)
      <4>1. PICK d \in Exclusions :
                   (d \in gate'.taken \/ Passed(sent', stream', d)) /\ Declares(d, q, m)
        BY <3>6
      <4>2. CASE Passed(sent', stream', d)
        BY <2>2, <4>1, <4>2
      <4>3. CASE d \in gate'.taken
        <5>1. PICK p \in Producers : gate.last[p] # 0 /\ d = Exclusion(p)
          BY <1>6, <1>7, <4>3
        <5>. QED  BY <1>3, <4>1, <5>1 DEF Declares
      <4>. QED  BY <4>1, <4>2, <4>3
    <3>7. ~(gate'.last[q] # 0)
      BY <1>4, <1>7
    <3> HIDE DEF Declared, DeclaredNext, within
    <3>. QED  BY <1>7, <3>2, <3>4, <3>5, <3>6, <3>7
  <2>. QED  BY <2>3, <2>4, <2>5 DEF Lossless
<1>. QED  BY <1>8, <1>9, <1>10 DEF StreamInv

\* An exclusion is written; it is no fact of a producer.
LEMMA DeclareExclusionStep ==
    ASSUME StreamInv, DeclareExclusion
    PROVE  StreamInv'
<1>1. PICK fact \in gate.taken :
        /\ gate' = [gate EXCEPT !.taken = @ \ {fact}]
        /\ Does(Kept(stream, fact))
        /\ UNCHANGED <<engine, lanes, cursor, broken, faults>>
  BY DEF DeclareExclusion
<1> DEFINE taken == gate.taken \ {fact}
<1>2. StreamTyped /\ gate \in Gates /\ taken \in SUBSET Exclusions /\ fact \in Exclusions
  BY Typed DEF StreamInv, StreamTyped
<1>3. fact \in Facts /\ fact.producer = Inspection
  BY <1>2 DEF Facts, Exclusions
<1>4. /\ stream' \in Streams /\ sent' \in Seq(StreamMessages)
      /\ stream'.valid =>
           /\ stream'.starts = stream.starts /\ stream'.consumed = stream.consumed
           /\ stream'.segment = stream.segment /\ Given(fact)
  BY <1>1, <1>2, <1>3, FactDelivered
<1>5. \A d : d \in taken \/ d = fact <=> d \in gate.taken
  OBVIOUS
<1>6. gate' = [gate EXCEPT !.taken = taken]
  BY <1>1
<1> HIDE DEF taken
<1>7. /\ gate' \in Gates /\ gate'.taken = taken /\ gate'.first = gate.first
      /\ gate'.last = gate.last /\ gate'.hidden = gate.hidden /\ gate'.forwarded = gate.forwarded
  BY <1>2, <1>6, Zenon DEF Gates
<1>8. engine.mode = "declaring"
  BY <1>1 DEF StreamInv, GateKeeps
<1>9. StreamTyped'
  BY <1>1, <1>2, <1>4, <1>7 DEF StreamTyped
<1>10. OccupancyIsExact' /\ GateKeeps' /\ Ends'
  <2>1. OccupancyIsExact' /\ GateKeeps'
    BY <1>1, <1>7, <1>8 DEF StreamInv, OccupancyIsExact, GateKeeps
  <2>2. cursor.who = "worker"
    BY <1>8 DEF StreamInv, Ends
  <2>3. Ends'
    BY <1>1, <2>2 DEF StreamInv, Ends
  <2>. QED  BY <2>1, <2>3
<1>11. ASSUME Clean'  PROVE Lossless'
  <2>1. Lossless /\ stream'.valid /\ Given(fact)
    BY <1>1, <1>4, <1>11 DEF StreamInv, Clean, Given
  <2>2. \A x : Passed(sent, stream, x) => Before(x, fact)
    BY <1>2, <1>3, Typed DEF Before
  <2>3. /\ Trace(sent', stream') /\ Segmented(sent', stream', engine.blocks)
        /\ \A x : Passed(sent', stream', x) <=> Passed(sent, stream, x) \/ x = fact
    BY <2>1, <2>2 DEF Lossless, Given
  <2>4. ASSUME NEW s \in Sources  PROVE PassedOf(s)' = PassedOf(s)
    <3>1. \A n : Item(s, n) # fact
      <4>1. \A n : Item(s, n).producer = s
        BY DEF Item
      <4>. QED  BY <1>2, <1>3, <4>1, Typed
    <3>. QED  BY <2>3, <3>1 DEF PassedOf
  <2>5. ASSUME NEW q \in Producers  PROVE FactLine(q)'
    <3>1. PassedOf(q)' = PassedOf(q)
      BY <1>2, <2>4, Typed
    <3>. QED  BY <1>1, <1>7, <2>1, <3>1, LineStays DEF Lossless
  <2>6. PcmLine' /\ SegmentsWait'
    <3>1. PassedOf(Pcm)' = PassedOf(Pcm)
      BY <1>2, <2>4, Typed
    <3>2. PcmLine'
      BY <1>1, <2>1, <3>1 DEF Lossless, PcmLine
    <3>3. SegmentsWait'
      BY <1>1, <1>4, <1>7, <2>1 DEF Lossless, SegmentsWait
    <3>. QED  BY <3>2, <3>3
  <2>7. ExclusionsKept'
    <3> DEFINE Declared(q, m) ==
                 \E d \in Exclusions :
                      (d \in gate.taken \/ Passed(sent, stream, d)) /\ Declares(d, q, m)
               DeclaredNext(q, m) ==
                 \E d \in Exclusions :
                      (d \in gate'.taken \/ Passed(sent', stream', d)) /\ Declares(d, q, m)
    <3>1. SUFFICES ASSUME NEW q \in Producers, NEW m \in Nat
          PROVE <<q, m>> \in gate'.hidden <=>
                  \/ gate'.last[q] # 0 /\ gate'.first[q] <= m /\ m <= gate'.last[q]
                  \/ DeclaredNext(q, m)
      BY Zenon DEF ExclusionsKept
    <3>2. \A d : d \in gate'.taken \/ Passed(sent', stream', d)
                   <=> d \in gate.taken \/ Passed(sent, stream, d)
      BY <1>1, <1>5, <1>7, <2>3
    <3>3. DeclaredNext(q, m) <=> Declared(q, m)
      BY <3>2
    <3>4. <<q, m>> \in gate.hidden <=>
                  \/ gate.last[q] # 0 /\ gate.first[q] <= m /\ m <= gate.last[q]
                  \/ Declared(q, m)
      BY <2>1 DEF Lossless, ExclusionsKept
    <3> HIDE DEF Declared, DeclaredNext
    <3>. QED  BY <1>7, <3>3, <3>4
  <2>. QED  BY <1>1, <2>3, <2>5, <2>6, <2>7 DEF Lossless
<1>. QED  BY <1>9, <1>10, <1>11 DEF StreamInv

\* A segment more is played: its start waits in the writer.
LEMMA ResumeStep ==
    ASSUME StreamInv, Resume
    PROVE  StreamInv'
<1> DEFINE mode == "audible"
           played == engine.segment + 1
           starts == Append(stream.starts, gate.forwarded)
<1>1. /\ engine.mode = "paused" /\ engine' = [engine EXCEPT !.mode = mode, !.segment = played]
      /\ stream' = [stream EXCEPT !.starts = starts]
      /\ UNCHANGED <<gate, lanes, cursor, sent, broken, faults>>
  BY DEF Resume
<1>2. /\ StreamTyped /\ engine \in Engines /\ stream \in Streams
      /\ stream.starts \in Seq(Nat) /\ gate.forwarded \in Nat /\ engine.segment \in Nat
      /\ lanes.pcm \in Seq(Nat) /\ stream.consumed \in Nat /\ stream.segment \in Nat
  BY Typed, StreamFields DEF StreamInv, StreamTyped
<1>3. mode \in {"audible", "paused", "silent", "declaring", "stopped"} /\ mode # "stopped"
      /\ played \in Nat /\ starts \in Seq(Nat) /\ mode = "audible"
  BY <1>2, AppendProperties
<1> HIDE DEF mode, played, starts
<1>4. /\ engine' \in Engines /\ engine'.facts = engine.facts /\ engine'.reserved = engine.reserved
      /\ engine'.blocks = engine.blocks /\ engine'.segment = played /\ engine'.mode = mode
  BY <1>1, <1>2, <1>3, Zenon DEF Engines
<1>5. /\ stream' \in Streams /\ stream'.valid = stream.valid /\ stream'.facts = stream.facts
      /\ stream'.pending = stream.pending /\ stream'.chunk = stream.chunk
      /\ stream'.starts = starts /\ stream'.consumed = stream.consumed
      /\ stream'.segment = stream.segment
  BY <1>1, <1>2, <1>3, Zenon DEF Streams
<1>6. StreamTyped'
  BY <1>1, <1>2, <1>4, <1>5 DEF StreamTyped
<1>7. OccupancyIsExact' /\ GateKeeps' /\ Ends'
  <2>1. OccupancyIsExact'
    BY <1>1, <1>4 DEF StreamInv, OccupancyIsExact
  <2>2. GateKeeps'
    BY <1>1, <1>3, <1>4 DEF StreamInv, GateKeeps
  <2>3. cursor.who = "worker"
    BY <1>1, <1>2 DEF StreamInv, Ends
  <2>4. Ends'
    BY <1>1, <1>3, <1>4, <2>3 DEF StreamInv, Ends
  <2>. QED  BY <2>1, <2>2, <2>4
<1>8. ASSUME Clean'  PROVE Lossless'
  <2>1. Lossless
    BY <1>1, <1>5, <1>8 DEF StreamInv, Clean
  <2>2. /\ \A x : Passed(sent', stream', x) <=> Passed(sent, stream, x)
        /\ Trace(sent, stream) => Trace(sent', stream')
        /\ \A blocks : Segmented(sent, stream, blocks) => Segmented(sent', stream', blocks)
        /\ \A s : PassedOf(s)' = PassedOf(s)
    BY <1>1, <1>5, NothingPasses
  <2>3. ASSUME NEW q \in Producers  PROVE FactLine(q)'
    BY <1>1, <1>4, <2>1, <2>2, LineStays DEF Lossless
  <2>4. PcmLine' /\ Trace(sent', stream') /\ Segmented(sent', stream', engine'.blocks)
    BY <1>1, <1>4, <2>1, <2>2 DEF Lossless, PcmLine
  <2>5. SegmentsWait'
    <3> DEFINE waiting == lanes.pcm
               blocks == engine.blocks
               passed == gate.forwarded
               before == engine.segment
               old == stream.starts
               consumed == stream.consumed
               first == stream.segment
    <3>1. OneMoreSegment(waiting, blocks, passed, before, old, consumed, first, starts)
      BY <1>2, <2>1 DEF OneMoreSegment, Lossless, SegmentsWait, starts
    <3> HIDE DEF waiting, blocks, passed, before, old, consumed, first
    <3>2. Waits(waiting, blocks, passed, before + 1, starts, consumed, first)
      BY <3>1, WaitsResumed
    <3>. QED  BY <1>1, <1>4, <1>5, <3>2
              DEF SegmentsWait, waiting, blocks, passed, before, consumed, first, played
  <2>6. ExclusionsKept'
    BY <1>1, <2>1, <2>2, ExclusionsStay DEF Lossless
  <2>. QED  BY <2>3, <2>4, <2>5, <2>6 DEF Lossless
<1>. QED  BY <1>6, <1>7, <1>8 DEF StreamInv

-----------------------------------------------------------------------------
\* Every step.

\* Every step keeps the invariant.
LEMMA StreamStep == StreamInv /\ [StreamNext]_streamVars => StreamInv'
<1>. SUFFICES ASSUME StreamInv, [StreamNext]_streamVars
              PROVE  StreamInv'
  OBVIOUS
<1>1. ASSUME NEW p \in Producers, Observe(p)  PROVE StreamInv'
  BY <1>1, ObserveSilent, ObserveAudible
<1>2. ASSUME NEW p \in Producers, Publish(p)  PROVE StreamInv'
  BY <1>2, PublishStep
<1>3. CASE ObservePcm
  BY <1>3, ObservePcmStep
<1>4. CASE Consumer
  <2>1. CASE DrainLane \/ TakeSelected \/ FallBack
    BY <2>1, TakeActions
  <2>2. CASE SelectLane
    BY <2>2, SelectLaneStep
  <2>3. CASE NoFact
    BY <2>3, NoFactStep
  <2>4. CASE Release
    BY <2>4, ReleaseStep
  <2>5. CASE TakePcm
    BY <2>5, TakePcmStep
  <2>6. CASE NoPcm
    BY <2>6, NoPcmStep
  <2>. QED  BY <1>4, <2>1, <2>2, <2>3, <2>4, <2>5, <2>6, Zenon DEF Consumer
<1>5. CASE Pause \/ Navigate \/ EndNavigation \/ ChannelBreaks
  BY <1>5, ModeSteps
<1>6. CASE TakeExclusions
  BY <1>6, TakeExclusionsStep
<1>7. CASE DeclareExclusion
  BY <1>7, DeclareExclusionStep
<1>8. CASE Resume
  BY <1>8, ResumeStep
<1>9. CASE Stop
  BY <1>9, StopStep
<1>10. CASE UNCHANGED streamVars
  <2>1. UNCHANGED <<engine, gate, lanes, cursor, stream, sent>>
    BY <1>10 DEF streamVars
  <2>2. StreamTyped' /\ OccupancyIsExact' /\ GateKeeps' /\ Ends'
    BY <2>1 DEF StreamInv, StreamTyped, OccupancyIsExact, GateKeeps, Ends
  <2>. QED  BY <2>1, <2>2, NothingMoves DEF StreamInv, Clean
<1>. QED  BY <1>1, <1>2, <1>3, <1>4, <1>5, <1>6, <1>7, <1>8, <1>9, <1>10, Zenon DEF StreamNext

-----------------------------------------------------------------------------
\* At the end nothing waits: what passed was sent.

\* When the session has consumed everything, what passed was sent.
LEMMA SentAtTheEnd ==
    ASSUME StreamInv, Stopped, stream.valid
    PROVE  /\ engine.reserved = {} /\ lanes.pcm = << >>
           /\ \A p \in Producers : lanes.queue[p] = << >>
           /\ \A p \in Producers : gate.last[p] = 0
           /\ gate.taken = {} /\ \A x : Passed(sent, stream, x) <=> Holds(sent, x)
<1>1. /\ cursor.who = "none" /\ Ends /\ GateKeeps
  BY DEF Stopped, StreamInv
<1>2. /\ engine.mode = "stopped" /\ cursor.pc = "pcm" /\ lanes.pcm = << >>
      /\ stream.facts = << >> /\ stream.pending = << >>
  BY <1>1 DEF Ends
<1>3. engine.reserved = {} /\ \A p \in Producers : lanes.queue[p] = << >>
  BY <1>1, <1>2 DEF Ends
<1>4. gate.taken = {} /\ \A p \in Producers : gate.last[p] = 0
  BY <1>1, <1>2 DEF GateKeeps
<1>5. \A x : ~Within(x, << >>)
  BY DEF Within
<1>. QED  BY <1>2, <1>3, <1>4, <1>5 DEF Passed

\* A line whose source has nothing waiting holds what is not silenced.
LEMMA LineAtTheEnd ==
    ASSUME NEW passed, NEW waiting, NEW reserved, NEW silenced, NEW total, NEW n,
           waiting = << >>, ~reserved, Line(passed, waiting, reserved, silenced, total)
    PROVE  /\ n \in passed => n \in 1..total
           /\ n \in 1..total => (n \in passed <=> n \notin silenced)
<1>1. ~Within(n, waiting)
  BY DEF Within
<1>. QED  BY <1>1 DEF Line

\* What passed of a source is what it produced and did not silence.
LEMMA SourceAtTheEnd ==
    ASSUME StreamInv, Lossless, Stopped, stream.valid, NEW s \in Sources, NEW n
    PROVE  /\ n \in PassedOf(s) => n \in 1..Produced(s)
           /\ n \in 1..Produced(s) => (n \in PassedOf(s) <=> ~Silenced(s, n))
<1>1. /\ engine.reserved = {} /\ lanes.pcm = << >> /\ \A p \in Producers : lanes.queue[p] = << >>
  BY SentAtTheEnd
<1>2. CASE s = Pcm
  <2> DEFINE no == FALSE
             silenced == {m \in 1..Len(engine.blocks) : engine.blocks[m] = NoSegment}
             size == Len(engine.blocks)
  <2>1. Line(PassedOf(Pcm), lanes.pcm, no, silenced, size) /\ ~no
    BY DEF Lossless, PcmLine
  <2>2. n \in 1..size => (n \in silenced <=> Silenced(s, n))
    BY <1>2 DEF Silenced
  <2>3. Produced(s) = size
    BY <1>2 DEF Produced
  <2> HIDE DEF no, silenced, size
  <2>. QED  BY <1>1, <1>2, <2>1, <2>2, <2>3, LineAtTheEnd
<1>3. CASE s # Pcm
  <2> DEFINE no == s \in engine.reserved
             silenced == {m \in 1..engine.facts[s] : <<s, m>> \in gate.hidden}
             size == engine.facts[s]
  <2>0. s \in Producers
    BY <1>3 DEF Sources
  <2>1. Line(PassedOf(s), lanes.queue[s], no, silenced, size) /\ ~no
    BY <1>1, <2>0 DEF Lossless, FactLine
  <2>2. n \in 1..size => (n \in silenced <=> Silenced(s, n))
    BY <1>3 DEF Silenced
  <2>3. Produced(s) = size
    BY <1>3 DEF Produced
  <2>4. lanes.queue[s] = << >>
    BY <1>1, <2>0
  <2> HIDE DEF no, silenced, size
  <2>. QED  BY <2>1, <2>2, <2>3, <2>4, LineAtTheEnd
<1>. QED  BY <1>2, <1>3

\* An item of a message, typed.
LEMMA HeldItems ==
    ASSUME StreamTyped, NEW i \in 1..Len(sent), NEW j \in 1..Len(sent[i].items)
    PROVE  LET x == sent[i].items[j] IN
           /\ Holds(sent, x) /\ x \in Facts \cup Blocks
           /\ x.producer \notin Sources => x \in Exclusions
<1> DEFINE x == sent[i].items[j]
<1>1. Holds(sent, x) /\ x \in Facts \cup Blocks
  BY MessageTypes DEF StreamTyped, Holds
<1>2. x \notin Exclusions => x.producer \in Sources
  BY <1>1 DEF Facts, Blocks, Sources
<1>. QED  BY <1>1, <1>2

\* A trace that is loss-free is complete, in order, and declares what was hidden.
LEMMA EndIsComplete ==
    ASSUME StreamInv, LossFree
    PROVE  NothingMissing /\ NothingElse /\ MessagesInOrder(sent) /\ HiddenIsDeclared
<1>1. StreamTyped /\ Stopped /\ stream.valid /\ Lossless
  BY DEF StreamInv, LossFree, Clean
<1>2. /\ gate.taken = {} /\ \A p \in Producers : gate.last[p] = 0
      /\ \A x : Passed(sent, stream, x) <=> Holds(sent, x)
  BY <1>1, SentAtTheEnd
<1>3. NothingMissing
  <2>1. SUFFICES ASSUME NEW s \in Sources, NEW n \in 1..Produced(s)
                 PROVE  Holds(sent, Item(s, n)) <=> ~Silenced(s, n)
    BY DEF NothingMissing
  <2>2. n \in PassedOf(s) <=> ~Silenced(s, n)
    BY <1>1, SourceAtTheEnd
  <2>3. Produced(s) \in Nat
    <3>1. CASE s = Pcm
      BY <1>1, <3>1, Typed, LenProperties DEF Produced
    <3>2. CASE s # Pcm
      <4>1. s \in Producers
        BY <3>2 DEF Sources
      <4>. QED  BY <1>1, <3>2, <4>1, Typed DEF Produced
    <3>. QED  BY <3>1, <3>2
  <2>4. n \in Nat
    BY <2>3
  <2>. QED  BY <1>2, <2>2, <2>4 DEF PassedOf
<1>4. ASSUME NEW p \in Producers, NEW n \in Nat
      PROVE  <<p, n>> \in gate.hidden <=> \E d \in Exclusions : Holds(sent, d) /\ Declares(d, p, n)
  <2>1. ExclusionsKept
    BY <1>1 DEF Lossless
  <2>. QED  BY <1>2, <2>1 DEF ExclusionsKept
<1>5. NothingElse
  <2>1. SUFFICES ASSUME NEW i \in 1..Len(sent), NEW j \in 1..Len(sent[i].items)
                 PROVE  LET x == sent[i].items[j] IN
                        /\ x.producer \in Sources => x.n \in 1..Produced(x.producer)
                        /\ x.producer \notin Sources =>
                             \A n \in x.first..x.last : <<x.of, n>> \in gate.hidden
    BY Zenon DEF NothingElse
  <2> DEFINE x == sent[i].items[j]
  <2>2. Holds(sent, x) /\ (x.producer \notin Sources => x \in Exclusions)
    BY <1>1, HeldItems
  <2> HIDE DEF x
  <2>3. ASSUME x.producer \in Sources  PROVE x.n \in 1..Produced(x.producer)
    <3>1. x.n \in PassedOf(x.producer)
      BY <1>1, <1>2, <2>2, <2>3, PassedItems
    <3>. QED  BY <1>1, <2>3, <3>1, SourceAtTheEnd
  <2>4. ASSUME x.producer \notin Sources, NEW n \in x.first..x.last
        PROVE  <<x.of, n>> \in gate.hidden
    <3>1. x \in Exclusions /\ x.of \in Producers /\ x.first \in Nat /\ x.last \in Nat
      BY <2>2, <2>4 DEF Exclusions
    <3>2. n \in Nat /\ Declares(x, x.of, n)
      BY <3>1 DEF Declares
    <3>. QED  BY <1>4, <2>2, <3>1, <3>2
  <2>. QED  BY <2>3, <2>4 DEF x
<1>6. MessagesInOrder(sent)
  BY <1>1 DEF Lossless, Trace
<1>7. HiddenIsDeclared
  <2>1. SUFFICES ASSUME NEW x \in gate.hidden
                 PROVE  \E i \in 1..Len(sent) : \E j \in 1..Len(sent[i].items) :
                          /\ sent[i].items[j].producer = Inspection /\ sent[i].items[j].of = x[1]
                          /\ x[2] \in sent[i].items[j].first..sent[i].items[j].last
    BY DEF HiddenIsDeclared
  <2>2. gate.hidden \subseteq Producers \X Nat
    BY <1>1, Typed
  <2>3. PICK p \in Producers, n \in Nat : x = <<p, n>>
    BY <2>2
  <2>4. PICK d \in Exclusions : Holds(sent, d) /\ Declares(d, p, n)
    BY <1>4, <2>3
  <2>5. PICK i \in 1..Len(sent) : \E j \in 1..Len(sent[i].items) : sent[i].items[j] = d
    BY <2>4 DEF Holds
  <2>6. PICK j \in 1..Len(sent[i].items) : sent[i].items[j] = d
    BY <2>5
  <2>7. d.producer = Inspection /\ d.of = x[1] /\ x[2] \in d.first..d.last
    BY <2>3, <2>4 DEF Exclusions, Declares
  <2>. QED  BY <2>6, <2>7
<1>. QED  BY <1>3, <1>5, <1>6, <1>7

\* The invariant implies the property.
LEMMA StreamInvIsEnough == StreamInv => StreamIsFaithful
<1>. SUFFICES ASSUME StreamInv  PROVE StreamIsFaithful
  OBVIOUS
<1>1. OccupancyIsExact
  BY DEF StreamInv
<1>2. LossFreeIsComplete
  BY EndIsComplete DEF LossFreeIsComplete
<1>3. SegmentsMatchPlayback
  <2>1. LossFree => Segmented(sent, stream, engine.blocks)
    BY DEF StreamInv, LossFree, Clean, Lossless
  <2>. QED  BY <2>1 DEF SegmentsMatchPlayback, Segmented, SegmentsOf
<1>. QED  BY <1>1, <1>2, <1>3 DEF StreamIsFaithful

\* The trace the supervisor gets is the trace of what was played, or says that it is not.
THEOREM FaithfulStream == StreamSpec => []StreamIsFaithful
<1>1. StreamSpec => []StreamInv
  BY StreamStarts, StreamStep, PTL DEF StreamSpec
<1>. QED  BY <1>1, StreamInvIsEnough, PTL

=============================================================================
