----------------------------- MODULE VerdictProofs -----------------------------
(***************************************************************************)
(* Proofs about the two places that decide how a take ended.               *)
(*                                                                         *)
(* The RequestTerminalArbiter, under every sequence of calls of any        *)
(* length: its result is the verdict of the events observed before the     *)
(* confirmation, a confirmed result never changes, the first reason to     *)
(* stop is kept, and every control is accounted for.                       *)
(*                                                                         *)
(* The supervision of a run, for any number of takes and frames and any    *)
(* deadlines: one verdict for a run, no quiet without progress, and no     *)
(* late answer that withdraws a missing one.                               *)
(***************************************************************************)
EXTENDS TakeArbitration, RunSupervision, RequestArbiterProofs, WellFoundedInduction

(***************************************************************************)
(* The arbiter of the request.                                             *)
(***************************************************************************)

-----------------------------------------------------------------------------
\* The verdict of a longer sequence of events.

\* A nonempty set of numbers has a first one.
LEMMA FirstExists ==
    ASSUME NEW S, S \subseteq Nat, S # {}
    PROVE  First(S) \in S /\ \A j \in S : First(S) <= j
<1>1. PICK x \in S : \A y \in S : <<y, x>> \notin OpToRel(<, Nat)
  BY NatLessThanWellFounded, WFMin
<1>2. \A y \in S : ~(y < x)
  BY <1>1 DEF OpToRel
<1>3. \A y \in S : x <= y
  BY <1>2
<1>. QED  BY <1>3, Zenon DEF First

\* It is the same when larger numbers are added.
LEMMA FirstStays ==
    ASSUME NEW S, S \subseteq Nat, S # {}, NEW T, T \subseteq Nat, S \subseteq T,
           \A i \in S, j \in T \ S : i < j
    PROVE  First(T) = First(S)
<1>1. First(S) \in S /\ \A j \in S : First(S) <= j
  BY FirstExists
<1>2. First(T) \in T /\ \A j \in T : First(T) <= j
  BY FirstExists
<1>3. First(S) \in Nat /\ First(T) \in Nat /\ First(S) \in T
  BY <1>1, <1>2
<1>4. First(T) <= First(S)
  BY <1>2, <1>3
<1>5. First(T) \in S
  <2>1. CASE First(T) \in T \ S
    <3>1. First(S) < First(T)
      BY <1>1, <2>1
    <3>. QED  BY <1>3, <1>4, <3>1
  <2>. QED  BY <1>2, <2>1
<1>6. First(S) <= First(T)
  BY <1>1, <1>5
<1>. QED  BY <1>3, <1>4, <1>6

\* What an event adds to a sequence of events.
LEMMA Longer ==
    ASSUME NEW seq \in Seq(TerminalEvents), NEW ev \in TerminalEvents,
           NEW long, long = Append(seq, ev)
    PROVE  /\ long \in Seq(TerminalEvents) /\ Len(seq) \in Nat
           /\ DOMAIN seq = 1..Len(seq) /\ DOMAIN long = 1..(Len(seq) + 1)
           /\ \A i \in 1..Len(seq) : long[i] = seq[i]
           /\ long[Len(seq) + 1] = ev
OBVIOUS

\* The verdict without confirmations: only the first hard event counts, and a natural
\* end while there is none.
LEMMA VerdictOfLonger ==
    ASSUME NEW seq \in Seq(TerminalEvents), NEW ev \in TerminalEvents \ {"confirm"}
    PROVE  VerdictOf(Append(seq, ev)) =
             IF VerdictOf(seq) \in {"cancelled"} \cup FailureKinds THEN VerdictOf(seq)
             ELSE Ends(ev)
<1> DEFINE long == Append(seq, ev)
<1>1. /\ long \in Seq(TerminalEvents) /\ Len(seq) \in Nat
      /\ DOMAIN seq = 1..Len(seq) /\ DOMAIN long = 1..(Len(seq) + 1)
      /\ \A i \in 1..Len(seq) : long[i] = seq[i]
      /\ long[Len(seq) + 1] = ev
  BY Longer
<1> HIDE DEF long
<1>2. Hard(seq) \subseteq 1..Len(seq) /\ Hard(long) \subseteq 1..(Len(seq) + 1)
  BY <1>1 DEF Hard
<1>3. \A i \in 1..Len(seq) : i \in Hard(long) <=> i \in Hard(seq)
  BY <1>1 DEF Hard
<1>4. CASE Hard(seq) # {}
  <2>1. Hard(seq) \subseteq Nat /\ Hard(long) \subseteq Nat
    BY <1>1, <1>2
  <2>2. Hard(seq) \subseteq Hard(long) /\ \A i \in Hard(seq), j \in Hard(long) \ Hard(seq) : i < j
    BY <1>1, <1>2, <1>3
  <2>3. First(Hard(long)) = First(Hard(seq)) /\ First(Hard(seq)) \in Hard(seq)
    BY <1>4, <2>1, <2>2, FirstStays, FirstExists
  <2>4. VerdictOf(long) = VerdictOf(seq) /\ VerdictOf(seq) = Ends(seq[First(Hard(seq))])
    BY <1>1, <1>2, <1>4, <2>2, <2>3 DEF VerdictOf
  <2>5. Ends(seq[First(Hard(seq))]) \in {"cancelled"} \cup FailureKinds
    BY <2>3 DEF Hard, Ends
  <2>. QED  BY <2>4, <2>5 DEF long
<1>5. CASE Hard(seq) = {}
  <2>1. VerdictOf(seq) \in {"natural_end", "none"}
    BY <1>5 DEF VerdictOf
  <2>2. VerdictOf(seq) \notin {"cancelled"} \cup FailureKinds
    BY <2>1 DEF FailureKinds
  <2>3. CASE ev \in {"cancel"} \cup FailureKinds
    <3>1. Hard(long) = {Len(seq) + 1}
      BY <1>1, <1>2, <1>3, <1>5, <2>3 DEF Hard
    <3>2. First(Hard(long)) = Len(seq) + 1
      <4>1. Hard(long) \subseteq Nat /\ Hard(long) # {}
        BY <1>1, <3>1
      <4>2. First(Hard(long)) \in Hard(long)
        BY <4>1, FirstExists
      <4>. QED  BY <3>1, <4>2
    <3>. QED  BY <1>1, <2>2, <3>1, <3>2 DEF VerdictOf, long
  <2>4. CASE ev = "natural_end"
    <3>1. Hard(long) = {}
      BY <1>1, <1>2, <1>3, <1>5, <2>4 DEF Hard, FailureKinds
    <3>2. Len(seq) + 1 \in DOMAIN long /\ long[Len(seq) + 1] = "natural_end"
      BY <1>1, <2>4
    <3>3. VerdictOf(long) = "natural_end"
      BY <3>1, <3>2 DEF VerdictOf
    <3>. QED  BY <2>2, <2>4, <3>3 DEF Ends, long
  <2>. QED  BY <2>3, <2>4 DEF TerminalEvents, FailureKinds
<1>. QED  BY <1>4, <1>5

\* The verdict is "none" as long as there were only confirmations.
LEMMA VerdictOfNone ==
    ASSUME NEW seq \in Seq(TerminalEvents)
    PROVE  VerdictOf(seq) = "none" <=> \A i \in DOMAIN seq : seq[i] = "confirm"
<1>1. \A i \in DOMAIN seq : seq[i] \in TerminalEvents
  OBVIOUS
<1>2. CASE Hard(seq) # {}
  <2>1. Hard(seq) \subseteq Nat
    BY DEF Hard
  <2>2. First(Hard(seq)) \in Hard(seq)
    BY <1>2, <2>1, FirstExists
  <2>3. Ends(seq[First(Hard(seq))]) \in {"cancelled"} \cup FailureKinds
    BY <2>2 DEF Hard, Ends
  <2>4. VerdictOf(seq) # "none"
    BY <1>2, <2>3 DEF VerdictOf, FailureKinds
  <2>5. \E i \in DOMAIN seq : seq[i] # "confirm"
    BY <2>2 DEF Hard, FailureKinds
  <2>. QED  BY <2>4, <2>5
<1>3. CASE Hard(seq) = {}
  <2>1. \A i \in DOMAIN seq : seq[i] \in {"natural_end", "confirm"}
    BY <1>1, <1>3 DEF Hard, TerminalEvents, FailureKinds
  <2>. QED  BY <1>3, <2>1 DEF VerdictOf
<1>. QED  BY <1>2, <1>3

\* Once a confirmation had something to confirm, later events change nothing.
LEMMA VerdictStays ==
    ASSUME NEW seq \in Seq(TerminalEvents), NEW ev \in TerminalEvents, Cut(seq) # {}
    PROVE  Cut(Append(seq, ev)) # {} /\ Verdict(Append(seq, ev)) = Verdict(seq)
<1> DEFINE long == Append(seq, ev)
<1>1. /\ long \in Seq(TerminalEvents) /\ Len(seq) \in Nat
      /\ DOMAIN seq = 1..Len(seq) /\ DOMAIN long = 1..(Len(seq) + 1)
      /\ \A i \in 1..Len(seq) : long[i] = seq[i]
  BY Longer
<1> HIDE DEF long
<1>2. Cut(seq) \subseteq 1..Len(seq) /\ Cut(long) \subseteq 1..(Len(seq) + 1)
  BY <1>1 DEF Cut
<1>3. \A i \in 1..Len(seq) : i \in Cut(long) <=> i \in Cut(seq)
  <2> SUFFICES ASSUME NEW i \in 1..Len(seq)
               PROVE  i \in Cut(long) <=> i \in Cut(seq)
    OBVIOUS
  <2>1. i \in DOMAIN long /\ i \in DOMAIN seq /\ long[i] = seq[i]
    BY <1>1
  <2>2. \A j \in 1..(i - 1) : long[j] = seq[j]
    BY <1>1
  <2>. QED  BY <2>1, <2>2 DEF Cut
<1>4. Cut(seq) \subseteq Nat /\ Cut(long) \subseteq Nat
  BY <1>1, <1>2
<1>5. Cut(seq) \subseteq Cut(long) /\ \A i \in Cut(seq), j \in Cut(long) \ Cut(seq) : i < j
  BY <1>1, <1>2, <1>3
<1>6. First(Cut(long)) = First(Cut(seq)) /\ First(Cut(seq)) \in 1..Len(seq)
  BY <1>2, <1>4, <1>5, FirstStays, FirstExists
<1>7. SubSeq(long, 1, First(Cut(seq)) - 1) = SubSeq(seq, 1, First(Cut(seq)) - 1)
  BY <1>1, <1>6
<1>8. Cut(long) # {}
  BY <1>5
<1>9. Decisive(long) = Decisive(seq)
  BY <1>6, <1>7, <1>8 DEF Decisive
<1>. QED  BY <1>8, <1>9 DEF Verdict, long

\* Before, a confirmation closes the events if it has something to confirm.
LEMMA VerdictConfirmed ==
    ASSUME NEW seq \in Seq(TerminalEvents), Cut(seq) = {}
    PROVE  /\ Verdict(Append(seq, "confirm")) = Verdict(seq)
           /\ Cut(Append(seq, "confirm")) = {} <=> Verdict(seq) = "none"
<1> DEFINE long == Append(seq, "confirm")
<1>1. /\ long \in Seq(TerminalEvents) /\ Len(seq) \in Nat
      /\ DOMAIN seq = 1..Len(seq) /\ DOMAIN long = 1..(Len(seq) + 1)
      /\ \A i \in 1..Len(seq) : long[i] = seq[i]
      /\ long[Len(seq) + 1] = "confirm"
  BY Longer DEF TerminalEvents
<1>2. Verdict(seq) = VerdictOf(seq)
  BY DEF Verdict, Decisive
<1> HIDE DEF long
<1>3. \A i \in 1..Len(seq) : i \notin Cut(long)
  <2> SUFFICES ASSUME NEW i \in 1..Len(seq), i \in Cut(long)
               PROVE  FALSE
    OBVIOUS
  <2>1. long[i] = seq[i] /\ \A j \in 1..(i - 1) : long[j] = seq[j]
    BY <1>1
  <2>2. i \in Cut(seq)
    BY <1>1, <2>1 DEF Cut
  <2>. QED  BY <2>2
<1>4. Cut(long) \subseteq {Len(seq) + 1}
  BY <1>1, <1>3 DEF Cut
<1>5. CASE \E j \in 1..Len(seq) : seq[j] # "confirm"
  <2>1. Len(seq) + 1 \in Cut(long)
    <3>1. \E j \in 1..(Len(seq) + 1 - 1) : long[j] # "confirm"
      BY <1>1, <1>5
    <3>. QED  BY <1>1, <3>1 DEF Cut
  <2>2. Cut(long) = {Len(seq) + 1}
    BY <1>4, <2>1
  <2>3. First(Cut(long)) = Len(seq) + 1
    <3>1. Cut(long) \subseteq Nat /\ Cut(long) # {}
      BY <1>1, <2>2
    <3>2. First(Cut(long)) \in Cut(long)
      BY <3>1, FirstExists
    <3>. QED  BY <2>2, <3>2
  <2>4. SubSeq(long, 1, Len(seq)) = seq
    BY <1>1
  <2>5. Decisive(long) = seq
    BY <1>1, <2>1, <2>3, <2>4 DEF Decisive
  <2>6. VerdictOf(seq) # "none"
    BY <1>1, <1>5, VerdictOfNone
  <2>. QED  BY <1>2, <2>1, <2>5, <2>6 DEF Verdict, long
<1>6. CASE \A j \in 1..Len(seq) : seq[j] = "confirm"
  <2>1. \A j \in 1..(Len(seq) + 1) : long[j] = "confirm"
    BY <1>1, <1>6
  <2>2. Cut(long) = {}
    <3>1. \A j \in 1..(Len(seq) + 1 - 1) : long[j] = "confirm"
      BY <1>1, <2>1
    <3>. QED  BY <1>1, <1>4, <3>1 DEF Cut
  <2>3. VerdictOf(seq) = "none" /\ VerdictOf(long) = "none"
    BY <1>1, <1>6, <2>1, VerdictOfNone
  <2>. QED  BY <1>2, <2>2, <2>3 DEF Verdict, Decisive, long
<1>. QED  BY <1>5, <1>6

\* Any other event is added to the ones that decide.
LEMMA VerdictGrows ==
    ASSUME NEW seq \in Seq(TerminalEvents), NEW ev \in TerminalEvents \ {"confirm"},
           Cut(seq) = {}
    PROVE  /\ Cut(Append(seq, ev)) = {}
           /\ Verdict(Append(seq, ev)) =
                IF Verdict(seq) \in {"cancelled"} \cup FailureKinds THEN Verdict(seq)
                ELSE Ends(ev)
<1> DEFINE long == Append(seq, ev)
<1>1. /\ long \in Seq(TerminalEvents) /\ Len(seq) \in Nat
      /\ DOMAIN seq = 1..Len(seq) /\ DOMAIN long = 1..(Len(seq) + 1)
      /\ \A i \in 1..Len(seq) : long[i] = seq[i]
      /\ long[Len(seq) + 1] = ev
  BY Longer
<1> HIDE DEF long
<1>2. Cut(long) = {}
  <2> SUFFICES ASSUME NEW i \in Cut(long)
               PROVE  FALSE
    OBVIOUS
  <2>1. i \in 1..Len(seq)
    BY <1>1 DEF Cut
  <2>2. long[i] = seq[i] /\ \A j \in 1..(i - 1) : long[j] = seq[j]
    BY <1>1, <2>1
  <2>3. i \in Cut(seq)
    BY <1>1, <2>1, <2>2 DEF Cut
  <2>. QED  BY <2>3
<1>3. Verdict(long) = VerdictOf(long) /\ Verdict(seq) = VerdictOf(seq)
  BY <1>2 DEF Verdict, Decisive
<1>. QED  BY <1>2, <1>3, VerdictOfLonger DEF long

-----------------------------------------------------------------------------
\* What each method does to the members.

\* A take that an event can still decide.
Undecided(a) == a.active /\ ~a.confirmed /\ ~Ended(a)

\* cancel()
LEMMA CancelEffect ==
    ASSUME NEW a \in Arbiters
    PROVE  LET b == Cancel(a) IN
           /\ b \in Arbiters /\ b.active = a.active
           /\ b.confirmed = a.confirmed /\ b.result = a.result
           /\ b.stop = IF a.stop = "none" THEN "cancellation" ELSE a.stop
           /\ b.pending + b.discarded = a.pending + a.discarded
           /\ Undecided(a) => b.cancelled /\ b.pending = 0
           /\ ~Undecided(a) => /\ b.cancelled = a.cancelled /\ b.failure = a.failure
                               /\ b.natural = a.natural /\ b.pending = a.pending
<1>1. Cancel(a) \in Arbiters
  BY ArbiterTypes
<1> DEFINE c == [DiscardControls(a) EXCEPT !.cancelled = TRUE]
<1>2. /\ c.active = a.active /\ c.confirmed = a.confirmed /\ c.result = a.result
      /\ c.stop = a.stop /\ c.cancelled /\ c.pending = 0
      /\ c.discarded = a.discarded + a.pending /\ c \in Arbiters
  <2>1. DiscardControls(a) \in Arbiters
    BY DiscardTypes
  <2>2. c \in Arbiters /\ c.cancelled
    BY <2>1, Zenon DEF Arbiters
  <2>. QED  BY <2>2, SMT DEF DiscardControls, Arbiters
<1> HIDE DEF c
<1> DEFINE d == IF Undecided(a) THEN c ELSE a
<1>3. Cancel(a) = IF d.stop = "none" THEN [d EXCEPT !.stop = "cancellation"] ELSE d
  BY Zenon DEF Cancel, CancelDecides, Stopped, Undecided, c
<1>4. d \in Arbiters /\ d.stop = a.stop
  BY <1>2
<1> HIDE DEF d
<1>5. /\ Cancel(a).active = d.active /\ Cancel(a).confirmed = d.confirmed
      /\ Cancel(a).result = d.result /\ Cancel(a).pending = d.pending
      /\ Cancel(a).discarded = d.discarded /\ Cancel(a).cancelled = d.cancelled
      /\ Cancel(a).failure = d.failure /\ Cancel(a).natural = d.natural
      /\ Cancel(a).stop = IF a.stop = "none" THEN "cancellation" ELSE a.stop
  BY <1>3, <1>4 DEF Arbiters
<1>6. a.pending \in Nat /\ a.discarded \in Nat
  BY DEF Arbiters
<1>7. CASE Undecided(a)
  <2>1. d = c
    BY <1>7 DEF d
  <2>. QED  BY <1>1, <1>2, <1>5, <1>6, <1>7, <2>1
<1>8. CASE ~Undecided(a)
  <2>1. d = a
    BY <1>8 DEF d
  <2>. QED  BY <1>1, <1>5, <1>6, <1>8, <2>1
<1>. QED  BY <1>7, <1>8

\* fail()
LEMMA FailEffect ==
    ASSUME NEW a \in Arbiters, NEW kind \in FailureKinds
    PROVE  LET b == Fail(a, kind) IN
           /\ b \in Arbiters
           /\ ~Undecided(a) => b = a
           /\ Undecided(a) =>
                /\ b.active = a.active /\ b.confirmed = a.confirmed /\ b.result = a.result
                /\ b.stop = IF a.stop = "none" THEN "failure" ELSE a.stop
                /\ b.pending = 0 /\ b.discarded = a.pending + a.discarded
                /\ b.cancelled = a.cancelled /\ b.failure = kind
<1>1. Fail(a, kind) \in Arbiters
  BY ArbiterTypes
<1>2. CASE ~Undecided(a)
  BY <1>1, <1>2 DEF Fail, Undecided
<1>3. CASE Undecided(a)
  <2> DEFINE c == [DiscardControls(a) EXCEPT !.failure = kind]
  <2>1. /\ c.active = a.active /\ c.confirmed = a.confirmed /\ c.result = a.result
        /\ c.stop = a.stop /\ c.cancelled = a.cancelled /\ c.pending = 0
        /\ c.discarded = a.pending + a.discarded /\ c.failure = kind /\ c \in Arbiters
    <3>1. DiscardControls(a) \in Arbiters
      BY DiscardTypes
    <3>2. c \in Arbiters
      BY <3>1, Zenon DEF Arbiters
    <3>. QED  BY <3>2, SMT DEF DiscardControls, Arbiters
  <2>2. Fail(a, kind) = IF c.stop = "none" THEN [c EXCEPT !.stop = "failure"] ELSE c
    BY <1>3, Zenon DEF Fail, Stopped, Undecided
  <2> HIDE DEF c
  <2>. QED  BY <1>1, <1>3, <2>1, <2>2 DEF Arbiters
<1>. QED  BY <1>2, <1>3

\* natural_end()
LEMMA NaturalEndEffect ==
    ASSUME NEW a \in Arbiters
    PROVE  LET b == NaturalEnd(a) IN
           /\ b \in Arbiters
           /\ ~Undecided(a) => b = a
           /\ Undecided(a) =>
                /\ b.active = a.active /\ b.confirmed = a.confirmed /\ b.result = a.result
                /\ b.stop = a.stop /\ b.pending = a.pending /\ b.discarded = a.discarded
                /\ b.cancelled = a.cancelled /\ b.failure = a.failure /\ b.natural
<1>1. NaturalEnd(a) \in Arbiters
  BY ArbiterTypes
<1>2. ~Undecided(a) => NaturalEnd(a) = a
  BY DEF NaturalEnd, Undecided
<1>3. Undecided(a) => NaturalEnd(a) = [a EXCEPT !.natural = TRUE]
  BY Zenon DEF NaturalEnd, Undecided
<1>. QED  BY <1>1, <1>2, <1>3, Zenon DEF Arbiters

\* playback() of a take that is not confirmed has the value of its events, if any.
LEMMA PlaybackValues ==
    ASSUME NEW a \in Arbiters
    PROVE  /\ a.confirmed => Playback(a) = a.result
           /\ ~a.confirmed /\ a.cancelled => Playback(a) = "cancelled"
           /\ ~a.confirmed /\ ~a.cancelled /\ a.failure # "none" => Playback(a) = a.failure
           /\ ~a.confirmed /\ ~Ended(a) /\ a.natural => Playback(a) = "natural_end"
           /\ ~a.confirmed /\ ~Ended(a) /\ ~a.natural => Playback(a) = "none"
           /\ ~a.confirmed => Playback(a) \in PlaybackKinds \cup {"none"}
           /\ ~a.confirmed => (Ended(a) <=> Playback(a) \in {"cancelled"} \cup FailureKinds)
<1>1. a.failure \in FailureKinds \cup {"none"}
  BY DEF Arbiters
<1>2. /\ a.confirmed => Playback(a) = a.result
      /\ ~a.confirmed /\ a.cancelled => Playback(a) = "cancelled"
      /\ ~a.confirmed /\ ~a.cancelled /\ a.failure # "none" => Playback(a) = a.failure
      /\ ~a.confirmed /\ ~Ended(a) /\ a.natural => Playback(a) = "natural_end"
      /\ ~a.confirmed /\ ~Ended(a) /\ ~a.natural => Playback(a) = "none"
  BY DEF Playback, Ended
<1>. QED  BY <1>1, <1>2 DEF Ended, PlaybackKinds, FailureKinds

\* confirm()
LEMMA ConfirmEffect ==
    ASSUME NEW a \in Arbiters
    PROVE  LET b == Confirm(a) IN
           /\ b \in Arbiters
           /\ Playback(b) = Playback(a)
           /\ b.active = a.active /\ b.stop = a.stop
           /\ b.pending = a.pending /\ b.discarded = a.discarded
           /\ b.cancelled = a.cancelled /\ b.failure = a.failure
           /\ b.confirmed <=> a.confirmed \/ Playback(a) # "none"
           /\ a.confirmed => b = a
<1>1. CASE a.confirmed \/ Playback(a) = "none"
  BY <1>1 DEF Confirm
<1>2. CASE ~(a.confirmed \/ Playback(a) = "none")
  <2>1. Playback(a) \in PlaybackKinds
    BY <1>2, PlaybackValues
  <2>2. Confirm(a) \in Arbiters
    BY <2>1, ArbiterTypes
  <2>3. Confirm(a) = [a EXCEPT !.confirmed = TRUE, !.result = Playback(a)]
    BY <1>2, Zenon DEF Confirm
  <2>4. /\ Confirm(a).active = a.active /\ Confirm(a).stop = a.stop
        /\ Confirm(a).pending = a.pending /\ Confirm(a).discarded = a.discarded
        /\ Confirm(a).cancelled = a.cancelled /\ Confirm(a).failure = a.failure
        /\ Confirm(a).confirmed /\ Confirm(a).result = Playback(a)
    BY <2>3, Zenon DEF Arbiters
  <2>5. Playback(Confirm(a)) = Playback(a)
    BY <2>2, <2>4, PlaybackValues
  <2>. QED  BY <1>2, <2>2, <2>4, <2>5
<1>. QED  BY <1>1, <1>2

\* queue_control() and control_sent()
LEMMA ControlEffect ==
    ASSUME NEW a \in Arbiters, NEW b \in {QueueControl(a), ControlSent(a)}
    PROVE  /\ b \in Arbiters
           /\ b.active = a.active /\ b.confirmed = a.confirmed /\ b.result = a.result
           /\ b.stop = a.stop /\ b.cancelled = a.cancelled /\ b.failure = a.failure
           /\ b.natural = a.natural
<1>1. a.pending \in Nat /\ a.discarded \in Nat
  BY DEF Arbiters
<1>2. /\ a.pending + 1 \in Nat /\ a.discarded + 1 \in Nat
      /\ a.pending > 0 => a.pending - 1 \in Nat
  BY <1>1
<1>3. \/ b = [a EXCEPT !.discarded = a.discarded + 1]
      \/ b = [a EXCEPT !.pending = a.pending + 1]
      \/ a.pending > 0 /\ b = [a EXCEPT !.pending = a.pending - 1]
      \/ b = a
  BY Zenon DEF QueueControl, ControlSent
<1>4. b \in Arbiters
  BY <1>2, <1>3, Zenon DEF Arbiters
<1>. QED  BY <1>3, <1>4 DEF Arbiters

-----------------------------------------------------------------------------
\* The inductive invariant.

\* Controls are accounted for between takes too.
Accounts ==
    /\ sent + arb.pending + arb.discarded = queued
    /\ Ended(arb) => arb.pending = 0

\* The take is confirmed exactly when a confirmation had something to confirm.
ResultFollowsEvents ==
    arb.active =>
        /\ arb.confirmed <=> Cut(events) # {}
        /\ Playback(arb) = Verdict(events)

Inv == TypeOK /\ Accounts /\ FirstStopIsKept /\ ResultFollowsEvents

\* No take has begun.
LEMMA InvInit == Init => Inv
<1> SUFFICES ASSUME Init PROVE Inv
  OBVIOUS
<1>1. arb \in Arbiters
  BY ArbiterTypes DEF Init
<1>2. /\ ~arb.active /\ ~Ended(arb) /\ arb.pending = 0 /\ arb.discarded = 0
      /\ arb.stop = "none"
  BY DEF Init, NewArbiter, Ended
<1>3. TypeOK
  BY <1>1, BoundsAssumption DEF Init, TypeOK
<1>. QED  BY <1>2, <1>3 DEF Init, Inv, Accounts, FirstStopIsKept, ResultFollowsEvents

\* A take begins without events and keeps the reason to stop.
LEMMA BeginStep == Inv /\ DoBeginTake => Inv'
<1> SUFFICES ASSUME Inv, DoBeginTake PROVE Inv'
  OBVIOUS
<1>1. arb' \in Arbiters
  BY ArbiterTypes DEF Inv, TypeOK, DoBeginTake
<1>2. /\ ~arb'.confirmed /\ ~Ended(arb') /\ ~arb'.natural
      /\ arb'.pending = 0 /\ arb'.discarded = 0 /\ arb'.stop = arb.stop
  BY DEF DoBeginTake, BeginTake, NewArbiter, Ended
<1>3. events' = <<>> /\ queued' = 0 /\ sent' = 0 /\ stops' = stops
  BY DEF DoBeginTake
<1>4. TypeOK'
  BY <1>1, <1>3, BoundsAssumption DEF DoBeginTake, Inv, TypeOK
<1>5. Playback(arb') = "none"
  BY <1>1, <1>2, PlaybackValues
<1>6. Cut(<<>>) = {} /\ Verdict(<<>>) = "none"
  BY DEF Cut, Verdict, VerdictOf, Decisive, Hard
<1>. QED  BY <1>2, <1>3, <1>4, <1>5, <1>6
          DEF Inv, Accounts, FirstStopIsKept, ResultFollowsEvents

\* The first reason to stop, when one more is given.
LEMMA StopsGrow ==
    ASSUME Inv, NEW reason \in {"cancellation", "failure"}, stops' = Append(stops, reason),
           arb'.stop = IF arb.stop = "none" THEN reason ELSE arb.stop
    PROVE  FirstStopIsKept'
<1>1. stops \in Seq({"cancellation", "failure"})
  BY DEF Inv, TypeOK
<1>2. CASE stops = <<>>
  <2>1. arb.stop = "none"
    BY <1>2 DEF Inv, FirstStopIsKept
  <2>2. stops' = <<reason>>
    BY <1>2
  <2>. QED  BY <2>1, <2>2 DEF FirstStopIsKept
<1>3. CASE stops # <<>>
  <2>1. arb.stop = Head(stops) /\ Head(stops) \in {"cancellation", "failure"}
    BY <1>1, <1>3 DEF Inv, FirstStopIsKept
  <2>2. stops' # <<>> /\ Head(stops') = Head(stops)
    BY <1>1, <1>3
  <2>. QED  BY <2>1, <2>2 DEF FirstStopIsKept
<1>. QED  BY <1>2, <1>3

\* An event that ends a take, observed while the take is active.
LEMMA EventStep ==
    ASSUME Inv, NEW ev \in TerminalEvents \ {"confirm"}, Observe(ev),
           arb' \in Arbiters, arb'.active = arb.active, arb'.confirmed = arb.confirmed,
           arb'.result = arb.result,
           Undecided(arb) => Playback(arb') = Ends(ev),
           ~Undecided(arb) => Playback(arb') = Playback(arb)
    PROVE  ResultFollowsEvents'
<1> SUFFICES ASSUME arb.active
             PROVE  /\ arb'.confirmed <=> Cut(events') # {}
                    /\ Playback(arb') = Verdict(events')
  BY DEF ResultFollowsEvents
<1>1. events' = Append(events, ev) /\ events \in Seq(TerminalEvents) /\ arb \in Arbiters
  BY DEF Observe, Inv, TypeOK
<1>2. (arb.confirmed <=> Cut(events) # {}) /\ Playback(arb) = Verdict(events)
  BY DEF Inv, ResultFollowsEvents
<1>3. CASE arb.confirmed
  BY <1>1, <1>2, <1>3, VerdictStays DEF Undecided
<1>4. CASE ~arb.confirmed
  <2>1. /\ Cut(events') = {}
        /\ Verdict(events') = IF Verdict(events) \in {"cancelled"} \cup FailureKinds
                                THEN Verdict(events) ELSE Ends(ev)
    BY <1>1, <1>2, <1>4, VerdictGrows
  <2>2. Ended(arb) <=> Playback(arb) \in {"cancelled"} \cup FailureKinds
    BY <1>1, <1>4, PlaybackValues
  <2>. QED  BY <1>2, <1>4, <2>1, <2>2 DEF Undecided
<1>. QED  BY <1>3, <1>4

\* An observed event belongs to the sequence of the take.
LEMMA ObserveTypes ==
    ASSUME Inv, NEW ev \in TerminalEvents, Observe(ev)
    PROVE  /\ events' \in Seq(TerminalEvents) /\ UNCHANGED <<take, queued, sent>>
           /\ take' \in 0..MaxTakes /\ queued' \in 0..MaxControls /\ sent' \in 0..MaxControls
BY DEF Inv, TypeOK, Observe

\* A cancellation decides the take unless something else has, and stops the request.
LEMMA CancelStep == Inv /\ DoCancel => Inv'
<1> SUFFICES ASSUME Inv, DoCancel PROVE Inv'
  OBVIOUS
<1>0. arb \in Arbiters /\ arb' = Cancel(arb) /\ Observe("cancel") /\ "cancel" \in TerminalEvents
  BY DEF Inv, TypeOK, DoCancel, TerminalEvents
<1>1. /\ arb' \in Arbiters /\ arb'.active = arb.active
      /\ arb'.confirmed = arb.confirmed /\ arb'.result = arb.result
      /\ arb'.stop = IF arb.stop = "none" THEN "cancellation" ELSE arb.stop
      /\ arb'.pending + arb'.discarded = arb.pending + arb.discarded
      /\ Undecided(arb) => arb'.cancelled /\ arb'.pending = 0
      /\ ~Undecided(arb) => /\ arb'.cancelled = arb.cancelled /\ arb'.failure = arb.failure
                            /\ arb'.natural = arb.natural /\ arb'.pending = arb.pending
  BY <1>0, CancelEffect
<1>2. TypeOK'
  <2>1. stops' \in Seq({"cancellation", "failure"})
    BY DEF DoCancel, Inv, TypeOK
  <2>. QED  BY <1>0, <1>1, <2>1, ObserveTypes DEF TypeOK
<1>3. Accounts'
  <2>1. /\ arb.pending \in Nat /\ arb.discarded \in Nat
        /\ arb'.pending \in Nat /\ arb'.discarded \in Nat
        /\ sent \in Nat /\ queued \in Nat
    BY <1>0, <1>1, BoundsAssumption DEF Inv, TypeOK, Arbiters
  <2>2. sent' = sent /\ queued' = queued
    BY <1>0, ObserveTypes
  <2>3. sent' + arb'.pending + arb'.discarded = queued'
    BY <1>1, <2>1, <2>2 DEF Inv, Accounts
  <2>4. Ended(arb') => arb'.pending = 0
    BY <1>1 DEF Inv, Accounts, Ended
  <2>. QED  BY <2>3, <2>4 DEF Accounts
<1>4. FirstStopIsKept'
  BY <1>1, StopsGrow DEF DoCancel
<1>5. ResultFollowsEvents'
  <2>1. Undecided(arb) => Playback(arb') = Ends("cancel")
    BY <1>1, PlaybackValues DEF Undecided, Ends
  <2>2. ~Undecided(arb) => Playback(arb') = Playback(arb)
    BY <1>1 DEF Playback, Ended
  <2>. QED  BY <1>0, <1>1, <2>1, <2>2, EventStep DEF TerminalEvents
<1>. QED  BY <1>2, <1>3, <1>4, <1>5 DEF Inv

\* A failure decides the take unless something else has; only then it stops the request.
LEMMA FailStep ==
    ASSUME Inv, NEW kind \in FailureKinds, DoFail(kind)
    PROVE  Inv'
<1>0. /\ arb \in Arbiters /\ arb' = Fail(arb, kind) /\ Observe(kind)
      /\ kind \in TerminalEvents \ {"confirm"} /\ kind # "none" /\ kind # "cancel"
  BY DEF Inv, TypeOK, DoFail, TerminalEvents, FailureKinds
<1>1. /\ arb' \in Arbiters
      /\ ~Undecided(arb) => arb' = arb
      /\ Undecided(arb) =>
           /\ arb'.active = arb.active /\ arb'.confirmed = arb.confirmed
           /\ arb'.result = arb.result
           /\ arb'.stop = IF arb.stop = "none" THEN "failure" ELSE arb.stop
           /\ arb'.pending = 0 /\ arb'.discarded = arb.pending + arb.discarded
           /\ arb'.cancelled = arb.cancelled /\ arb'.failure = kind
  BY <1>0, FailEffect
<1>2. Undecided(arb) => arb' # arb /\ ~arb'.cancelled
  BY <1>0, <1>1 DEF Undecided, Ended
<1>3. TypeOK'
  <2>1. stops' \in Seq({"cancellation", "failure"})
    BY DEF DoFail, Inv, TypeOK
  <2>. QED  BY <1>0, <1>1, <2>1, ObserveTypes DEF TypeOK
<1>4. Accounts'
  <2>1. /\ arb.pending \in Nat /\ arb.discarded \in Nat
        /\ sent \in Nat /\ queued \in Nat
    BY <1>0, BoundsAssumption DEF Inv, TypeOK, Arbiters
  <2>2. sent' = sent /\ queued' = queued
    BY <1>0, ObserveTypes
  <2>3. CASE Undecided(arb)
    BY <1>1, <2>1, <2>2, <2>3 DEF Inv, Accounts
  <2>4. CASE ~Undecided(arb)
    BY <1>1, <2>2, <2>4 DEF Inv, Accounts
  <2>. QED  BY <2>3, <2>4
<1>5. FirstStopIsKept'
  <2>1. CASE Undecided(arb)
    BY <1>1, <1>2, <2>1, StopsGrow DEF DoFail
  <2>2. CASE ~Undecided(arb)
    BY <1>1, <2>2 DEF DoFail, Inv, FirstStopIsKept
  <2>. QED  BY <2>1, <2>2
<1>6. ResultFollowsEvents'
  <2>1. Undecided(arb) => Playback(arb') = Ends(kind)
    BY <1>0, <1>1, <1>2, PlaybackValues DEF Undecided, Ends
  <2>2. ~Undecided(arb) => Playback(arb') = Playback(arb)
    BY <1>1
  <2>3. /\ arb'.active = arb.active /\ arb'.confirmed = arb.confirmed
        /\ arb'.result = arb.result
    BY <1>1
  <2>. QED  BY <1>0, <1>1, <2>1, <2>2, <2>3, EventStep
<1>. QED  BY <1>3, <1>4, <1>5, <1>6 DEF Inv

\* A natural end counts only while nothing else has ended the take.
LEMMA NaturalEndStep == Inv /\ DoNaturalEnd => Inv'
<1> SUFFICES ASSUME Inv, DoNaturalEnd PROVE Inv'
  OBVIOUS
<1>0. /\ arb \in Arbiters /\ arb' = NaturalEnd(arb) /\ Observe("natural_end")
      /\ "natural_end" \in TerminalEvents \ {"confirm"} /\ stops' = stops
  BY DEF Inv, TypeOK, DoNaturalEnd, TerminalEvents
<1>1. /\ arb' \in Arbiters
      /\ ~Undecided(arb) => arb' = arb
      /\ Undecided(arb) =>
           /\ arb'.active = arb.active /\ arb'.confirmed = arb.confirmed
           /\ arb'.result = arb.result /\ arb'.stop = arb.stop
           /\ arb'.pending = arb.pending /\ arb'.discarded = arb.discarded
           /\ arb'.cancelled = arb.cancelled /\ arb'.failure = arb.failure /\ arb'.natural
  BY <1>0, NaturalEndEffect
<1>2. TypeOK'
  BY <1>0, <1>1, ObserveTypes DEF Inv, TypeOK
<1>3. Accounts' /\ FirstStopIsKept'
  <2>1. sent' = sent /\ queued' = queued
    BY <1>0, ObserveTypes
  <2>2. /\ arb'.pending = arb.pending /\ arb'.discarded = arb.discarded
        /\ arb'.stop = arb.stop /\ (Ended(arb') => Ended(arb))
    BY <1>1 DEF Ended
  <2>. QED  BY <1>0, <2>1, <2>2 DEF Inv, Accounts, FirstStopIsKept
<1>4. ResultFollowsEvents'
  <2>1. Undecided(arb) => Playback(arb') = Ends("natural_end")
    BY <1>1, PlaybackValues DEF Undecided, Ends, Ended
  <2>2. ~Undecided(arb) => Playback(arb') = Playback(arb)
    BY <1>1
  <2>3. /\ arb'.active = arb.active /\ arb'.confirmed = arb.confirmed
        /\ arb'.result = arb.result
    BY <1>1
  <2>. QED  BY <1>0, <1>1, <2>1, <2>2, <2>3, EventStep
<1>. QED  BY <1>2, <1>3, <1>4 DEF Inv

\* A confirmation freezes what the events have decided, if they have.
LEMMA ConfirmStep == Inv /\ DoConfirm => Inv'
<1> SUFFICES ASSUME Inv, DoConfirm PROVE Inv'
  OBVIOUS
<1>0. /\ arb \in Arbiters /\ arb' = Confirm(arb) /\ Observe("confirm")
      /\ "confirm" \in TerminalEvents /\ stops' = stops
  BY DEF Inv, TypeOK, DoConfirm, TerminalEvents
<1>1. /\ arb' \in Arbiters /\ Playback(arb') = Playback(arb)
      /\ arb'.active = arb.active /\ arb'.stop = arb.stop
      /\ arb'.pending = arb.pending /\ arb'.discarded = arb.discarded
      /\ arb'.cancelled = arb.cancelled /\ arb'.failure = arb.failure
      /\ arb'.confirmed <=> arb.confirmed \/ Playback(arb) # "none"
  BY <1>0, ConfirmEffect
<1>2. TypeOK'
  BY <1>0, <1>1, ObserveTypes DEF Inv, TypeOK
<1>3. Accounts' /\ FirstStopIsKept'
  <2>1. sent' = sent /\ queued' = queued
    BY <1>0, ObserveTypes
  <2>. QED  BY <1>0, <1>1, <2>1 DEF Inv, Accounts, FirstStopIsKept, Ended
<1>4. ResultFollowsEvents'
  <2> SUFFICES ASSUME arb.active
               PROVE  /\ arb'.confirmed <=> Cut(events') # {}
                      /\ Playback(arb') = Verdict(events')
    BY <1>1 DEF ResultFollowsEvents
  <2>1. events' = Append(events, "confirm") /\ events \in Seq(TerminalEvents)
    BY <1>0 DEF Observe, Inv, TypeOK
  <2>2. (arb.confirmed <=> Cut(events) # {}) /\ Playback(arb) = Verdict(events)
    BY DEF Inv, ResultFollowsEvents
  <2>3. CASE arb.confirmed
    BY <1>0, <1>1, <2>1, <2>2, <2>3, VerdictStays
  <2>4. CASE ~arb.confirmed
    BY <1>1, <2>1, <2>2, <2>4, VerdictConfirmed
  <2>. QED  BY <2>3, <2>4
<1>. QED  BY <1>2, <1>3, <1>4 DEF Inv

\* The controls of an inspection do not touch the end of the take.
LEMMA ControlStep == Inv /\ (DoQueueControl \/ DoControlSent) => Inv'
<1> SUFFICES ASSUME Inv, DoQueueControl \/ DoControlSent PROVE Inv'
  OBVIOUS
<1>0. /\ arb \in Arbiters /\ UNCHANGED <<take, events, stops>>
      /\ arb' \in {QueueControl(arb), ControlSent(arb)}
  BY DEF Inv, TypeOK, DoQueueControl, DoControlSent
<1>1. /\ arb' \in Arbiters
      /\ arb'.active = arb.active /\ arb'.confirmed = arb.confirmed
      /\ arb'.result = arb.result /\ arb'.stop = arb.stop
      /\ arb'.cancelled = arb.cancelled /\ arb'.failure = arb.failure
      /\ arb'.natural = arb.natural
  BY <1>0, ControlEffect
<1>2. /\ arb.pending \in Nat /\ arb.discarded \in Nat
      /\ arb'.pending \in Nat /\ arb'.discarded \in Nat
      /\ sent \in Nat /\ queued \in Nat /\ MaxControls \in Nat /\ queued <= MaxControls
      /\ sent + arb.pending + arb.discarded = queued /\ (Ended(arb) => arb.pending = 0)
  BY <1>0, <1>1, BoundsAssumption DEF Inv, TypeOK, Arbiters, Accounts
<1>3. \/ /\ DoQueueControl /\ (Ended(arb) \/ ~arb.active)
         /\ arb'.pending = arb.pending /\ arb'.discarded = arb.discarded + 1
      \/ /\ DoQueueControl /\ ~Ended(arb)
         /\ arb'.pending = arb.pending + 1 /\ arb'.discarded = arb.discarded
      \/ /\ DoControlSent /\ arb.pending > 0
         /\ arb'.pending = arb.pending - 1 /\ arb'.discarded = arb.discarded
      \/ DoControlSent /\ ~(arb.pending > 0) /\ arb' = arb
  BY <1>0 DEF DoQueueControl, DoControlSent, QueueControl, ControlSent, Arbiters
<1>4. Ended(arb') <=> Ended(arb)
  BY <1>1 DEF Ended
<1>5. /\ sent' + arb'.pending + arb'.discarded = queued'
      /\ queued' \in 0..MaxControls /\ sent' \in Nat
  <2>1. CASE DoQueueControl /\ ~DoControlSent
    BY <1>2, <1>3, <2>1 DEF DoQueueControl
  <2>2. CASE DoControlSent
    <3>1. \/ /\ arb.pending > 0 /\ sent' = sent + 1
             /\ arb'.pending = arb.pending - 1 /\ arb'.discarded = arb.discarded
          \/ ~(arb.pending > 0) /\ arb' = arb /\ sent' = sent
      BY <1>0, <2>2 DEF DoControlSent, ControlSent, Arbiters
    <3>2. queued' = queued
      BY <2>2 DEF DoControlSent
    <3>. QED  BY <1>2, <3>1, <3>2
  <2>. QED  BY <2>1, <2>2
<1>6. Ended(arb') => arb'.pending = 0
  BY <1>2, <1>3, <1>4
<1>7. sent' \in 0..MaxControls
  BY <1>1, <1>2, <1>5 DEF Arbiters
<1>8. TypeOK'
  BY <1>0, <1>1, <1>5, <1>7 DEF Inv, TypeOK
<1>9. FirstStopIsKept' /\ ResultFollowsEvents'
  <2>1. Playback(arb') = Playback(arb)
    BY <1>1, <1>4 DEF Playback
  <2>. QED  BY <1>0, <1>1, <2>1 DEF Inv, FirstStopIsKept, ResultFollowsEvents
<1>. QED  BY <1>5, <1>6, <1>8, <1>9 DEF Inv, Accounts

\* Every call keeps the invariant.
LEMMA InvStep == Inv /\ [Next]_vars => Inv'
<1> SUFFICES ASSUME Inv, [Next]_vars PROVE Inv'
  OBVIOUS
<1>1. CASE UNCHANGED vars
  BY <1>1 DEF vars, Inv, TypeOK, Accounts, FirstStopIsKept, ResultFollowsEvents
<1>2. CASE Next
  BY <1>2, BeginStep, CancelStep, FailStep, NaturalEndStep, ConfirmStep, ControlStep DEF Next
<1>. QED  BY <1>1, <1>2

(***************************************************************************)
(* Rules 1 to 3 of the arbiter for requests with any number of takes and   *)
(* events: the result is the verdict of the events, in whatever order they *)
(* come and however late the confirmation is.                              *)
(***************************************************************************)
THEOREM ResultIsVerdict == Spec => []PlaybackFollowsEvents
<1>1. Inv => PlaybackFollowsEvents
  BY DEF Inv, ResultFollowsEvents, PlaybackFollowsEvents
<1>. QED  BY InvInit, InvStep, <1>1, PTL DEF Spec

(***************************************************************************)
(* The first reason to stop the request is kept, over any number of takes. *)
(***************************************************************************)
THEOREM FirstStopKept == Spec => []FirstStopIsKept
<1>1. Inv => FirstStopIsKept
  BY DEF Inv
<1>. QED  BY InvInit, InvStep, <1>1, PTL DEF Spec

(***************************************************************************)
(* No control is lost or counted twice, and none is pending once the take  *)
(* was cancelled or failed.                                                *)
(***************************************************************************)
THEOREM ControlsAreAccounted == Spec => []ControlsAccounted
<1>1. Inv => ControlsAccounted
  BY DEF Inv, Accounts, ControlsAccounted
<1>. QED  BY InvInit, InvStep, <1>1, PTL DEF Spec

(***************************************************************************)
(* A confirmed result stays as it is while the take lasts, whatever the    *)
(* owner still tells the arbiter.                                          *)
(***************************************************************************)
THEOREM ConfirmedStays == Spec => ConfirmedNeverChanges
<1>1. ASSUME Inv, [Next]_vars
      PROVE  [arb.confirmed /\ take' = take =>
                 arb'.confirmed /\ Playback(arb') = Playback(arb)]_vars
  <2> SUFFICES ASSUME Next, arb.confirmed, take' = take
               PROVE  arb'.confirmed /\ Playback(arb') = Playback(arb)
    BY <1>1 DEF vars
  <2>1. arb \in Arbiters /\ ~DoBeginTake /\ ~Undecided(arb)
    BY <1>1, BoundsAssumption DEF Inv, TypeOK, DoBeginTake, Undecided
  <2>2. \/ arb' = Cancel(arb)
        \/ \E kind \in FailureKinds : arb' = Fail(arb, kind)
        \/ arb' = NaturalEnd(arb)
        \/ arb' = Confirm(arb)
        \/ arb' \in {QueueControl(arb), ControlSent(arb)}
    BY <2>1 DEF Next, DoCancel, DoFail, DoNaturalEnd, DoConfirm, DoQueueControl, DoControlSent
  <2>3. arb' \in Arbiters /\ arb'.confirmed = arb.confirmed /\ arb'.result = arb.result
    <3>1. CASE arb' = Cancel(arb)
      BY <2>1, <3>1, CancelEffect
    <3>2. CASE \E kind \in FailureKinds : arb' = Fail(arb, kind)
      BY <2>1, <3>2, FailEffect
    <3>3. CASE arb' = NaturalEnd(arb)
      BY <2>1, <3>3, NaturalEndEffect
    <3>4. CASE arb' = Confirm(arb)
      BY <2>1, <3>4, ConfirmEffect
    <3>5. CASE arb' \in {QueueControl(arb), ControlSent(arb)}
      BY <2>1, <3>5, ControlEffect
    <3>. QED  BY <2>2, <3>1, <3>2, <3>3, <3>4, <3>5
  <2>4. arb'.confirmed
    BY <2>3
  <2>5. Playback(arb') = arb'.result /\ Playback(arb) = arb.result
    BY <2>1, <2>3, <2>4, PlaybackValues
  <2>. QED  BY <2>3, <2>4, <2>5
<1>. QED  BY InvInit, InvStep, <1>1, PTL DEF Spec, ConfirmedNeverChanges

(***************************************************************************)
(* The supervision of a run.                                               *)
(***************************************************************************)

-----------------------------------------------------------------------------
\* The inductive invariant.

Times == Nat \cup {None}
Phases == {"preparing", "ready", "playing", "closing", "closed"}
States == {"idle", "requested", "acknowledged", "applied", "response_missing",
           "cessation_unknown", "cessation_confirmed"}

Lives == [phase : Phases, playback : Results, evidence : {"pending", "complete", "incomplete"}]

\* The deadlines are counts of milliseconds.
Deadlines == {ResponseDeadline, WaitDeadline, NoProgress} \subseteq Nat

Typed ==
    /\ now \in Nat
    /\ frames \in Nat
    /\ life \in Lives
    /\ terminal \in {"none", "natural_end", "failed"}
    /\ cancel \in [gate : BOOLEAN, requested : BOOLEAN, after : Nat, applied : BOOLEAN]
    /\ window \in [requested : Times, response : Times, cessation : Times]
    /\ status \in States
    /\ polled \in [state : States, at : Times]
    /\ dog \in [observed : Nat, progress : Nat, frame : Nat, moved : Nat]
    /\ quiet \in BOOLEAN

\* Whoever closed the run gave its verdict, and nobody else.
ClosedByOne ==
    /\ terminal # "none" => ~cancel.applied /\ life.playback = terminal
    /\ cancel.applied => life.playback = "cancelled"
    /\ life.phase \in {"closing", "closed"} <=> terminal # "none" \/ cancel.applied

\* The watchdog counts the frames that were completed.
DogIsFed ==
    /\ dog.frame = frames
    /\ life.phase \in {"preparing", "ready"} => frames = 0
    /\ dog.moved = dog.progress
    /\ dog.progress <= now
    /\ quiet => now - dog.progress < NoProgress

\* Where the window stands for each state of the coordinator.
WindowFollows ==
    /\ status = "idle" <=> window.requested = None
    /\ status = "cessation_confirmed" <=> window.cessation # None
    /\ status = "response_missing" =>
          ~Timely(window) /\ now - window.requested >= ResponseDeadline
    /\ status = "cessation_unknown" => now - window.requested >= WaitDeadline

\* A poll that found the response missing after its deadline stays right.
PollStaysRight ==
    /\ polled.at <= now
    /\ window.requested = None => polled.state = "idle"
    /\ polled.state = "response_missing" /\ polled.at > window.requested + ResponseDeadline =>
          ~Timely(window)
    /\ polled.state = "cessation_unknown" => now - window.requested >= WaitDeadline

RunInv == Typed /\ ClosedByOne /\ DogIsFed /\ WindowFollows /\ PollStaysRight

-----------------------------------------------------------------------------
\* Every step keeps it.

\* A report changes the watchdog to one of its values.
LEMMA ObservedTypes ==
    ASSUME NEW d \in [observed : Nat, progress : Nat, frame : Nat, moved : Nat],
           NEW frame \in Nat, NEW at \in Nat
    PROVE  ObservedFrame(d, frame, at) \in [observed : Nat, progress : Nat, frame : Nat, moved : Nat]
BY Zenon DEF ObservedFrame

\* A run closes with one of the results.
LEMMA ClosingTypes ==
    ASSUME NEW l \in Lives, NEW result \in RunEnds
    PROVE  Closing(l, result) \in Lives
<1>1. result \in Results /\ "closing" \in Phases
  BY DEF Results, Phases
<1>. QED  BY <1>1, Zenon DEF Closing, Lives

\* Every step keeps the types.
LEMMA TypesKept ==
    ASSUME RunInv, Deadlines, [RunNext]_runVars
    PROVE  Typed'
<1>1. CASE Tick
  <2>1. now' \in Nat
    BY <1>1 DEF Tick, RunInv, Typed
  <2>2. UNCHANGED <<sequence, life, frames, terminal, cancel, window, status, polled, process, dog>>
    BY <1>1 DEF Tick
  <2>3. quiet' \in BOOLEAN
    BY <1>1 DEF Tick
  <2>. QED  BY <2>1, <2>2, <2>3, Zenon DEF RunInv, Typed
<1>2. CASE StartNext
  BY <1>2 DEF StartNext, Fresh, NewLife, NewCancel, NewWindow, NewDog, RunInv, Typed, Lives, Phases, States, Times, Results, RunEnds
<1>3. CASE MarkReady
  BY <1>3 DEF MarkReady, RunInv, Typed, Lives, Phases, States, Times, Results, RunEnds
<1>4. CASE StartPlayback
  <2>1. life' \in Lives
    BY <1>4, Zenon DEF StartPlayback, RunInv, Typed, Lives, Phases, Results
  <2>2. dog' \in [observed : Nat, progress : Nat, frame : Nat, moved : Nat]
    BY <1>4 DEF StartPlayback, NewDog, RunInv, Typed
  <2>. QED  BY <1>4, <2>1, <2>2, Zenon DEF StartPlayback, RunInv, Typed, Lives
<1>5. CASE CompleteFrame
  <2>1. frames' \in Nat /\ dog' \in [observed : Nat, progress : Nat, frame : Nat, moved : Nat]
    <3>1. frames + 1 \in Nat /\ now \in Nat
      BY DEF RunInv, Typed
    <3>2. ObservedFrame(dog, frames + 1, now) \in [observed : Nat, progress : Nat, frame : Nat, moved : Nat]
      BY <3>1, ObservedTypes DEF RunInv, Typed
    <3>. QED  BY <1>5, <3>1, <3>2, Zenon DEF CompleteFrame
  <2>. QED  BY <1>5, <2>1, Zenon DEF CompleteFrame, RunInv, Typed
<1>6. CASE RepeatFrame
  <2>1. dog' \in [observed : Nat, progress : Nat, frame : Nat, moved : Nat]
    BY <1>6, ObservedTypes DEF RepeatFrame, RunInv, Typed
  <2>. QED  BY <1>6, <2>1, Zenon DEF RepeatFrame, RunInv, Typed
<1>7. CASE CheckProgress
  BY <1>7 DEF CheckProgress, TimedOut, RunInv, Typed, Lives, Phases, States, Times, Results, RunEnds
<1>8. CASE CaptureCancel
  <2>1. cancel' \in [gate : BOOLEAN, requested : BOOLEAN, after : Nat, applied : BOOLEAN]
    BY <1>8, Zenon DEF CaptureCancel, RunInv, Typed
  <2>. QED  BY <1>8, <2>1, Zenon DEF CaptureCancel, RunInv, Typed
<1>9. CASE ApplyCancel
  <2>1. cancel' \in [gate : BOOLEAN, requested : BOOLEAN, after : Nat, applied : BOOLEAN]
    BY <1>9, Zenon DEF ApplyCancel, RunInv, Typed
  <2>2. life' \in Lives
    BY <1>9, ClosingTypes DEF ApplyCancel, RunInv, Typed, Lives, RunEnds
  <2>. QED  BY <1>9, <2>1, <2>2, Zenon DEF ApplyCancel, RunInv, Typed, Lives
<1>10. CASE ObserveCessation
  BY <1>10 DEF ObserveCessation, Ceased, RunInv, Typed, Lives, Phases, States, Times, Results, RunEnds
<1>11. CASE Poll
  BY <1>11 DEF Poll, WindowVerdict, RunInv, Typed, Lives, Phases, States, Times, Results, RunEnds
<1>12. CASE ObserveDisconnect
  BY <1>12 DEF ObserveDisconnect, CessationStep, RunInv, Typed, Lives, Phases, States, Times, Results, RunEnds
<1>13. CASE RequestStop
  BY <1>13 DEF RequestStop, CessationStep, RunInv, Typed, Lives, Phases, States, Times, Results, RunEnds
<1>14. CASE MarkUnconfirmed
  BY <1>14 DEF MarkUnconfirmed, CessationStep, RunInv, Typed, Lives, Phases, States, Times, Results, RunEnds
<1>15. CASE ConfirmExit
  BY <1>15 DEF ConfirmExit, CessationStep, RunInv, Typed, Lives, Phases, States, Times, Results, RunEnds
<1>16. CASE FinishCurrent
  BY <1>16 DEF FinishCurrent, RunInv, Typed, Lives, Phases, States, Times, Results, RunEnds
<1>17. ASSUME NEW result \in {"natural_end", "failed"}, Resolve(result) PROVE Typed'
  <2>1. life' \in Lives /\ terminal' \in {"none", "natural_end", "failed"}
    BY <1>17, ClosingTypes DEF Resolve, Resolves, RunInv, Typed, Lives, RunEnds
  <2>. QED  BY <1>17, <2>1, Zenon DEF Resolve, Resolves, RunInv, Typed, Lives
<1>18. ASSUME NEW evidence \in {"complete", "incomplete"}, FinishClosing(evidence) PROVE Typed'
  <2>1. life' \in Lives
    BY <1>18, Zenon DEF FinishClosing, RunInv, Typed, Lives, Phases
  <2>. QED  BY <1>18, <2>1, Zenon DEF FinishClosing, RunInv, Typed, Lives
<1>19. ASSUME NEW delivered \in BOOLEAN, RequestCancel(delivered) PROVE Typed'
  BY <1>19 DEF RequestCancel, Attempted, GateOpens, RunInv, Typed, Lives, Phases, States, Times, Results, RunEnds
<1>20. ASSUME NEW stage \in {"acknowledged", "applied"}, ObserveAnswer(stage) PROVE Typed'
  BY <1>20 DEF ObserveAnswer, Responded, RunInv, Typed, Lives, Phases, States, Times, Results, RunEnds
<1>21. CASE UNCHANGED runVars
  BY <1>21 DEF runVars, RunInv, Typed, Lives, Phases, States, Times, Results, RunEnds
<1>. QED
  BY <1>1, <1>2, <1>3, <1>4, <1>5, <1>6, <1>7, <1>8, <1>9, <1>10, <1>11, <1>12, <1>13, <1>14, <1>15, <1>16, <1>17, <1>18, <1>19, <1>20, <1>21 DEF RunNext

\* The verdict of a run is given once.
LEMMA VerdictKept ==
    ASSUME RunInv, [RunNext]_runVars
    PROVE  ClosedByOne'
<1>1. CASE Tick
  BY <1>1 DEF Tick, RunInv, ClosedByOne, Typed, Lives, Phases, RunEnds
<1>2. CASE StartNext
  BY <1>2 DEF StartNext, Fresh, NewLife, NewCancel, NewWindow, NewDog, RunInv, ClosedByOne, Typed, Lives, Phases, RunEnds
<1>3. CASE MarkReady
  BY <1>3 DEF MarkReady, RunInv, ClosedByOne, Typed, Lives, Phases, RunEnds
<1>4. CASE StartPlayback
  BY <1>4 DEF StartPlayback, NewDog, RunInv, ClosedByOne, Typed, Lives, Phases, RunEnds
<1>5. CASE CompleteFrame
  BY <1>5 DEF CompleteFrame, ObservedFrame, RunInv, ClosedByOne, Typed, Lives, Phases, RunEnds
<1>6. CASE RepeatFrame
  BY <1>6 DEF RepeatFrame, ObservedFrame, RunInv, ClosedByOne, Typed, Lives, Phases, RunEnds
<1>7. CASE CheckProgress
  BY <1>7 DEF CheckProgress, TimedOut, RunInv, ClosedByOne, Typed, Lives, Phases, RunEnds
<1>8. CASE CaptureCancel
  BY <1>8 DEF CaptureCancel, RunInv, ClosedByOne, Typed, Lives, Phases, RunEnds
<1>9. CASE ApplyCancel
  BY <1>9 DEF ApplyCancel, BeginsClosing, Closing, RunInv, ClosedByOne, Typed, Lives, Phases, RunEnds
<1>10. CASE ObserveCessation
  BY <1>10 DEF ObserveCessation, Ceased, RunInv, ClosedByOne, Typed, Lives, Phases, RunEnds
<1>11. CASE Poll
  BY <1>11 DEF Poll, WindowVerdict, RunInv, ClosedByOne, Typed, Lives, Phases, RunEnds
<1>12. CASE ObserveDisconnect
  BY <1>12 DEF ObserveDisconnect, CessationStep, RunInv, ClosedByOne, Typed, Lives, Phases, RunEnds
<1>13. CASE RequestStop
  BY <1>13 DEF RequestStop, CessationStep, RunInv, ClosedByOne, Typed, Lives, Phases, RunEnds
<1>14. CASE MarkUnconfirmed
  BY <1>14 DEF MarkUnconfirmed, CessationStep, RunInv, ClosedByOne, Typed, Lives, Phases, RunEnds
<1>15. CASE ConfirmExit
  BY <1>15 DEF ConfirmExit, CessationStep, RunInv, ClosedByOne, Typed, Lives, Phases, RunEnds
<1>16. CASE FinishCurrent
  BY <1>16 DEF FinishCurrent, RunInv, ClosedByOne, Typed, Lives, Phases, RunEnds
<1>17. ASSUME NEW result \in {"natural_end", "failed"}, Resolve(result) PROVE ClosedByOne'
  BY <1>17 DEF Resolve, Resolves, BeginsClosing, Closing, RunInv, ClosedByOne, Typed, Lives, Phases, RunEnds
<1>18. ASSUME NEW evidence \in {"complete", "incomplete"}, FinishClosing(evidence) PROVE ClosedByOne'
  BY <1>18 DEF FinishClosing, RunInv, ClosedByOne, Typed, Lives, Phases, RunEnds
<1>19. ASSUME NEW delivered \in BOOLEAN, RequestCancel(delivered) PROVE ClosedByOne'
  BY <1>19 DEF RequestCancel, Attempted, GateOpens, RunInv, ClosedByOne, Typed, Lives, Phases, RunEnds
<1>20. ASSUME NEW stage \in {"acknowledged", "applied"}, ObserveAnswer(stage) PROVE ClosedByOne'
  BY <1>20 DEF ObserveAnswer, Responded, RunInv, ClosedByOne, Typed, Lives, Phases, RunEnds
<1>21. CASE UNCHANGED runVars
  BY <1>21 DEF runVars, RunInv, ClosedByOne, Typed, Lives, Phases, RunEnds
<1>. QED
  BY <1>1, <1>2, <1>3, <1>4, <1>5, <1>6, <1>7, <1>8, <1>9, <1>10, <1>11, <1>12, <1>13, <1>14, <1>15, <1>16, <1>17, <1>18, <1>19, <1>20, <1>21 DEF RunNext

\* Only completed frames feed the watchdog.
LEMMA DogKept ==
    ASSUME RunInv, Deadlines, [RunNext]_runVars
    PROVE  DogIsFed'
<1>1. CASE Tick
  BY <1>1 DEF Tick, RunInv, DogIsFed, Typed, Lives, Deadlines
<1>2. CASE StartNext
  BY <1>2 DEF StartNext, Fresh, NewLife, NewCancel, NewWindow, NewDog, RunInv, DogIsFed, Typed, Lives, Deadlines
<1>3. CASE MarkReady
  BY <1>3 DEF MarkReady, RunInv, DogIsFed, Typed, Lives, Deadlines
<1>4. CASE StartPlayback
  BY <1>4 DEF StartPlayback, NewDog, RunInv, DogIsFed, Typed, Lives, Deadlines
<1>5. CASE CompleteFrame
  BY <1>5 DEF CompleteFrame, ObservedFrame, RunInv, DogIsFed, Typed, Lives, Deadlines
<1>6. CASE RepeatFrame
  BY <1>6 DEF RepeatFrame, ObservedFrame, RunInv, DogIsFed, Typed, Lives, Deadlines
<1>7. CASE CheckProgress
  BY <1>7 DEF CheckProgress, TimedOut, RunInv, DogIsFed, Typed, Lives, Deadlines
<1>8. CASE CaptureCancel
  BY <1>8 DEF CaptureCancel, RunInv, DogIsFed, Typed, Lives, Deadlines
<1>9. CASE ApplyCancel
  BY <1>9 DEF ApplyCancel, BeginsClosing, Closing, RunInv, DogIsFed, Typed, Lives, Deadlines
<1>10. CASE ObserveCessation
  BY <1>10 DEF ObserveCessation, Ceased, RunInv, DogIsFed, Typed, Lives, Deadlines
<1>11. CASE Poll
  BY <1>11 DEF Poll, WindowVerdict, RunInv, DogIsFed, Typed, Lives, Deadlines
<1>12. CASE ObserveDisconnect
  BY <1>12 DEF ObserveDisconnect, CessationStep, RunInv, DogIsFed, Typed, Lives, Deadlines
<1>13. CASE RequestStop
  BY <1>13 DEF RequestStop, CessationStep, RunInv, DogIsFed, Typed, Lives, Deadlines
<1>14. CASE MarkUnconfirmed
  BY <1>14 DEF MarkUnconfirmed, CessationStep, RunInv, DogIsFed, Typed, Lives, Deadlines
<1>15. CASE ConfirmExit
  BY <1>15 DEF ConfirmExit, CessationStep, RunInv, DogIsFed, Typed, Lives, Deadlines
<1>16. CASE FinishCurrent
  BY <1>16 DEF FinishCurrent, RunInv, DogIsFed, Typed, Lives, Deadlines
<1>17. ASSUME NEW result \in {"natural_end", "failed"}, Resolve(result) PROVE DogIsFed'
  BY <1>17 DEF Resolve, Resolves, BeginsClosing, Closing, RunInv, DogIsFed, Typed, Lives, Deadlines
<1>18. ASSUME NEW evidence \in {"complete", "incomplete"}, FinishClosing(evidence) PROVE DogIsFed'
  BY <1>18 DEF FinishClosing, RunInv, DogIsFed, Typed, Lives, Deadlines
<1>19. ASSUME NEW delivered \in BOOLEAN, RequestCancel(delivered) PROVE DogIsFed'
  BY <1>19 DEF RequestCancel, Attempted, GateOpens, RunInv, DogIsFed, Typed, Lives, Deadlines
<1>20. ASSUME NEW stage \in {"acknowledged", "applied"}, ObserveAnswer(stage) PROVE DogIsFed'
  BY <1>20 DEF ObserveAnswer, Responded, RunInv, DogIsFed, Typed, Lives, Deadlines
<1>21. CASE UNCHANGED runVars
  BY <1>21 DEF runVars, RunInv, DogIsFed, Typed, Lives, Deadlines
<1>. QED
  BY <1>1, <1>2, <1>3, <1>4, <1>5, <1>6, <1>7, <1>8, <1>9, <1>10, <1>11, <1>12, <1>13, <1>14, <1>15, <1>16, <1>17, <1>18, <1>19, <1>20, <1>21 DEF RunNext

\* The coordinator and its window agree.
LEMMA WindowKept ==
    ASSUME RunInv, Deadlines, [RunNext]_runVars
    PROVE  WindowFollows'
<1>1. CASE Tick
  BY <1>1 DEF Tick, RunInv, WindowFollows, Typed, Deadlines, Timely, Times, None
<1>2. CASE StartNext
  BY <1>2 DEF StartNext, Fresh, NewLife, NewCancel, NewWindow, NewDog, RunInv, WindowFollows, Typed, Deadlines, Timely, Times, None
<1>3. CASE MarkReady
  BY <1>3 DEF MarkReady, RunInv, WindowFollows, Typed, Deadlines, Timely, Times, None
<1>4. CASE StartPlayback
  BY <1>4 DEF StartPlayback, NewDog, RunInv, WindowFollows, Typed, Deadlines, Timely, Times, None
<1>5. CASE CompleteFrame
  BY <1>5 DEF CompleteFrame, ObservedFrame, RunInv, WindowFollows, Typed, Deadlines, Timely, Times, None
<1>6. CASE RepeatFrame
  BY <1>6 DEF RepeatFrame, ObservedFrame, RunInv, WindowFollows, Typed, Deadlines, Timely, Times, None
<1>7. CASE CheckProgress
  BY <1>7 DEF CheckProgress, TimedOut, RunInv, WindowFollows, Typed, Deadlines, Timely, Times, None
<1>8. CASE CaptureCancel
  BY <1>8 DEF CaptureCancel, RunInv, WindowFollows, Typed, Deadlines, Timely, Times, None
<1>9. CASE ApplyCancel
  BY <1>9 DEF ApplyCancel, BeginsClosing, Closing, RunInv, WindowFollows, Typed, Deadlines, Timely, Times, None
<1>10. CASE ObserveCessation
  BY <1>10 DEF ObserveCessation, Ceased, RunInv, WindowFollows, Typed, Deadlines, Timely, Times, None
<1>11. CASE Poll
  BY <1>11 DEF Poll, WindowVerdict, RunInv, WindowFollows, Typed, Deadlines, Timely, Times, None
<1>12. CASE ObserveDisconnect
  BY <1>12 DEF ObserveDisconnect, CessationStep, RunInv, WindowFollows, Typed, Deadlines, Timely, Times, None
<1>13. CASE RequestStop
  BY <1>13 DEF RequestStop, CessationStep, RunInv, WindowFollows, Typed, Deadlines, Timely, Times, None
<1>14. CASE MarkUnconfirmed
  BY <1>14 DEF MarkUnconfirmed, CessationStep, RunInv, WindowFollows, Typed, Deadlines, Timely, Times, None
<1>15. CASE ConfirmExit
  BY <1>15 DEF ConfirmExit, CessationStep, RunInv, WindowFollows, Typed, Deadlines, Timely, Times, None
<1>16. CASE FinishCurrent
  BY <1>16 DEF FinishCurrent, RunInv, WindowFollows, Typed, Deadlines, Timely, Times, None
<1>17. ASSUME NEW result \in {"natural_end", "failed"}, Resolve(result) PROVE WindowFollows'
  BY <1>17 DEF Resolve, Resolves, BeginsClosing, Closing, RunInv, WindowFollows, Typed, Deadlines, Timely, Times, None
<1>18. ASSUME NEW evidence \in {"complete", "incomplete"}, FinishClosing(evidence) PROVE WindowFollows'
  BY <1>18 DEF FinishClosing, RunInv, WindowFollows, Typed, Deadlines, Timely, Times, None
<1>19. ASSUME NEW delivered \in BOOLEAN, RequestCancel(delivered) PROVE WindowFollows'
  BY <1>19 DEF RequestCancel, Attempted, GateOpens, RunInv, WindowFollows, Typed, Deadlines, Timely, Times, None
<1>20. ASSUME NEW stage \in {"acknowledged", "applied"}, ObserveAnswer(stage) PROVE WindowFollows'
  BY <1>20 DEF ObserveAnswer, Responded, RunInv, WindowFollows, Typed, Deadlines, Timely, Times, None
<1>21. CASE UNCHANGED runVars
  BY <1>21 DEF runVars, RunInv, WindowFollows, Typed, Deadlines, Timely, Times, None
<1>. QED
  BY <1>1, <1>2, <1>3, <1>4, <1>5, <1>6, <1>7, <1>8, <1>9, <1>10, <1>11, <1>12, <1>13, <1>14, <1>15, <1>16, <1>17, <1>18, <1>19, <1>20, <1>21 DEF RunNext

\* What a poll reported as missing is not withdrawn by an answer.
LEMMA PollKept ==
    ASSUME RunInv, Deadlines, [RunNext]_runVars
    PROVE  PollStaysRight' /\ StaysMissing
<1>1. CASE Tick
  BY <1>1 DEF Tick, RunInv, WindowFollows, PollStaysRight, StaysMissing, Typed, Deadlines, Timely, Times, None
<1>2. CASE StartNext
  BY <1>2 DEF StartNext, Fresh, NewLife, NewCancel, NewWindow, NewDog, RunInv, WindowFollows, PollStaysRight, StaysMissing, Typed, Deadlines, Timely, Times, None
<1>3. CASE MarkReady
  BY <1>3 DEF MarkReady, RunInv, WindowFollows, PollStaysRight, StaysMissing, Typed, Deadlines, Timely, Times, None
<1>4. CASE StartPlayback
  BY <1>4 DEF StartPlayback, NewDog, RunInv, WindowFollows, PollStaysRight, StaysMissing, Typed, Deadlines, Timely, Times, None
<1>5. CASE CompleteFrame
  BY <1>5 DEF CompleteFrame, ObservedFrame, RunInv, WindowFollows, PollStaysRight, StaysMissing, Typed, Deadlines, Timely, Times, None
<1>6. CASE RepeatFrame
  BY <1>6 DEF RepeatFrame, ObservedFrame, RunInv, WindowFollows, PollStaysRight, StaysMissing, Typed, Deadlines, Timely, Times, None
<1>7. CASE CheckProgress
  BY <1>7 DEF CheckProgress, TimedOut, RunInv, WindowFollows, PollStaysRight, StaysMissing, Typed, Deadlines, Timely, Times, None
<1>8. CASE CaptureCancel
  BY <1>8 DEF CaptureCancel, RunInv, WindowFollows, PollStaysRight, StaysMissing, Typed, Deadlines, Timely, Times, None
<1>9. CASE ApplyCancel
  BY <1>9 DEF ApplyCancel, BeginsClosing, Closing, RunInv, WindowFollows, PollStaysRight, StaysMissing, Typed, Deadlines, Timely, Times, None
<1>10. CASE ObserveCessation
  BY <1>10 DEF ObserveCessation, Ceased, RunInv, WindowFollows, PollStaysRight, StaysMissing, Typed, Deadlines, Timely, Times, None
<1>11. CASE Poll
  BY <1>11 DEF Poll, WindowVerdict, RunInv, WindowFollows, PollStaysRight, StaysMissing, Typed, Deadlines, Timely, Times, None
<1>12. CASE ObserveDisconnect
  BY <1>12 DEF ObserveDisconnect, CessationStep, RunInv, WindowFollows, PollStaysRight, StaysMissing, Typed, Deadlines, Timely, Times, None
<1>13. CASE RequestStop
  BY <1>13 DEF RequestStop, CessationStep, RunInv, WindowFollows, PollStaysRight, StaysMissing, Typed, Deadlines, Timely, Times, None
<1>14. CASE MarkUnconfirmed
  BY <1>14 DEF MarkUnconfirmed, CessationStep, RunInv, WindowFollows, PollStaysRight, StaysMissing, Typed, Deadlines, Timely, Times, None
<1>15. CASE ConfirmExit
  BY <1>15 DEF ConfirmExit, CessationStep, RunInv, WindowFollows, PollStaysRight, StaysMissing, Typed, Deadlines, Timely, Times, None
<1>16. CASE FinishCurrent
  BY <1>16 DEF FinishCurrent, RunInv, WindowFollows, PollStaysRight, StaysMissing, Typed, Deadlines, Timely, Times, None
<1>17. ASSUME NEW result \in {"natural_end", "failed"}, Resolve(result) PROVE PollStaysRight' /\ StaysMissing
  BY <1>17 DEF Resolve, Resolves, BeginsClosing, Closing, RunInv, WindowFollows, PollStaysRight, StaysMissing, Typed, Deadlines, Timely, Times, None
<1>18. ASSUME NEW evidence \in {"complete", "incomplete"}, FinishClosing(evidence) PROVE PollStaysRight' /\ StaysMissing
  BY <1>18 DEF FinishClosing, RunInv, WindowFollows, PollStaysRight, StaysMissing, Typed, Deadlines, Timely, Times, None
<1>19. ASSUME NEW delivered \in BOOLEAN, RequestCancel(delivered) PROVE PollStaysRight' /\ StaysMissing
  BY <1>19 DEF RequestCancel, Attempted, GateOpens, RunInv, WindowFollows, PollStaysRight, StaysMissing, Typed, Deadlines, Timely, Times, None
<1>20. ASSUME NEW stage \in {"acknowledged", "applied"}, ObserveAnswer(stage) PROVE PollStaysRight' /\ StaysMissing
  BY <1>20 DEF ObserveAnswer, Responded, RunInv, WindowFollows, PollStaysRight, StaysMissing, Typed, Deadlines, Timely, Times, None
<1>21. CASE UNCHANGED runVars
  BY <1>21 DEF runVars, RunInv, WindowFollows, PollStaysRight, StaysMissing, Typed, Deadlines, Timely, Times, None
<1>. QED
  BY <1>1, <1>2, <1>3, <1>4, <1>5, <1>6, <1>7, <1>8, <1>9, <1>10, <1>11, <1>12, <1>13, <1>14, <1>15, <1>16, <1>17, <1>18, <1>19, <1>20, <1>21 DEF RunNext

-----------------------------------------------------------------------------
\* The theorems.

\* Nothing was started, asked or seen.
LEMMA RunInvInit == Deadlines /\ RunInit => RunInv
<1>. SUFFICES ASSUME Deadlines, RunInit PROVE RunInv
  OBVIOUS
<1>1. Typed
  BY DEF RunInit, Typed, Lives, NewLife, NewCancel, NewWindow, NewDog, Phases, States, Times, Results, None
<1>. QED
  BY <1>1 DEF Deadlines, RunInit, RunInv, ClosedByOne, DogIsFed, WindowFollows, PollStaysRight,
         NewLife, NewCancel, NewWindow, NewDog, None

\* Every call of a supervisor, a Runtime or a timer keeps the invariant.
LEMMA RunInvStep == Deadlines /\ RunInv /\ [RunNext]_runVars => RunInv'
BY TypesKept, VerdictKept, DogKept, WindowKept, PollKept DEF RunInv

(***************************************************************************)
(* RunLifecycle, ReplayTerminalArbiter and ReplayCancellation give a run   *)
(* one verdict, and ProgressWatchdog keeps quiet only while frames are     *)
(* completed, for every order of calls and any deadlines.                  *)
(***************************************************************************)
THEOREM Supervised ==
    ASSUME Deadlines
    PROVE  RunSpec => []RunsAreSupervised
<1>1. RunInv => RunsAreSupervised
  BY DEF RunInv, ClosedByOne, DogIsFed, Typed, RunsAreSupervised, OneVerdict, QuietMeansProgress
<1>2. RunInit => RunInv
  BY RunInvInit
<1>3. RunInv /\ [RunNext]_runVars => RunInv'
  BY RunInvStep
<1>. QED  BY <1>1, <1>2, <1>3, PTL DEF RunSpec

(***************************************************************************)
(* Once CancellationWindow reported a response missing after its deadline, *)
(* no answer withdraws it: a later poll says missing, unknown or that the  *)
(* end of the process was confirmed, whatever the deadlines are.           *)
(***************************************************************************)
THEOREM LateAnswers ==
    ASSUME Deadlines
    PROVE  RunSpec => LateAnswersDoNotRescue
<1>1. RunInit => RunInv
  BY RunInvInit
<1>2. RunInv /\ [RunNext]_runVars => RunInv'
  BY RunInvStep
<1>3. RunInv /\ [RunNext]_runVars => [StaysMissing]_runVars
  BY PollKept
<1>. QED  BY <1>1, <1>2, <1>3, PTL DEF RunSpec, LateAnswersDoNotRescue
================================================================================
