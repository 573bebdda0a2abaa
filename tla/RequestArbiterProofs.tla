------------------------- MODULE RequestArbiterProofs -------------------------
(***************************************************************************)
(* Facts about the operators of RequestArbiter that other proofs rest on:  *)
(* they keep the arbiter well formed, and a take that is settled has a     *)
(* result.                                                                 *)
(***************************************************************************)
EXTENDS RequestArbiter, TLAPS

\* discard_controls() keeps the arbiter well formed.
LEMMA DiscardTypes ==
    ASSUME NEW a \in Arbiters
    PROVE  DiscardControls(a) \in Arbiters
<1>1. a.discarded + a.pending \in Nat /\ 0 \in Nat
  BY DEF Arbiters
<1>. QED  BY <1>1, Zenon DEF Arbiters, DiscardControls

\* stop() keeps the arbiter well formed.
LEMMA StoppedTypes ==
    ASSUME NEW a \in Arbiters, NEW reason \in StopReasons
    PROVE  Stopped(a, reason) \in Arbiters
BY DEF Stopped, Arbiters

\* Every method that run_take calls keeps the arbiter well formed.
LEMMA ArbiterTypes ==
    /\ NewArbiter \in Arbiters
    /\ \A a \in Arbiters :
         /\ BeginTake(a) \in Arbiters
         /\ Cancel(a) \in Arbiters
         /\ \A kind \in FailureKinds : Fail(a, kind) \in Arbiters
         /\ NaturalEnd(a) \in Arbiters
         /\ Playback(a) \in PlaybackKinds => Confirm(a) \in Arbiters
<1>0. {"cancellation", "failure", "none"} \subseteq StopReasons
  BY DEF StopReasons
<1>1. NewArbiter \in Arbiters
  BY <1>0, Zenon DEF NewArbiter, Arbiters
<1> SUFFICES ASSUME NEW a \in Arbiters
             PROVE  /\ BeginTake(a) \in Arbiters
                    /\ Cancel(a) \in Arbiters
                    /\ \A kind \in FailureKinds : Fail(a, kind) \in Arbiters
                    /\ NaturalEnd(a) \in Arbiters
                    /\ Playback(a) \in PlaybackKinds => Confirm(a) \in Arbiters
  BY <1>1
<1>2. BeginTake(a) \in Arbiters
  BY <1>1, Zenon DEF BeginTake, Arbiters
<1>3. Cancel(a) \in Arbiters
  <2>1. [DiscardControls(a) EXCEPT !.cancelled = TRUE] \in Arbiters
    BY DiscardTypes, Zenon DEF Arbiters
  <2>. QED  BY <1>0, <2>1, StoppedTypes, Zenon DEF Cancel
<1>4. \A kind \in FailureKinds : Fail(a, kind) \in Arbiters
  <2>1. \A kind \in FailureKinds : [DiscardControls(a) EXCEPT !.failure = kind] \in Arbiters
    BY DiscardTypes, Zenon DEF Arbiters
  <2>. QED  BY <1>0, <2>1, StoppedTypes, Zenon DEF Fail
<1>5. NaturalEnd(a) \in Arbiters
  BY Zenon DEF NaturalEnd, Arbiters
<1>6. ASSUME Playback(a) \in PlaybackKinds PROVE Confirm(a) \in Arbiters
  BY <1>6, Zenon DEF Confirm, Arbiters
<1>. QED  BY <1>1, <1>2, <1>3, <1>4, <1>5, <1>6

\* A take with something to decide it.
Decided(a) == ~a.confirmed /\ (Ended(a) \/ a.natural)

\* playback() has a value once something decided the take.
LEMMA DecidedPlayback ==
    ASSUME NEW a \in Arbiters, Decided(a)
    PROVE  Playback(a) \in PlaybackKinds
BY DEF Decided, Playback, Ended, Arbiters, PlaybackKinds, FailureKinds

\* confirm() keeps the value that playback() had.
LEMMA ConfirmedPlayback ==
    ASSUME NEW a \in Arbiters, Decided(a)
    PROVE  /\ Confirm(a) \in Arbiters
           /\ Playback(Confirm(a)) \in PlaybackKinds
           /\ Playback(Confirm(a)) = Playback(a)
           /\ Confirm(a).stop = a.stop
<1>1. Playback(a) \in PlaybackKinds
  BY DecidedPlayback
<1>2. Playback(a) # "none"
  BY <1>1 DEF PlaybackKinds
<1>3. Confirm(a) = [a EXCEPT !.confirmed = TRUE, !.result = Playback(a)]
  BY <1>2, Zenon DEF Confirm, Decided
<1>4. Confirm(a).confirmed /\ Confirm(a).result = Playback(a)
  BY <1>3, Zenon DEF Arbiters
<1>5. Playback(Confirm(a)) = Playback(a)
  BY <1>4, Zenon DEF Playback
<1>6. Confirm(a).stop = a.stop
  BY <1>3, Zenon DEF Arbiters
<1>. QED  BY <1>1, <1>5, <1>6, ArbiterTypes

\* However run_take settles an active take, the take has a result.
LEMMA SettledTake ==
    ASSUME NEW a \in Arbiters, a.active, ~a.confirmed,
           NEW c \in BOOLEAN, NEW p \in PlaybackKinds \cup {"error"}
    PROVE  Settle(a, c, p) \in Arbiters /\ Playback(Settle(a, c, p)) \in PlaybackKinds
<1> DEFINE d == IF c \/ p = "cancelled" THEN Cancel(a) ELSE a
           e == CASE p = "natural_end"  -> NaturalEnd(d)
                  [] p \in FailureKinds -> Fail(d, p)
                  [] p = "error"        -> Fail(d, "failed")
                  [] OTHER              -> d
<1>1. d \in Arbiters /\ d.active /\ ~d.confirmed /\ (p = "cancelled" => Ended(d))
  <2>1. d \in Arbiters
    BY ArbiterTypes
  <2>2. Cancel(a).active /\ ~Cancel(a).confirmed
    BY DiscardTypes DEF Cancel, Stopped, DiscardControls, Arbiters
  <2>3. Ended(Cancel(a))
    BY DiscardTypes DEF Cancel, Stopped, DiscardControls, Arbiters, CancelDecides, Ended
  <2>. QED  BY <2>1, <2>2, <2>3
<1> HIDE DEF d
<1>2. e \in Arbiters /\ Decided(e)
  <2>1. NaturalEnd(d) \in Arbiters /\ Decided(NaturalEnd(d))
    BY <1>1, ArbiterTypes, Zenon DEF NaturalEnd, Decided, Ended, Arbiters
  <2>2. \A kind \in FailureKinds : Fail(d, kind) \in Arbiters /\ Decided(Fail(d, kind))
    <3> SUFFICES ASSUME NEW kind \in FailureKinds
                 PROVE  Fail(d, kind) \in Arbiters /\ Decided(Fail(d, kind))
      OBVIOUS
    <3>1. Fail(d, kind) \in Arbiters
      BY <1>1, ArbiterTypes
    <3>2. CASE Ended(d)
      BY <1>1, <3>1, <3>2 DEF Fail, Decided
    <3>3. CASE ~Ended(d)
      <4>1. Fail(d, kind) = Stopped([DiscardControls(d) EXCEPT !.failure = kind], "failure")
        BY <1>1, <3>3 DEF Fail
      <4>2. Fail(d, kind).failure = kind /\ ~Fail(d, kind).confirmed
        BY <1>1, <4>1 DEF Stopped, DiscardControls, Arbiters
      <4>. QED  BY <3>1, <4>2 DEF Decided, Ended, FailureKinds
    <3>. QED  BY <3>2, <3>3
  <2>3. p = "cancelled" => Decided(d)
    BY <1>1 DEF Decided
  <2>. QED  BY <1>1, <2>1, <2>2, <2>3 DEF PlaybackKinds, FailureKinds
<1>3. Settle(a, c, p) = Confirm(e)
  BY DEF Settle, d
<1>. QED  BY <1>2, <1>3, ConfirmedPlayback

\* A cancelled take that is not confirmed was cancelled.
LEMMA CancelledPlayback ==
    ASSUME NEW a \in Arbiters, a.cancelled, ~a.confirmed
    PROVE  Playback(a) = "cancelled"
BY DEF Playback, Ended, Arbiters

\* run_take settles a take as a natural end only when it ended so and nobody cancelled;
\* any other end stops the request, for the reason that the take gives.
LEMMA SettledReason ==
    ASSUME NEW c \in BOOLEAN, NEW p \in PlaybackKinds \cup {"error"},
           NEW settled, settled = Settle(BeginTake(NewArbiter), c, p)
    PROVE  /\ Playback(settled) = "natural_end" => ~c /\ p = "natural_end"
           /\ Playback(settled) = "natural_end" => settled.stop = "none"
           /\ Playback(settled) = "cancelled" => settled.stop = "cancellation"
           /\ Playback(settled) \in FailureKinds => settled.stop = "failure"
<1> DEFINE a == BeginTake(NewArbiter)
<1>1. a \in Arbiters /\ a.active /\ ~a.confirmed /\ ~Ended(a) /\ a.stop = "none"
  <2>1. a = [NewArbiter EXCEPT !.active = TRUE, !.stop = NewArbiter.stop]
    BY DEF BeginTake
  <2>. QED  BY <2>1, ArbiterTypes DEF NewArbiter, Ended
<1> HIDE DEF a
<1>2. settled = Settle(a, c, p)
  BY DEF a
<1>3. CASE c \/ p = "cancelled"
  <2> DEFINE d == Cancel(a)
             x == [DiscardControls(a) EXCEPT !.cancelled = TRUE]
  <2>1. x.cancelled /\ ~x.confirmed /\ x.stop = "none"
    BY <1>1, DiscardTypes DEF DiscardControls, Arbiters
  <2>2. x \in Arbiters /\ d \in Arbiters
    BY <1>1, ArbiterTypes, DiscardTypes, Zenon DEF Arbiters
  <2>3. d = Stopped(x, "cancellation")
    BY <1>1 DEF Cancel, CancelDecides
  <2> HIDE DEF x
  <2>4. d.cancelled /\ ~d.confirmed /\ d.stop = "cancellation"
    BY <2>1, <2>2, <2>3 DEF Stopped, Arbiters
  <2> HIDE DEF d
  <2>5. NaturalEnd(d) = d /\ \A kind \in FailureKinds : Fail(d, kind) = d
    BY <2>4 DEF NaturalEnd, Fail, Ended
  <2>6. settled = Confirm(CASE p = "natural_end"  -> NaturalEnd(d)
                            [] p \in FailureKinds -> Fail(d, p)
                            [] p = "error"        -> Fail(d, "failed")
                            [] OTHER              -> d)
    BY <1>2, <1>3 DEF Settle, d
  <2>7. settled = Confirm(d)
    BY <2>5, <2>6, Zenon DEF FailureKinds, PlaybackKinds
  <2>8. Decided(d) /\ Playback(d) = "cancelled"
    BY <2>2, <2>4, CancelledPlayback DEF Decided, Ended
  <2>9. Playback(settled) = "cancelled" /\ settled.stop = "cancellation"
    BY <2>2, <2>4, <2>7, <2>8, ConfirmedPlayback
  <2>. QED  BY <2>9 DEF FailureKinds
<1>4. CASE ~c /\ p \in FailureKinds \cup {"error"}
  <2> DEFINE kind == IF p = "error" THEN "failed" ELSE p
             f == Fail(a, kind)
  <2>1. kind \in FailureKinds
    BY <1>4 DEF FailureKinds
  <2>2. settled = Confirm(f)
    BY <1>2, <1>4 DEF Settle, FailureKinds
  <2> HIDE DEF kind
  <2>3. f = Stopped([DiscardControls(a) EXCEPT !.failure = kind], "failure") /\ f \in Arbiters
    BY <1>1, <2>1, ArbiterTypes DEF Fail
  <2>4. f.failure = kind /\ ~f.confirmed /\ ~f.cancelled /\ f.stop = "failure"
    BY <1>1, <2>3 DEF Stopped, DiscardControls, Arbiters, Ended
  <2> HIDE DEF f
  <2>5. Playback(f) = kind /\ Decided(f)
    BY <2>1, <2>4 DEF Playback, Decided, Ended, FailureKinds
  <2>6. Playback(settled) = kind /\ settled.stop = "failure"
    BY <2>2, <2>3, <2>4, <2>5, ConfirmedPlayback
  <2>. QED  BY <2>1, <2>6 DEF FailureKinds
<1>5. CASE ~c /\ p = "natural_end"
  <2> DEFINE n == NaturalEnd(a)
  <2>1. settled = Confirm(n)
    BY <1>2, <1>5 DEF Settle, FailureKinds
  <2>2. n = [a EXCEPT !.natural = TRUE] /\ n \in Arbiters
    BY <1>1, ArbiterTypes DEF NaturalEnd
  <2>3. n.natural /\ ~n.confirmed /\ n.stop = "none" /\ n.failure = "none" /\ ~n.cancelled
    BY <1>1, <2>2 DEF Arbiters, Ended
  <2> HIDE DEF n
  <2>4. Playback(n) = "natural_end" /\ Decided(n)
    BY <2>3 DEF Playback, Decided, Ended
  <2>5. Playback(settled) = "natural_end" /\ settled.stop = "none"
    BY <2>1, <2>2, <2>3, <2>4, ConfirmedPlayback
  <2>. QED  BY <1>5, <2>5 DEF FailureKinds
<1>. QED  BY <1>3, <1>4, <1>5 DEF PlaybackKinds, FailureKinds
==============================================================================
