--------------------------- MODULE RequestArbiter ---------------------------
(***************************************************************************)
(* RequestTerminalArbiter (tools/audio_qa/request_terminal_arbiter.cpp):   *)
(* decides how the active take and the request end when a cancellation, a  *)
(* failure and a natural end coincide.  The class is pure, so it is a      *)
(* record and one operator per method; the module that owns an arbiter     *)
(* applies the operators in the order in which it observes the events.     *)
(* The diagnostic text of an outcome is left out: only its kind matters.   *)
(***************************************************************************)
EXTENDS Naturals

PlaybackKinds == {"natural_end", "cancelled", "failed", "interrupted"}
FailureKinds  == {"failed", "interrupted"}
StopReasons   == {"none", "cancellation", "failure"}

\* The member variables; "none" is an empty optional.
Arbiters ==
    [active    : BOOLEAN,
     confirmed : BOOLEAN,
     cancelled : BOOLEAN,
     natural   : BOOLEAN,
     failure   : FailureKinds \cup {"none"},
     result    : PlaybackKinds \cup {"none"},
     pending   : Nat,
     discarded : Nat,
     stop      : StopReasons]

NewArbiter ==
    [active |-> FALSE, confirmed |-> FALSE, cancelled |-> FALSE, natural |-> FALSE,
     failure |-> "none", result |-> "none", pending |-> 0, discarded |-> 0,
     stop |-> "none"]

\* begin_take resets everything but the stop of the request.
BeginTake(a) == [NewArbiter EXCEPT !.active = TRUE, !.stop = a.stop]

\* A take that a cancellation or a failure has decided.
Ended(a) == a.cancelled \/ a.failure # "none"

\* Fault: the latest reason replaces the first one.
StoppedByLatest(a, reason) == [a EXCEPT !.stop = reason]

\* The first reason to stop the request is kept.
Stopped(a, reason) == IF a.stop = "none" THEN [a EXCEPT !.stop = reason] ELSE a

\* Pending inspection controls are discarded by whatever ends the take.
DiscardControls(a) == [a EXCEPT !.discarded = a.discarded + a.pending, !.pending = 0]

\* Fault: a cancellation decides a take that already failed.
CancelDecidesFailed(a) == a.active /\ ~a.confirmed

CancelDecides(a) == a.active /\ ~a.confirmed /\ ~Ended(a)

\* cancel() stops the request even when it does not decide the take.
Cancel(a) ==
    Stopped(IF CancelDecides(a)
              THEN [DiscardControls(a) EXCEPT !.cancelled = TRUE]
              ELSE a,
            "cancellation")

\* fail() does nothing at all unless it decides the take.
Fail(a, kind) ==
    IF a.active /\ ~a.confirmed /\ ~Ended(a)
      THEN Stopped([DiscardControls(a) EXCEPT !.failure = kind], "failure")
      ELSE a

\* Fault: a repeated natural end opens a confirmed take again.
NaturalEndReopens(a) ==
    IF a.active /\ ~Ended(a) THEN [a EXCEPT !.natural = TRUE, !.confirmed = FALSE] ELSE a

NaturalEnd(a) ==
    IF a.active /\ ~a.confirmed /\ ~Ended(a) THEN [a EXCEPT !.natural = TRUE] ELSE a

\* Fault: a control for a take that is over stays pending.
QueueControlAlways(a) == [a EXCEPT !.pending = a.pending + 1]

QueueControl(a) ==
    IF ~a.active \/ Ended(a)
      THEN [a EXCEPT !.discarded = a.discarded + 1]
      ELSE [a EXCEPT !.pending = a.pending + 1]

ControlSent(a) == IF a.pending > 0 THEN [a EXCEPT !.pending = a.pending - 1] ELSE a

\* playback(): a confirmed result first, then the cancellation, the failure, the end.
Playback(a) ==
    CASE a.confirmed                                    -> a.result
      [] ~a.confirmed /\ a.cancelled                    -> "cancelled"
      [] ~a.confirmed /\ ~a.cancelled /\ a.failure # "none" -> a.failure
      [] ~a.confirmed /\ ~Ended(a) /\ a.natural         -> "natural_end"
      [] OTHER                                          -> "none"

\* confirm() freezes whatever decided the take; nothing when nothing did.
Confirm(a) ==
    IF a.confirmed \/ Playback(a) = "none"
      THEN a
      ELSE [a EXCEPT !.confirmed = TRUE, !.result = Playback(a)]

\* stop_requested(); its reason marks the takes that never start.
StopRequested(a) == a.stop # "none"
NotStartedReason(a) ==
    CASE a.stop = "cancellation" -> "not_started_after_cancellation"
      [] a.stop = "failure"      -> "not_started_after_failure"
      [] OTHER                   -> "none"

\* Fault: an execution without evidence tells the arbiter nothing.
SettleEvidenceOnly(a, cancelled, playback) ==
    LET c == IF cancelled \/ playback = "cancelled" THEN Cancel(a) ELSE a
    IN  Confirm(CASE playback = "natural_end"  -> NaturalEnd(c)
                  [] playback \in FailureKinds -> Fail(c, playback)
                  [] OTHER                     -> c)

\* run_take gives the events to the arbiter in this order, and confirms.
Settle(a, cancelled, playback) ==
    LET c == IF cancelled \/ playback = "cancelled" THEN Cancel(a) ELSE a
    IN  Confirm(CASE playback = "natural_end"  -> NaturalEnd(c)
                  [] playback \in FailureKinds -> Fail(c, playback)
                  [] playback = "error"        -> Fail(c, "failed")
                  [] OTHER                     -> c)
=============================================================================
