--------------------------- MODULE TakeArbitration ---------------------------
(***************************************************************************)
(* One RequestTerminalArbiter driven by every sequence of calls its owner  *)
(* can make.  The arbiter promises an order among events that arrive in    *)
(* any order; `first' remembers, for the take in progress, the events in   *)
(* the order in which they were observed, so that the promise can be       *)
(* stated without looking at the arbiter's own flags.                      *)
(***************************************************************************)
EXTENDS RequestArbiter, Sequences

CONSTANTS MaxTakes,      \* bound on the takes of the request
          MaxControls,   \* bound on the inspection controls of one take
          MaxEvents      \* bound on the terminal events observed in one take
ASSUME BoundsAssumption == {MaxTakes, MaxControls, MaxEvents} \subseteq Nat

VARIABLES arb,      \* the arbiter
          take,     \* takes begun so far
          events,   \* terminal events of the take, in order ("confirm" included)
          stops,    \* events of the whole request that stop it, in order
          queued,   \* controls handed to the arbiter in this take
          sent      \* controls taken from the pending ones in this take
vars == <<arb, take, events, stops, queued, sent>>

TerminalEvents == {"cancel", "failed", "interrupted", "natural_end", "confirm"}

TypeOK ==
    /\ arb \in Arbiters
    /\ take \in 0..MaxTakes
    /\ events \in Seq(TerminalEvents)
    /\ stops \in Seq({"cancellation", "failure"})
    /\ queued \in 0..MaxControls
    /\ sent \in 0..MaxControls

Init ==
    /\ arb = NewArbiter
    /\ take = 0
    /\ events = <<>>
    /\ stops = <<>>
    /\ queued = 0
    /\ sent = 0

DoBeginTake ==
    /\ take < MaxTakes
    /\ take' = take + 1
    /\ arb' = BeginTake(arb)
    /\ events' = <<>>
    /\ queued' = 0
    /\ sent' = 0
    /\ UNCHANGED stops

\* An event between takes is not an event of a take.
Observe(event) ==
    /\ Len(events) < MaxEvents
    /\ events' = IF arb.active THEN Append(events, event) ELSE events
    /\ UNCHANGED <<take, queued, sent>>

DoCancel ==
    /\ Len(stops) < MaxEvents
    /\ Observe("cancel")
    /\ arb' = Cancel(arb)
    /\ stops' = Append(stops, "cancellation")

DoFail(kind) ==
    /\ Len(stops) < MaxEvents
    /\ Observe(kind)
    /\ arb' = Fail(arb, kind)
    /\ stops' = IF arb' # arb THEN Append(stops, "failure") ELSE stops

DoNaturalEnd ==
    /\ Observe("natural_end")
    /\ arb' = NaturalEnd(arb)
    /\ UNCHANGED stops

DoConfirm ==
    /\ Observe("confirm")
    /\ arb' = Confirm(arb)
    /\ UNCHANGED stops

DoQueueControl ==
    /\ queued < MaxControls
    /\ arb' = QueueControl(arb)
    /\ queued' = queued + 1
    /\ UNCHANGED <<take, events, stops, sent>>

DoControlSent ==
    /\ arb' = ControlSent(arb)
    /\ sent' = IF arb.pending > 0 THEN sent + 1 ELSE sent
    /\ UNCHANGED <<take, events, stops, queued>>

Next ==
    \/ DoBeginTake
    \/ DoCancel
    \/ \E kind \in FailureKinds : DoFail(kind)
    \/ DoNaturalEnd
    \/ DoConfirm
    \/ DoQueueControl
    \/ DoControlSent

Spec == Init /\ [][Next]_vars

-----------------------------------------------------------------------------
\* What the header of the class promises, computed from the observed events.

\* The confirmations that had something to confirm.
Cut(seq) ==
    {i \in DOMAIN seq : seq[i] = "confirm" /\ \E j \in 1..(i - 1) : seq[j] # "confirm"}

First(S) == CHOOSE i \in S : \A j \in S : i <= j

\* The events up to the first of them.
Decisive(seq) == IF Cut(seq) = {} THEN seq ELSE SubSeq(seq, 1, First(Cut(seq)) - 1)

\* The first cancellation or failure decides; a natural end only without them.
Hard(seq) == {i \in DOMAIN seq : seq[i] \in {"cancel"} \cup FailureKinds}
Ends(event) == IF event = "cancel" THEN "cancelled" ELSE event
VerdictOf(seq) ==
    IF Hard(seq) # {} THEN Ends(seq[First(Hard(seq))])
    ELSE IF \E i \in DOMAIN seq : seq[i] = "natural_end" THEN "natural_end"
    ELSE "none"
Verdict(seq) == VerdictOf(Decisive(seq))

(***************************************************************************)
(* request_terminal_arbiter.h rules 1 to 3: the result of the take is the  *)
(* verdict of the events observed before it was confirmed, whatever        *)
(* arrives later and in whatever order.                                    *)
(***************************************************************************)
PlaybackFollowsEvents == arb.active => Playback(arb) = Verdict(events)

(***************************************************************************)
(* A confirmed result never changes while the take lasts (RF-2.10).        *)
(***************************************************************************)
ConfirmedNeverChanges ==
    [][arb.confirmed /\ take' = take => arb'.confirmed /\ Playback(arb') = Playback(arb)]_vars

(***************************************************************************)
(* not_started_reason() is the first event that stopped the request, and   *)
(* neither a later event nor the next take replaces it (RF-2.5).           *)
(***************************************************************************)
FirstStopIsKept == arb.stop = (IF stops = <<>> THEN "none" ELSE Head(stops))

(***************************************************************************)
(* Every control handed to the arbiter is sent, still pending or counted   *)
(* as discarded, and none stays pending once the take ended (RF-2.10).     *)
(***************************************************************************)
ControlsAccounted ==
    /\ arb.active => sent + arb.pending + arb.discarded = queued
    /\ Ended(arb) => arb.pending = 0
=============================================================================
