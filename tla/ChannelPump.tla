----------------------------- MODULE ChannelPump -----------------------------
(***************************************************************************)
(* ChannelPump (tools/audio_qa/channel_pump.cpp): a thread reads protocol  *)
(* messages from a pipe into a queue bounded in bytes; the consumer pops   *)
(* them and destroys the pump when it has had enough.  The mutex makes the *)
(* steps below atomic; the condition variable is modelled by the set of    *)
(* threads asleep on it, so that a notification that is missing or comes   *)
(* too early would be seen.                                                *)
(*                                                                         *)
(* The pipe and the process that writes to it are external.                *)
(***************************************************************************)
EXTENDS Naturals, Sequences

CONSTANTS Sizes,           \* sizes of messages
          MaxQueued,       \* max_queued_bytes
          PipeCapacity,    \* messages the pipe holds before its writer stalls
          MaxMessages,     \* bound on the messages written
          Platforms        \* whether a read in progress can be unblocked: Windows, not POSIX

ASSUME SizesAssumption == Sizes \subseteq Nat \ {0}
ASSUME LimitsAssumption == {MaxQueued, PipeCapacity, MaxMessages} \subseteq Nat \ {0}
ASSUME PlatformsAssumption == Platforms \subseteq BOOLEAN

VARIABLES pipe,          \* messages written and not read
          writer,        \* whether the other end is open
          produced,      \* messages written so far
          reader,        \* the step of ChannelPump::run
          held,          \* what reader_() returned, before it is queued
          queue,         \* queue_
          queuedBytes,   \* queued_bytes_
          stop,          \* stop_
          ended,         \* ended_
          asleep,        \* threads waiting on changed_
          consumer,      \* the step of the thread that owns the pump
          delivered,     \* what pop() has returned, in order
          interruptible  \* the pump was given an interrupt; this never changes
channel == <<pipe, writer, produced>>
shared == <<queue, queuedBytes, stop, ended, asleep>>
vars == <<channel, reader, held, shared, consumer, delivered, interruptible>>

Messages == [n : 1..MaxMessages, size : Sizes]
Error == [n |-> 0, size |-> 0]
NoResult == <<>>

TypeOK ==
    /\ pipe \in Seq(Messages)
    /\ writer \in {"open", "closed"}
    /\ produced \in 0..MaxMessages
    /\ reader \in {"check", "read", "push", "done"}
    /\ held \in {NoResult} \cup {<<m>> : m \in Messages \cup {Error}}
    /\ queue \in Seq(Messages \cup {Error})
    /\ queuedBytes \in Nat
    /\ stop \in BOOLEAN
    /\ ended \in BOOLEAN
    /\ asleep \subseteq {"reader", "consumer"}
    /\ consumer \in {"use", "pop", "closing", "gone"}
    /\ delivered \in Seq(Messages \cup {Error})
    /\ interruptible \in Platforms

Init ==
    /\ pipe = <<>>
    /\ writer = "open"
    /\ produced = 0
    /\ reader = "check"
    /\ held = NoResult
    /\ queue = <<>>
    /\ queuedBytes = 0
    /\ stop = FALSE
    /\ ended = FALSE
    /\ asleep = {}
    /\ consumer = "use"
    /\ delivered = <<>>
    /\ interruptible \in Platforms

-----------------------------------------------------------------------------
\* The writer of the pipe.

Send(size) ==
    /\ writer = "open"
    /\ Len(pipe) < PipeCapacity
    /\ produced < MaxMessages
    /\ produced' = produced + 1
    /\ pipe' = Append(pipe, [n |-> produced + 1, size |-> size])
    /\ UNCHANGED <<writer, reader, held, shared, consumer, delivered>>

CloseWriter ==
    /\ writer = "open"
    /\ writer' = "closed"
    /\ UNCHANGED <<pipe, produced, reader, held, shared, consumer, delivered>>

-----------------------------------------------------------------------------
\* The reader thread: ChannelPump::run.

\* Fault: the stop is not a reason to wake up.
HasRoomOnly == queuedBytes < MaxQueued

HasRoom == stop \/ queuedBytes < MaxQueued

ReaderSleeps ==
    /\ reader = "check"
    /\ "reader" \notin asleep
    /\ ~HasRoom
    /\ asleep' = asleep \cup {"reader"}
    /\ UNCHANGED <<channel, reader, held, queue, queuedBytes, stop, ended, consumer, delivered>>

ReaderGoesOn ==
    /\ reader = "check"
    /\ "reader" \notin asleep
    /\ HasRoom
    /\ reader' = IF stop THEN "done" ELSE "read"
    /\ UNCHANGED <<channel, held, shared, consumer, delivered>>

ReadMessage ==
    /\ reader = "read"
    /\ pipe # <<>>
    /\ held' = <<Head(pipe)>>
    /\ pipe' = Tail(pipe)
    /\ reader' = "push"
    /\ UNCHANGED <<writer, produced, shared, consumer, delivered>>

ReadsError ==
    /\ held' = <<Error>>
    /\ reader' = "push"
    /\ UNCHANGED <<channel, shared, consumer, delivered>>

\* The writer is gone, or what is in the pipe is not a message.
ReadFails ==
    /\ reader = "read"
    /\ writer = "closed" \/ pipe # <<>>
    /\ ReadsError

\* The result is queued under the mutex and everyone is notified.
Push ==
    /\ reader = "push"
    /\ queue' = Append(queue, held[1])
    /\ queuedBytes' = queuedBytes + held[1].size
    /\ ended' = (ended \/ held[1] = Error)
    /\ asleep' = {}
    /\ reader' = IF held[1] = Error THEN "done" ELSE "check"
    /\ held' = NoResult
    /\ UNCHANGED <<channel, stop, consumer, delivered>>

-----------------------------------------------------------------------------
\* The owner of the pump: pop() and the destructor run on the same thread, so
\* that no pop() is under way when stop_ is set.

CallPop ==
    /\ consumer = "use"
    /\ consumer' = "pop"
    /\ UNCHANGED <<channel, reader, held, shared, delivered>>

PopSleeps ==
    /\ consumer = "pop"
    /\ "consumer" \notin asleep
    /\ queue = <<>> /\ ~stop
    /\ asleep' = asleep \cup {"consumer"}
    /\ UNCHANGED <<channel, reader, held, queue, queuedBytes, stop, ended, consumer, delivered>>

\* An error stays in the queue once it is all that is left.
AfterPop ==
    IF Len(queue) = 1 /\ ended /\ Head(queue) = Error THEN queue ELSE Tail(queue)

BytesAfterPop == queuedBytes - Head(queue).size

\* Fault: pop() makes room and tells nobody.
PopSilently ==
    /\ consumer = "pop"
    /\ "consumer" \notin asleep
    /\ queue # <<>>
    /\ delivered' = Append(delivered, Head(queue))
    /\ queue' = AfterPop
    /\ queuedBytes' = BytesAfterPop
    /\ consumer' = "use"
    /\ UNCHANGED <<channel, reader, held, asleep, stop, ended>>

\* An error that pop() returns again is recorded once in `delivered'.
Pop ==
    /\ consumer = "pop"
    /\ "consumer" \notin asleep
    /\ queue # <<>>
    /\ delivered' = IF Head(queue) = Error /\ delivered # <<>> /\ delivered[Len(delivered)] = Error
                      THEN delivered ELSE Append(delivered, Head(queue))
    /\ queue' = AfterPop
    /\ queuedBytes' = BytesAfterPop
    /\ asleep' = {}
    /\ consumer' = "use"
    /\ UNCHANGED <<channel, reader, held, stop, ended>>

\* The destructor: stop, notify, then interrupt until the reader has finished.
Close ==
    /\ consumer = "use"
    /\ stop' = TRUE
    /\ asleep' = {}
    /\ consumer' = "closing"
    /\ UNCHANGED <<channel, reader, held, queue, queuedBytes, ended, delivered>>

\* Only a read in progress is interrupted; before it the call has no effect.
InterruptRead ==
    /\ consumer = "closing"
    /\ interruptible
    /\ reader = "read"
    /\ ReadsError

Join ==
    /\ consumer = "closing"
    /\ reader = "done"
    /\ consumer' = "gone"
    /\ UNCHANGED <<channel, reader, held, shared, delivered>>

ReaderStep == ReaderSleeps \/ ReaderGoesOn \/ ReadMessage \/ ReadFails \/ Push
OwnerStep == PopSleeps \/ Pop \/ InterruptRead \/ Join

Next ==
    /\ \/ \E size \in Sizes : Send(size)
       \/ CloseWriter
       \/ ReaderStep
       \/ CallPop
       \/ OwnerStep
       \/ Close
    /\ UNCHANGED interruptible

Spec == Init /\ [][Next]_vars

\* The two threads are scheduled.  The owner may take any time between two calls, and
\* the writer may stay silent for ever.
FairSpec ==
    /\ Spec
    /\ WF_vars(ReaderStep /\ UNCHANGED interruptible)
    /\ WF_vars(OwnerStep /\ UNCHANGED interruptible)

-----------------------------------------------------------------------------
(***************************************************************************)
(* Every message written is somewhere between the writer and the consumer, *)
(* once and in the order of the writer: k of them were taken from the pipe *)
(* before the error, and the pipe has the rest.                            *)
(***************************************************************************)
NothingLostNorReordered ==
    LET taken == delivered \o queue \o held
    IN  \E k \in 0..Len(taken) :
            /\ \A i \in 1..k : taken[i].n = i
            /\ \A i \in (k + 1)..Len(taken) : taken[i] = Error
            /\ \A i \in 1..Len(pipe) : pipe[i].n = k + i
            /\ k + Len(pipe) = produced

(***************************************************************************)
(* "The first error ends the reading; the consumer receives it after the   *)
(* messages" (channel_pump.h): the error is the last thing delivered, and  *)
(* once it was delivered pop() has it again.                               *)
(***************************************************************************)
ErrorComesLast ==
    LET results == delivered \o queue
    IN  /\ \A i, j \in DOMAIN results : i < j /\ results[i] = Error => results[j] = Error
        /\ (delivered # <<>> /\ delivered[Len(delivered)] = Error) => queue = <<Error>>

Bytes(q) == LET upTo[i \in 0..Len(q)] == IF i = 0 THEN 0 ELSE upTo[i - 1] + q[i].size
            IN  upTo[Len(q)]

(***************************************************************************)
(* The byte count is that of the queue, and the queue never exceeds its    *)
(* limit by more than one message.                                         *)
(***************************************************************************)
QueueBounded ==
    /\ queuedBytes = Bytes(queue)
    /\ queuedBytes < MaxQueued \/ \E size \in Sizes : queuedBytes < MaxQueued + size

(***************************************************************************)
(* Nobody sleeps through the event it waits for.                           *)
(***************************************************************************)
NoLostWakeup ==
    /\ "reader" \in asleep => ~HasRoom
    /\ "consumer" \in asleep => queue = <<>>

(***************************************************************************)
(* What the consumer gets is what was written: whole, in order, the error  *)
(* last, through a queue that keeps its limit.                             *)
(***************************************************************************)
QueueIsFaithful == TypeOK /\ NothingLostNorReordered /\ ErrorComesLast /\ QueueBounded /\ NoLostWakeup

(***************************************************************************)
(* D-6b: "a slow flush never fills the pipe and stalls the Runtime": a     *)
(* full pipe is drained without any help of the consumer, until the queue  *)
(* is at its limit or the reading is over.                                 *)
(***************************************************************************)
PipeIsDrained ==
    Len(pipe) = PipeCapacity ~>
        Len(pipe) < PipeCapacity \/ queuedBytes >= MaxQueued \/ reader = "done"

(***************************************************************************)
(* pop() returns once there is a message or the writer has gone.           *)
(***************************************************************************)
PopReturns == consumer = "pop" /\ (pipe # <<>> \/ writer = "closed") ~> consumer = "use"

(***************************************************************************)
(* The destructor ends, even if the read started after stop_ was checked   *)
(* and before the interruption.  Without an interrupt it ends once the     *)
(* writer has gone or has written one more message.                        *)
(***************************************************************************)
CloseCompletes ==
    consumer = "closing" /\ (interruptible \/ writer = "closed" \/ pipe # <<>>)
        ~> consumer = "gone"

(***************************************************************************)
(* The three of them: no thread of the pump is left waiting for another    *)
(* (channel_pump.cpp: read_loop, pop, ~ChannelPump).                       *)
(***************************************************************************)
NobodyIsStuck == PipeIsDrained /\ PopReturns /\ CloseCompletes
=============================================================================
