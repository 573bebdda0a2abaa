---------------------------- MODULE TakeExecution ----------------------------
(***************************************************************************)
(* One take: execute_check_replay (tools/audio_qa/check_execution.cpp),    *)
(* its CancellationForwarder thread, and the part of RequestRun::run_take  *)
(* that gives what came back to the arbiter.  The Runtime is a separate    *)
(* process: it writes any message to the data channel at any time, ends at *)
(* any time with any exit code, and need not follow the protocol.          *)
(*                                                                         *)
(* After the result of the last take a visible Runtime stays paused at its *)
(* end; each inspection it opens from there is a run of its own.           *)
(***************************************************************************)
EXTENDS RequestArbiter, Sequences, FiniteSets

CONSTANTS Take,            \* the run id of the take
          PostRuns,        \* run ids of post-end inspections
          Playbacks,       \* how the Runtime may say that a playback ended
          None,            \* no run, no result
          Visible,         \* presentation = "visible"
          Interruptible,   \* the reader of the channel can be unblocked (Windows)
          MaxMessages,     \* bound on what the Runtime writes
          MaxInFlight      \* bound on what is written and not yet taken

ASSUME TakeAssumption == Take \notin PostRuns /\ None \notin PostRuns \cup {Take}
ASSUME PlaybacksAssumption == Playbacks \subseteq PlaybackKinds
ASSUME FlagsAssumption == {Visible, Interruptible} \subseteq BOOLEAN
ASSUME BoundsAssumption == {MaxMessages, MaxInFlight} \subseteq Nat

VARIABLES step,        \* where execute_check_replay is
          token,       \* the CancelToken, and whether it came before the end or after
          watcher,     \* the forwarder's thread
          control,     \* what was written to the control channel
          controlOpen,
          runtime,     \* the process: not launched, alive, or its exit code
          data,        \* the data channel, through the pump
          seen,        \* the order of what was taken from it, so far
          dirs,        \* run directories that exist
          stored,      \* for each run, when its evidence was received
          results,     \* replay-result.toml of each run
          paused,      \* ended_paused
          post,        \* post_run while post_writer is set
          replay,      \* evidence.replay
          broken,      \* evidence.preservation_error
          cessation,   \* ReplayCessation
          returned,    \* "evidence" or "error"
          arb          \* the arbiter of the request, with this take active
cancelling == <<token, watcher, control, controlOpen>>
process == <<runtime, data>>
files == <<dirs, stored, results>>
locals == <<paused, post, replay, broken>>
vars == <<step, cancelling, process, seen, files, locals, cessation, returned, arb>>

Runs == {Take} \cup PostRuns

\* The messages of the data channel: "invalid" is one that cannot be decoded or has
\* the wrong number, "unreadable" one that ends the reading.  A terminal is a confirmed result; only a
\* natural end can succeed or leave the Runtime paused.
Terminals ==
    {m \in [type : {"terminal"}, run : Runs, playback : Playbacks, ok : BOOLEAN,
            paused : BOOLEAN] : m.ok \/ m.paused => m.playback = "natural_end"}
Messages ==
    [type : {"accepted", "refused", "facts", "audio", "status", "invalid", "unreadable"}]
        \cup [type : {"opened"}, run : Runs] \cup Terminals
ASSUME NoneAssumption == None \notin Terminals

\* The moment at which a message was taken: terminals taken before it, the run
\* opened last, and whether a terminal came since.
Moments == [terminals : 0..MaxMessages, opened : Runs \cup {None}, closed : BOOLEAN]
Start == [terminals |-> 0, opened |-> None, closed |-> FALSE]

Over == {"close", "exit", "unwind", "returned", "settled"}
Gone == {"exit_0", "exit_1"}
Requested == token # "none"

TypeOK ==
    /\ step \in {"prepare", "deliver", "admission", "stream"} \cup Over
    /\ token \in {"none", "early", "late"}
    /\ {controlOpen, paused, broken} \subseteq BOOLEAN
    /\ watcher \in {"off", "watching", "sending", "done"}
    /\ control \in Seq({"request", "cancel"})
    /\ runtime \in {"none", "alive"} \cup Gone
    /\ data \in Seq(Messages)
    /\ seen \in [count : 0..MaxMessages, at : Moments, over : BOOLEAN]
    /\ dirs \subseteq Runs
    /\ stored \in [Runs -> SUBSET Moments]
    /\ results \in [Runs -> Terminals \cup {None}]
    /\ post \in PostRuns \cup {None}
    /\ replay \in Terminals \cup {None}
    /\ cessation \in [launched : BOOLEAN, exited : BOOLEAN, closed : BOOLEAN]
    /\ returned \in {"none", "evidence", "error"}
    /\ arb \in Arbiters

Init ==
    /\ step = "prepare"
    /\ token = "none"
    /\ watcher = "off"
    /\ control = <<>>
    /\ controlOpen = FALSE
    /\ runtime = "none"
    /\ data = <<>>
    /\ seen = [count |-> 0, at |-> Start, over |-> FALSE]
    /\ dirs = {}
    /\ stored = [r \in Runs |-> {}]
    /\ results = [r \in Runs |-> None]
    /\ paused = FALSE
    /\ post = None
    /\ replay = None
    /\ broken = FALSE
    /\ cessation = [launched |-> FALSE, exited |-> FALSE, closed |-> FALSE]
    /\ returned = "none"
    /\ arb = BeginTake(NewArbiter)

-----------------------------------------------------------------------------
\* Preparing, launching, delivering the request.

\* Every return but the first ones destroys the pump and the forwarder on its way.
Return(value) ==
    /\ step' = "unwind"
    /\ returned' = value

\* Identity, data isolation, capabilities, channels, encoding, or the launch.
PrepareFails ==
    /\ step = "prepare"
    /\ Return("error")
    /\ UNCHANGED <<cancelling, process, seen, files, locals, cessation, arb>>

Launch ==
    /\ step = "prepare"
    /\ step' = "deliver"
    /\ runtime' = "alive"
    /\ controlOpen' = TRUE
    /\ cessation' = [cessation EXCEPT !.launched = TRUE]
    /\ UNCHANGED <<token, watcher, control, data, seen, files, locals, returned, arb>>

\* The request goes first; only then does the forwarder start to watch.
Deliver ==
    /\ step = "deliver"
    /\ step' = "admission"
    /\ control' = Append(control, "request")
    /\ watcher' = "watching"
    /\ UNCHANGED <<token, controlOpen, process, seen, files, locals, cessation, returned, arb>>

DeliveryFails ==
    /\ step = "deliver"
    /\ runtime \in Gone
    /\ Return("error")
    /\ UNCHANGED <<cancelling, process, seen, files, locals, cessation, arb>>

-----------------------------------------------------------------------------
\* The data channel.

Message == Head(data)
MomentAfter(m) ==
    CASE m.type = "terminal" ->
           [seen.at EXCEPT !.terminals = seen.at.terminals + 1, !.closed = TRUE]
      [] m.type = "opened" -> [seen.at EXCEPT !.opened = m.run, !.closed = FALSE]
      [] OTHER -> seen.at

\* pump.pop(), or the read of the admission.
TakeMessage ==
    /\ data' = Tail(data)
    /\ seen' = [count |-> seen.count + 1, at |-> MomentAfter(Message),
                over |-> Message.type = "unreadable"]
    /\ UNCHANGED <<runtime, cancelling, cessation, arb>>

Here(types) == data # <<>> /\ Message.type \in types
Disconnected == data = <<>> /\ runtime \in Gone

\* create_exclusive_evidence_directory: a run directory is never opened twice.
CanOpen(run) == run \notin dirs

\* The admission is read before the pump starts; then the evidence is opened.
Admitted ==
    /\ step = "admission"
    /\ Here({"accepted"})
    /\ TakeMessage
    /\ \/ CanOpen(Take) /\ step' = "stream" /\ dirs' = dirs \cup {Take} /\ UNCHANGED returned
       \/ Return("error") /\ UNCHANGED dirs
    /\ UNCHANGED <<stored, results, locals>>

NotAdmitted ==
    /\ step = "admission"
    /\ \/ data # <<>> /\ ~Here({"accepted"}) /\ TakeMessage
       \/ Disconnected /\ UNCHANGED <<process, seen, cancelling, cessation, arb>>
    /\ Return("error")
    /\ UNCHANGED <<files, locals>>

\* No more messages: once paused at the end, the window was closed.
StreamEnds ==
    /\ step = "stream"
    /\ \/ Here({"unreadable"}) /\ TakeMessage
       \/ Disconnected /\ UNCHANGED <<process, seen, cancelling, cessation, arb>>
    /\ IF paused THEN step' = "close" /\ UNCHANGED returned ELSE Return("error")
    /\ UNCHANGED <<files, locals>>

\* What the loop accepts in each state; anything else is an invalid stream.
Acceptable ==
    \/ Here({"status", "unreadable"})
    \/ ~paused /\ Here({"facts", "audio", "terminal"})
    \/ paused /\ post # None /\ Here({"facts"})
    \/ paused /\ post = None /\ Here({"opened"}) /\ CanOpen(Message.run)
    \/ paused /\ post # None /\ Here({"terminal"}) /\ Message.run = post

InvalidStream ==
    /\ step = "stream"
    /\ data # <<>>
    /\ ~Acceptable
    /\ TakeMessage
    /\ Return("error")
    /\ UNCHANGED <<files, locals>>

Status ==
    /\ step = "stream"
    /\ Here({"status"})
    /\ TakeMessage
    /\ UNCHANGED <<step, returned, files, locals>>

Kept(run) == [stored EXCEPT ![run] = stored[run] \cup {seen.at}]

\* After the first append that fails the take keeps nothing more.
KeepEvidence ==
    /\ step = "stream"
    /\ ~paused
    /\ Here({"facts", "audio"})
    /\ TakeMessage
    /\ IF broken THEN UNCHANGED <<stored, broken>>
       ELSE \/ stored' = Kept(Take) /\ UNCHANGED broken
            \/ broken' = TRUE /\ UNCHANGED stored
    /\ UNCHANGED <<step, returned, dirs, results, paused, post, replay>>

\* publish_durable_file for replay-result.toml, then for traversal.toml: "failed"
\* stands for either one, with or without the result at its place.
Publish(run, m, outcome) ==
    /\ results' \in (IF outcome = "published" THEN {} ELSE {results})
                    \cup {[results EXCEPT ![run] = m]}
    /\ UNCHANGED <<dirs, stored>>

\* The terminal of the take: its result is confirmed, and the Runtime may stay.
Terminal ==
    /\ step = "stream"
    /\ ~paused
    /\ Here({"terminal"})
    /\ TakeMessage
    /\ replay' = Message
    /\ \/ /\ Publish(Take, Message, "published")
          /\ \/ UNCHANGED broken
             \/ broken' = TRUE
          /\ UNCHANGED returned
          /\ IF Message.paused /\ Visible
               THEN paused' = TRUE /\ UNCHANGED step
               ELSE step' = "close" /\ UNCHANGED paused
       \/ /\ Publish(Take, Message, "failed")
          /\ Return("error")
          /\ UNCHANGED <<paused, broken>>
    /\ UNCHANGED post

OpenPostRun ==
    /\ step = "stream"
    /\ paused
    /\ post = None
    /\ Here({"opened"})
    /\ CanOpen(Message.run)
    /\ TakeMessage
    /\ \/ post' = Message.run /\ dirs' = dirs \cup {Message.run} /\ UNCHANGED <<step, returned>>
       \/ Return("error") /\ UNCHANGED <<post, dirs>>
    /\ UNCHANGED <<stored, results, paused, replay, broken>>

\* Fault: what comes after the end goes to the evidence of the take.
KeepPostFactsInTake ==
    /\ step = "stream"
    /\ paused
    /\ post # None
    /\ Here({"facts"})
    /\ TakeMessage
    /\ stored' = Kept(Take)
    /\ UNCHANGED <<step, returned, dirs, results, locals>>

\* A fact of a post-end run; whether it was kept is not looked at.
KeepPostFacts ==
    /\ step = "stream"
    /\ paused
    /\ post # None
    /\ Here({"facts"})
    /\ TakeMessage
    /\ \/ stored' = Kept(post)
       \/ UNCHANGED stored
    /\ UNCHANGED <<step, returned, dirs, results, locals>>

\* Fault: the result of an inspection is published as that of the take.
ClosePostRunAsTake ==
    /\ step = "stream"
    /\ paused
    /\ post # None
    /\ Here({"terminal"})
    /\ Message.run = post
    /\ TakeMessage
    /\ Publish(Take, Message, "published")
    /\ post' = None
    /\ UNCHANGED <<step, returned, paused, replay, broken>>

ClosePostRun ==
    /\ step = "stream"
    /\ paused
    /\ post # None
    /\ Here({"terminal"})
    /\ Message.run = post
    /\ TakeMessage
    /\ \/ Publish(post, Message, "published") /\ post' = None /\ UNCHANGED <<step, returned>>
       \/ Publish(post, Message, "failed") /\ Return("error") /\ UNCHANGED post
    /\ UNCHANGED <<paused, replay, broken>>

-----------------------------------------------------------------------------
\* The end of the take.

\* evidence_writer.finish: nothing more is written for this take.
CloseEvidence ==
    /\ step = "close"
    /\ step' = "exit"
    /\ broken' \in {broken, TRUE}
    /\ cessation' = [cessation EXCEPT !.closed = TRUE]
    /\ UNCHANGED <<cancelling, process, seen, files, paused, post, replay, returned, arb>>

\* Fault: stop() waits for a thread that nobody told to stop.
StopForwarderSilently ==
    /\ watcher \in {"off", "done"}
    /\ watcher' = "done"
    /\ controlOpen' = FALSE
    /\ UNCHANGED <<token, control>>

\* forwarder.stop() joins the thread before it closes the channel.
StopForwarder ==
    /\ watcher # "sending"
    /\ watcher' = "done"
    /\ controlOpen' = FALSE
    /\ UNCHANGED <<token, control>>

\* The identity, the exit code and the isolation of the user's data must agree;
\* inputs and evidence are compared too, when the replay succeeded.
ProcessExited ==
    /\ step = "exit"
    /\ runtime \in Gone
    /\ StopForwarder
    /\ cessation' = [cessation EXCEPT !.exited = TRUE]
    /\ \/ replay.run = Take /\ replay.ok = (runtime = "exit_0") /\ Return("evidence")
       \/ Return("error")
    /\ UNCHANGED <<process, seen, files, locals, arb>>

\* process->wait gives up after 30 seconds.
ExitTimeout ==
    /\ step = "exit"
    /\ runtime = "alive"
    /\ Return("error")
    /\ UNCHANGED <<cancelling, process, seen, files, locals, cessation, arb>>

\* The pump joins its reader, which must first get out of its read.
Unwind ==
    /\ step = "unwind"
    /\ step' = "returned"
    /\ Take \in dirs => Interruptible \/ runtime \in Gone \/ data # <<>> \/ seen.over
    /\ StopForwarder
    /\ UNCHANGED <<process, seen, files, locals, cessation, returned, arb>>

\* run_take: the events reach the arbiter, and the take is confirmed.
SettleTake ==
    /\ step = "returned"
    /\ step' = "settled"
    /\ arb' = Settle(arb, Requested, IF returned = "evidence" THEN replay.playback ELSE "error")
    /\ UNCHANGED <<cancelling, process, seen, files, locals, cessation, returned>>

-----------------------------------------------------------------------------
\* The forwarder's thread, the user and the Runtime.

WatchToken ==
    /\ watcher = "watching"
    /\ Requested
    /\ watcher' = "sending"
    /\ UNCHANGED <<step, token, control, controlOpen, process, seen, files, locals,
                   cessation, returned, arb>>

SendCancel ==
    /\ watcher = "sending"
    /\ watcher' = "done"
    /\ control' = Append(control, "cancel")
    /\ UNCHANGED <<step, token, controlOpen, process, seen, files, locals, cessation,
                   returned, arb>>

RequestCancel ==
    /\ ~Requested
    /\ step # "settled"
    /\ token' = IF paused THEN "late" ELSE "early"
    /\ UNCHANGED <<step, watcher, control, controlOpen, process, seen, files, locals,
                   cessation, returned, arb>>

RuntimeWrites(m) ==
    /\ runtime = "alive"
    /\ Len(data) < MaxInFlight
    /\ seen.count + Len(data) < MaxMessages
    /\ data' = Append(data, m)
    /\ UNCHANGED <<step, cancelling, runtime, seen, files, locals, cessation, returned, arb>>

RuntimeExits ==
    /\ runtime = "alive"
    /\ runtime' \in Gone
    /\ UNCHANGED <<step, cancelling, data, seen, files, locals, cessation, returned, arb>>

Supervise ==
    \/ PrepareFails \/ Launch \/ Deliver \/ DeliveryFails \/ Admitted \/ NotAdmitted
    \/ StreamEnds \/ InvalidStream \/ Status \/ KeepEvidence \/ Terminal
    \/ OpenPostRun \/ KeepPostFacts \/ ClosePostRun
    \/ CloseEvidence \/ ProcessExited \/ Unwind \/ SettleTake

Next ==
    \/ Supervise
    \/ ExitTimeout
    \/ WatchToken
    \/ SendCancel
    \/ RequestCancel
    \/ \E m \in Messages : RuntimeWrites(m)
    \/ RuntimeExits

Spec == Init /\ [][Next]_vars

\* Both threads run; nothing bounds the silence of the Runtime.
FairSpec ==
    /\ Spec
    /\ WF_vars(Supervise)
    /\ WF_vars(WatchToken \/ SendCancel)

-----------------------------------------------------------------------------
(***************************************************************************)
(* RF-2.9: a post-end inspection is a run of its own.  The evidence of the *)
(* take holds only what came before its terminal, and that of a post-end   *)
(* run only facts between its opening and the next terminal.               *)
(***************************************************************************)
EvidenceStaysInItsRun ==
    /\ \A at \in stored[Take] : at.terminals = 0
    /\ \A r \in PostRuns : \A at \in stored[r] : at.opened = r /\ ~at.closed

(***************************************************************************)
(* RF-2.9: what the Runtime does after its confirmed result never changes  *)
(* the published result of the take, nor that of a closed inspection.      *)
(***************************************************************************)
PublishedResultsStay ==
    [][\A r \in Runs : results[r] # None => results'[r] = results[r]]_vars

(***************************************************************************)
(* RNF-5: the evidence of a take comes back only with its result published *)
(* for this very run, its process gone with the exit code of that result,  *)
(* its evidence closed and nobody left that could write to the channel.    *)
(***************************************************************************)
EvidenceMeansFinished ==
    returned = "evidence" =>
        /\ results[Take] = replay
        /\ replay.run = Take
        /\ replay.ok = (runtime = "exit_0")
        /\ cessation = [launched |-> TRUE, exited |-> TRUE, closed |-> TRUE]
        /\ runtime \in Gone
        /\ watcher = "done"

(***************************************************************************)
(* RF-2.4, RF-2.5: a take is settled as a natural end only when its        *)
(* published result says so and nobody had asked to cancel.                *)
(***************************************************************************)
NaturalEndIsProved ==
    step = "settled" /\ Playback(arb) = "natural_end" =>
        /\ ~Requested
        /\ results[Take] # None
        /\ results[Take].playback = "natural_end"
        /\ cessation.exited

(***************************************************************************)
(* contracts C1: `cancel' follows the request on the control channel, once *)
(* at most, and never after the channel was closed.                        *)
(***************************************************************************)
CancelFollowsRequest ==
    /\ control \in {<<>>, <<"request">>, <<"request", "cancel">>}
    /\ watcher = "sending" => controlOpen /\ control = <<"request">>

(***************************************************************************)
(* What a take leaves behind is true: facts in the run they belong to,     *)
(* evidence of a finished execution, a natural end nobody cancelled, and   *)
(* at most one `cancel' after the request (check_execution.cpp).           *)
(***************************************************************************)
TakeIsTruthful ==
    /\ TypeOK
    /\ EvidenceStaysInItsRun
    /\ EvidenceMeansFinished
    /\ NaturalEndIsProved
    /\ CancelFollowsRequest

(***************************************************************************)
(* RF-2.5: a cancellation is forwarded while the take runs, however long   *)
(* the Runtime says nothing.                                               *)
(***************************************************************************)
CancelIsForwarded ==
    Requested /\ watcher = "watching" ~> control = <<"request", "cancel">> \/ step \in Over

(***************************************************************************)
(* Once the Runtime is gone the take is settled, whatever was written or   *)
(* failed to be, and whoever asked to cancel in between: nobody is left    *)
(* waiting for a message, for the forwarder or for the pump.               *)
(***************************************************************************)
TakeIsSettled == runtime \in Gone ~> step = "settled"

(***************************************************************************)
(* A cancellation gets through and an ended Runtime ends the take: neither *)
(* thread waits for the other for ever (check_execution.cpp:               *)
(* CancellationForwarder, execute_check_replay).                           *)
(***************************************************************************)
TakeMovesOn == CancelIsForwarded /\ TakeIsSettled

-----------------------------------------------------------------------------
(***************************************************************************)
(* "cancelling after the confirmed result only closes the window [...] the *)
(* result does not change" (src/audio_qa_runtime_session.cpp): a take that *)
(* was paused at its natural end when the cancellation came is settled as  *)
(* a natural end.                                                          *)
(***************************************************************************)
CancelAfterTheEndChangesNothing ==
    step = "settled" /\ returned = "evidence" /\ token = "late" /\ replay.playback = "natural_end" =>
        Playback(arb) = "natural_end"
=============================================================================
