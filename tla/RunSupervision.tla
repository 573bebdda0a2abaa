---------------------------- MODULE RunSupervision ----------------------------
(****************************************************************************)
(* The library that follows one take after another from its process to its   *)
(* verdict: the lifecycle of a run, the terminal of its playback, its        *)
(* cancellation on both sides of the channel, the deadlines of that          *)
(* cancellation, the watchdog of its progress, the end of its process, and   *)
(* the sequence that starts the next process only then.  The objects are     *)
(* driven by calls from several places, so every order of calls is tried.    *)
(****************************************************************************)
EXTENDS Integers, Sequences, FiniteSets

CONSTANTS
    Takes,              \* number of takes of the request
    ResponseDeadline,   \* cancellation_response_deadline_ms
    WaitDeadline,       \* cancellation_wait_deadline_ms
    NoProgress,         \* no_progress_ms of the playback watchdog
    MaxFrames,          \* bound on the frames of a take
    MaxTime             \* bound on the clock

VARIABLES
    now,
    sequence,       \* TakeProcessSequence: current_index_ and whether a process is active
    life,           \* RunLifecycle of the current run
    frames,         \* frames the Runtime has completed
    terminal,       \* ReplayTerminalArbiter::terminal_, as a playback result
    cancel,         \* ReplayControlGate and ReplayCancellation of the Runtime
    window,         \* CancellationWindow of the supervisor
    status,         \* CheckCancellationCoordinator::status_.state
    polled,         \* the verdict of the last poll and when it was given
    process,        \* ProcessCessation::status_.state
    dog,            \* ProgressWatchdog of the playback
    quiet           \* TRUE when the last check of the watchdog reported nothing
runVars == <<now, sequence, life, frames, terminal, cancel, window, status, polled, process, dog, quiet>>

None == -1
RunEnds == {"natural_end", "failed", "cancelled"}
Results == {"not_started", "in_progress"} \cup RunEnds

NewLife == [phase |-> "preparing", playback |-> "not_started", evidence |-> "pending"]
NewCancel == [gate |-> FALSE, requested |-> FALSE, after |-> 0, applied |-> FALSE]
NewWindow == [requested |-> None, response |-> None, cessation |-> None]
NewDog == [observed |-> now, progress |-> now, frame |-> 0, moved |-> now]

\* Everything about a run is new when its process starts.
Fresh == /\ life' = NewLife /\ frames' = 0 /\ terminal' = "none" /\ cancel' = NewCancel
         /\ window' = NewWindow /\ status' = "idle" /\ polled' = [state |-> "idle", at |-> None]
         /\ process' = "connected" /\ dog' = NewDog /\ quiet' = FALSE

RunInit ==
    /\ now = 0
    /\ sequence = [index |-> 1, active |-> FALSE]
    /\ life = NewLife /\ frames = 0 /\ terminal = "none" /\ cancel = NewCancel
    /\ window = NewWindow /\ status = "idle" /\ polled = [state |-> "idle", at |-> None]
    /\ process = "connected" /\ dog = NewDog /\ quiet = FALSE

Tick == /\ now < MaxTime /\ now' = now + 1
        /\ quiet' = FALSE
        /\ UNCHANGED <<sequence, life, frames, terminal, cancel, window, status, polled, process, dog>>

\* TakeProcessSequence::start_next, with a process that was never used before.
StartNext ==
    /\ ~sequence.active /\ sequence.index <= Takes
    /\ sequence' = [sequence EXCEPT !.active = TRUE]
    /\ Fresh
    /\ UNCHANGED now

(****************************************************************************)
(* RunLifecycle                                                              *)
(****************************************************************************)
Running == sequence.active /\ process # "confirmed"

MarkReady ==
    /\ Running /\ life.phase = "preparing"
    /\ life' = [life EXCEPT !.phase = "ready"]
    /\ UNCHANGED <<now, sequence, frames, terminal, cancel, window, status, polled, process, dog, quiet>>

StartPlayback ==
    /\ Running /\ life.phase = "ready"
    /\ life' = [life EXCEPT !.phase = "playing", !.playback = "in_progress"]
    /\ dog' = NewDog
    /\ UNCHANGED <<now, sequence, frames, terminal, cancel, window, status, polled, process, quiet>>

BeginsClosing(l, result) == l.phase = "playing" /\ result \in RunEnds
Closing(l, result) == [l EXCEPT !.phase = "closing", !.playback = result]

\* Fault: a second terminal replaces the first while the run is closing.
ResolvesAgain(result) ==
    /\ Running /\ life.phase \in {"playing", "closing"}
    /\ terminal' = result
    /\ life' = Closing(life, result)

\* ReplayTerminalArbiter::resolve: the first valid terminal of a playing run is accepted.
Resolves(result) ==
    /\ Running /\ terminal = "none"
    /\ BeginsClosing(life, result)
    /\ terminal' = result
    /\ life' = Closing(life, result)

Resolve(result) ==
    /\ Resolves(result)
    /\ UNCHANGED <<now, sequence, frames, cancel, window, status, polled, process, dog, quiet>>

\* EvidenceClose::finish
FinishClosing(evidence) ==
    /\ Running /\ life.phase = "closing"
    /\ life' = [life EXCEPT !.phase = "closed", !.evidence = evidence]
    /\ UNCHANGED <<now, sequence, frames, terminal, cancel, window, status, polled, process, dog, quiet>>

(****************************************************************************)
(* Progress and its watchdog                                                 *)
(****************************************************************************)

\* observe_completed_frame: only a frame beyond the last one is progress.
ObservedFrame(d, frame, at) ==
    [d EXCEPT !.observed = at, !.frame = IF frame > @ THEN frame ELSE @,
              !.progress = IF frame > d.frame THEN at ELSE @]

\* A frame is completed and reported; moved is when one really was.
CompleteFrame ==
    /\ Running /\ life.phase = "playing" /\ frames < MaxFrames
    /\ frames' = frames + 1
    /\ dog' = [ObservedFrame(dog, frames + 1, now) EXCEPT !.moved = now]
    /\ UNCHANGED <<now, sequence, life, terminal, cancel, window, status, polled, process, quiet>>

\* A heartbeat, or a frame reported again after the position moved back.
RepeatFrame ==
    /\ Running /\ life.phase = "playing" /\ frames > 0 /\ dog.observed < now
    /\ dog' = ObservedFrame(dog, frames, now)
    /\ UNCHANGED <<now, sequence, life, frames, terminal, cancel, window, status, polled, process, quiet>>

TimedOut(d, at) == at - d.progress >= NoProgress

CheckProgress ==
    /\ Running /\ life.phase = "playing"
    /\ quiet' = ~TimedOut(dog, now)
    /\ UNCHANGED <<now, sequence, life, frames, terminal, cancel, window, status, polled, process, dog>>

(****************************************************************************)
(* Cancellation: the supervisor's coordinator and window, the Runtime's gate *)
(* and record                                                                *)
(****************************************************************************)
\* CancellationWindow: the times of the request, of the first answer and of the end.
Attempted(w, at) == [w EXCEPT !.requested = at]
Responded(w, at) == [w EXCEPT !.response = IF @ = None THEN at ELSE @]
Ceased(w, at) == [w EXCEPT !.cessation = at]

\* ReplayControlGate: of the external controls only a cancellation changes anything.
GateOpens(c, delivered) == [c EXCEPT !.gate = delivered]

\* CheckCancellationCoordinator::request; the message may not reach the Runtime.
RequestCancel(delivered) ==
    /\ sequence.active /\ status = "idle"
    /\ window' = Attempted(window, now)
    /\ status' = "requested"
    /\ cancel' = GateOpens(cancel, delivered)
    /\ UNCHANGED <<now, sequence, life, frames, terminal, polled, process, dog, quiet>>

\* capture_request and apply_at_frame_boundary
CaptureCancel ==
    /\ Running /\ cancel.gate /\ ~cancel.requested
    /\ cancel' = [cancel EXCEPT !.requested = TRUE, !.after = frames]
    /\ UNCHANGED <<now, sequence, life, frames, terminal, window, status, polled, process, dog, quiet>>

ApplyCancel ==
    /\ Running /\ cancel.requested /\ ~cancel.applied /\ frames >= cancel.after
    /\ BeginsClosing(life, "cancelled")
    /\ life' = Closing(life, "cancelled")
    /\ cancel' = [cancel EXCEPT !.applied = TRUE]
    /\ UNCHANGED <<now, sequence, frames, terminal, window, status, polled, process, dog, quiet>>

\* CheckCancellationCoordinator::observe of an answer that says how far the Runtime got: the
\* first one is the response, and none counts after the end of the process was confirmed.
ObserveAnswer(stage) ==
    /\ status \notin {"idle", "cessation_confirmed"}
    /\ stage = "acknowledged" => cancel.gate /\ window.response = None
    /\ stage = "applied" => cancel.applied /\ status # "applied"
    /\ window' = Responded(window, now)
    /\ status' = stage
    /\ UNCHANGED <<now, sequence, life, frames, terminal, cancel, polled, process, dog, quiet>>

ObserveCessation ==
    /\ status \notin {"idle", "cessation_confirmed"} /\ process = "confirmed"
    /\ window' = Ceased(window, now)
    /\ status' = "cessation_confirmed"
    /\ UNCHANGED <<now, sequence, life, frames, terminal, cancel, polled, process, dog, quiet>>

\* Fault: an answer counts whenever it came.
AnyAnswer(w) == w.response # None

Timely(w) == w.response # None /\ w.response - w.requested <= ResponseDeadline

\* CancellationWindow::check, as the state poll leaves
WindowVerdict(w, at) ==
    LET elapsed == at - w.requested
    IN  IF w.requested = None \/ w.cessation # None THEN "none"
        ELSE IF elapsed >= WaitDeadline THEN "cessation_unknown"
        ELSE IF ~Timely(w) /\ elapsed >= ResponseDeadline THEN "response_missing"
        ELSE "none"

Poll ==
    LET verdict == WindowVerdict(window, now)
    IN  /\ status # "idle"
        /\ status' = IF verdict = "none" THEN status ELSE verdict
        /\ polled' = [state |-> status', at |-> now]
        /\ UNCHANGED <<now, sequence, life, frames, terminal, cancel, window, process, dog, quiet>>

(****************************************************************************)
(* ProcessCessation                                                          *)
(****************************************************************************)
CessationStep(from, to) ==
    /\ sequence.active /\ process = from /\ process' = to
    /\ UNCHANGED <<now, sequence, life, frames, terminal, cancel, window, status, polled, dog, quiet>>

ObserveDisconnect == CessationStep("connected", "disconnected")
RequestStop == CessationStep("disconnected", "stop_requested")
MarkUnconfirmed == CessationStep("stop_requested", "unconfirmed")
ConfirmExit == \E from \in {"connected", "disconnected", "stop_requested", "unconfirmed"} :
                    CessationStep(from, "confirmed")

\* TakeProcessSequence::finish_current
FinishCurrent ==
    /\ sequence.active /\ life.phase = "closed" /\ process = "confirmed"
    /\ sequence' = [index |-> sequence.index + 1, active |-> FALSE]
    /\ UNCHANGED <<now, life, frames, terminal, cancel, window, status, polled, process, dog, quiet>>

RunNext ==
    \/ Tick \/ StartNext \/ MarkReady \/ StartPlayback
    \/ \E result \in {"natural_end", "failed"} : Resolve(result)
    \/ \E evidence \in {"complete", "incomplete"} : FinishClosing(evidence)
    \/ CompleteFrame \/ RepeatFrame \/ CheckProgress
    \/ \E delivered \in BOOLEAN : RequestCancel(delivered)
    \/ CaptureCancel \/ ApplyCancel
    \/ \E stage \in {"acknowledged", "applied"} : ObserveAnswer(stage)
    \/ ObserveCessation \/ Poll
    \/ ObserveDisconnect \/ RequestStop \/ MarkUnconfirmed \/ ConfirmExit \/ FinishCurrent
RunSpec == RunInit /\ [][RunNext]_runVars

--------------------------------------------------------------------------------
(* The natural end, a failure and a cancellation race for the verdict of the *)
(* run, and exactly one of them gives it: the playback result is the one     *)
(* recorded by whoever closed the run, and stays                             *)
(* (replay_terminal_arbiter.cpp, replay_cancellation.cpp, run_lifecycle.cpp).*)
OneVerdict ==
    /\ ~(terminal # "none" /\ cancel.applied)
    /\ life.phase \in {"closing", "closed"} =>
            life.playback = IF cancel.applied THEN "cancelled" ELSE terminal

(* A missing response, once reported after its deadline, is not withdrawn by *)
(* an answer that comes late: only the confirmed end of the process settles  *)
(* the cancellation (cancellation_window.cpp: check; check_cancellation.cpp: *)
(* poll).                                                                    *)
StaysMissing ==
    (/\ polled.state \in {"response_missing", "cessation_unknown"}
     /\ polled.at > window.requested + ResponseDeadline
     /\ polled' # polled /\ polled'.at # None)
        => polled'.state \in {"response_missing", "cessation_unknown", "cessation_confirmed"}
LateAnswersDoNotRescue == [][StaysMissing]_runVars

(* While the watchdog keeps quiet a frame was really completed within its    *)
(* limit: heartbeats and repeated frames do not feed it                      *)
(* (progress_watchdog.cpp).                                                  *)
QuietMeansProgress == quiet => now - dog.moved < NoProgress

(* A run has one verdict, and a quiet watchdog means real progress, for      *)
(* every order of calls (run_lifecycle.cpp, replay_terminal_arbiter.cpp,     *)
(* progress_watchdog.cpp).                                                   *)
RunsAreSupervised == OneVerdict /\ QuietMeansProgress
================================================================================
