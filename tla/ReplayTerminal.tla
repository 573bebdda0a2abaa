---------------------------- MODULE ReplayTerminal ----------------------------
(***************************************************************************)
(* What the terminal of a take says of its presentation.  The window       *)
(* reports every frame it shows, misses or shows late                      *)
(* (tools/audio_qa/replay_presentation.h, src/audio_qa_presentation.cpp);  *)
(* the session turns that report into a terminal and the supervisor reads  *)
(* it back (tools/audio_qa/replay_execution_result.cpp).  The controller   *)
(* is InspectionController's; the Engine always produces and recovers      *)
(* frames here, its failures are ReplaySession's.                          *)
(***************************************************************************)
EXTENDS InspectionController, FiniteSets, FiniteSetsExt

CONSTANTS LateBudget,   \* max(1, frames / 1000): late frames that are tolerated
          MaxKeys       \* bound on keys pressed

Nowhere == 0            \* first and last affected frame of a report without any

VARIABLES ctl,          \* the InspectionController
          window,       \* none (not requested), failed (never opened) or open
          report,       \* ReplayPresentation
          health,       \* PresentationHealth: its state and its cause
          consumed,     \* inputs the linear playback consumed
          keys,         \* keys pressed
          missed,       \* frames of the playback that some visit did not show
          seen,         \* frames some visit showed
          result,       \* the terminal of the session, when it is over
          channel       \* the document in the data channel: << >>, or one
vars == <<ctl, window, report, health, consumed, keys, missed, seen, result, channel>>

(***************************************************************************)
(* ReplayPresentation.  The frames seen stand for their counts.            *)
(***************************************************************************)
NewReport(mode, code) ==
    [mode |-> mode, code |-> code, presented |-> {}, affected |-> {}, cancelled |-> FALSE,
     late |-> 0, intolerable |-> FALSE]

Presented(r, frame) == [r EXCEPT !.presented = @ \cup {frame}]
Affect(r, frame) == [r EXCEPT !.affected = @ \cup {frame}]
Degrade(r, code) == [r EXCEPT !.code = IF @ = "presented" THEN code ELSE @]

Interrupted(r, cause) == [Degrade(r, cause) EXCEPT !.intolerable = TRUE]

Late(r, frame, far) ==
    LET n == r.late + 1 IN
    [Degrade(Affect(r, frame), "cadence_degraded") EXCEPT
        !.late = n, !.intolerable = @ \/ far \/ n > LateBudget]

ToleratedLateFrames(r) == IF r.intolerable THEN 0 ELSE r.late

\* What of the report is in the terminal: the trackers are only counted.
Fields(r) ==
    [mode |-> r.mode, code |-> r.code, shown |-> Cardinality(r.presented),
     affected |-> Cardinality(r.affected),
     first |-> IF r.affected = {} THEN Nowhere ELSE Min(r.affected),
     last |-> IF r.affected = {} THEN Nowhere ELSE Max(r.affected),
     cancelled |-> r.cancelled, late |-> r.late, intolerable |-> r.intolerable]

\* Fault: a tolerated delay excuses whatever else affected the presentation.
CompleteIfLate(p) ==
    \/ p.mode = "none"
    \/ /\ ~p.cancelled
       /\ \/ p.code = "presented" /\ p.affected = 0
          \/ p.code = "cadence_degraded" /\ ~p.intolerable

Complete(p) ==
    \/ p.mode = "none"
    \/ /\ ~p.cancelled
       /\ \/ p.code = "presented" /\ p.affected = 0
          \/ p.code = "cadence_degraded" /\ ~p.intolerable /\ p.affected <= p.late

(***************************************************************************)
(* The window.  A frame is shown, or missed: the swapchain cannot be       *)
(* resized or acquired, the window is minimized, the present fails.        *)
(***************************************************************************)
Problems == {"video_frame_unavailable", "video_resize_failed", "video_acquire_failed",
             "video_present_failed"}

\* present(): a window that did not open misses every frame.
Shown1(r, frame, linear, outcome) ==
    IF outcome = "presented" THEN IF linear THEN Presented(r, frame) ELSE r
    ELSE Degrade(Affect(r, frame), outcome)

Outcomes1 == CASE window = "open" -> Problems \cup {"presented"}
               [] window = "failed" -> {"video_frame_unavailable"}
               [] OTHER -> {"nothing"}

\* show(): the session has no window to show in, or tells its health how it went.
ReportShown(r, frame, linear, outcome) ==
    IF window = "none" THEN r ELSE Shown1(r, frame, linear, outcome)
Cause(outcome) == IF outcome = "video_present_failed" THEN outcome ELSE "video_acquire_failed"
HealthShown(h, outcome) ==
    IF window # "open" \/ outcome = "presented" \/ h # "healthy" THEN h ELSE Cause(outcome)

\* The frames shown again by a command: in pause, after a notice, over the overlay.
Shows(c, commands) ==
    {Shown(c) : i \in {j \in DOMAIN commands :
        \/ commands[j].kind = "present_frame"
        \/ commands[j].kind = "notice" /\ c.phase # "playing"
        \/ commands[j].kind = "toggle_debug" /\ c.phase = "paused"}}
\* Before the first frame there is no view to show.
Showing(r, frames, n, outcome) ==
    IF frames = {} \/ n = 0 THEN r
    ELSE ReportShown(r, CHOOSE f \in frames : TRUE, FALSE, outcome)
SeenOf(frames, n, outcome) == IF outcome = "presented" /\ n # 0 THEN frames ELSE {}

(***************************************************************************)
(* The terminal.                                                           *)
(***************************************************************************)
DescribeTerminal(t, cancelled, inspected) ==
    LET all == Frames > 0 /\ t.consumed = Frames IN
    [t EXCEPT !.traversal = IF inspected THEN "inspection" ELSE "linear",
              !.playback = IF cancelled THEN "cancelled" ELSE IF all THEN "natural_end" ELSE "failed",
              !.linear = ~cancelled /\ all /\ ~inspected,
              !.reasons = IF t.ok \/ cancelled THEN @ ELSE @ \cup {t.code}]

Unset == "unset"        \* an absent optional
TerminalFieldsWellFormed(t) ==
    /\ t.traversal \in {Unset, "linear", "inspection", "post_end_inspection"}
    /\ t.playback \in {Unset, "natural_end", "cancelled", "failed", "interrupted"}
    /\ (t.traversal = Unset) <=> (t.playback = Unset)
    /\ t.linear => /\ t.traversal = "linear" /\ t.playback = "natural_end"
                   /\ t.consumed = t.frames

PresentsInPlayback(t) == t.traversal \in {Unset, "linear"}

WellFormed(t) ==
    LET p == t.presentation IN
    /\ p.mode \in {"none", "visible"}
    /\ p.shown <= t.consumed /\ p.affected <= t.consumed
    /\ p.affected # 0 => p.first <= p.last /\ p.last < t.consumed
    /\ t.ok => /\ Complete(p)
               /\ (p.mode = "visible" /\ PresentsInPlayback(t)) => p.shown = t.consumed
    /\ TerminalFieldsWellFormed(t)
    /\ t.consumed <= t.frames
    /\ t.ok => /\ t.frames > 0 /\ t.consumed = t.frames
               /\ t.trace.facts > 0 /\ t.trace.lossFree
               /\ t.code = "replay_evidence_streamed"

(***************************************************************************)
(* The document.  Today's Runtime writes schema 1.4; 1.3 had no terminal   *)
(* fields and 1.2 no presentation either.  Its keys are counted, so they   *)
(* are exactly these; tolerated_late_frames is there only when not zero.   *)
(***************************************************************************)
Schemas == {"1.2", "1.3", "1.4"}
Common == {"frames", "consumed", "trace", "ok", "code"}
TerminalKeys == {"traversal", "playback", "linear", "reasons", "paused", "interruptions"}
Keys(schema) ==
    Common \cup (IF schema = "1.2" THEN {} ELSE {"presentation"})
           \cup (IF schema = "1.4" THEN TerminalKeys ELSE {})
PresentationKeys == {"mode", "code", "shown", "affected", "first", "last", "cancelled"}

PresentationTable(p) ==
    LET tolerated == IF p.intolerable THEN 0 ELSE p.late IN
    [k \in PresentationKeys \cup (IF tolerated # 0 THEN {"tolerated"} ELSE {}) |->
        IF k = "tolerated" THEN tolerated ELSE p[k]]
Document(t, schema) ==
    [schema |-> schema,
     body |-> [k \in Keys(schema) |->
                IF k = "presentation" THEN PresentationTable(t.presentation) ELSE t[k]]]

Encode(t) == IF WellFormed(t) THEN <<Document(t, "1.4")>> ELSE << >>

ParsePresentation(q) ==
    [k \in PresentationKeys \cup {"late", "intolerable"} |->
        CASE k = "late" -> IF "tolerated" \in DOMAIN q THEN q.tolerated ELSE 0
          [] k = "intolerable" -> FALSE
          [] OTHER -> q[k]]

Unsaid == [presentation |-> Fields(NewReport("none", "not_requested")), traversal |-> Unset,
           playback |-> Unset, linear |-> FALSE, reasons |-> {}, paused |-> FALSE,
           interruptions |-> 0]
Parsed(document) ==
    [k \in Keys("1.4") |->
        IF k \notin DOMAIN document.body THEN Unsaid[k]
        ELSE IF k = "presentation" THEN ParsePresentation(document.body[k])
        ELSE document.body[k]]

\* << >>: refused.
Decode(document) ==
    IF /\ document.schema \in Schemas /\ DOMAIN document.body = Keys(document.schema)
       /\ "presentation" \in DOMAIN document.body =>
            DOMAIN document.body.presentation \ {"tolerated"} = PresentationKeys
       /\ WellFormed(Parsed(document))
    THEN <<Parsed(document)>> ELSE << >>

\* What one reading and another have in common: tolerated_late_frames() stands for the delays.
Same(t, u) ==
    /\ [t EXCEPT !.presentation = 0] = [u EXCEPT !.presentation = 0]
    /\ PresentationTable(t.presentation) = PresentationTable(u.presentation)
----------------------------------------------------------------------------
NoResult == << >>
Over == result # NoResult

Init ==
    /\ window \in {"none", "failed", "open"}
    /\ ctl \in {Prepared(NewController(last)).ctl : last \in IF window = "open" THEN BOOLEAN ELSE {FALSE}}
    /\ report \in CASE window = "none" -> {NewReport("none", "not_requested")}
                    [] window = "failed" -> {NewReport("visible", "window_creation_failed")}
                    [] OTHER -> {NewReport("visible", code) :
                                    code \in {"presented", "audible_output_unavailable"}}
    /\ health = "healthy" /\ consumed = 0 /\ keys = 0 /\ missed = {} /\ seen = {}
    /\ result = NoResult /\ channel = << >>

\* finish(): `c' is the controller then, `r' the report, `lossFree' whether every fact and
\* sample arrived.  The terminal is sent if it can be encoded.
Finish(c, r, n, cancelled, lossFree) ==
    LET early == cancelled /\ ~c.ended
        rep == [r EXCEPT !.cancelled = IF window = "open" THEN early ELSE @]
        ok == lossFree /\ ~early /\ Complete(Fields(rep))
        code == IF ~lossFree /\ ~early THEN "audio_trace_incomplete"
                ELSE IF early THEN "replay_cancelled"
                ELSE IF ok THEN "replay_evidence_streamed" ELSE "presentation_incomplete"
        base == [presentation |-> Fields(rep), frames |-> Frames, consumed |-> n, ok |-> ok,
                 code |-> code, trace |-> [facts |-> 1, lossFree |-> lossFree],
                 traversal |-> Unset, playback |-> Unset, linear |-> FALSE,
                 reasons |-> IF ~lossFree /\ early THEN {"audio_trace_incomplete"} ELSE {},
                 paused |-> FALSE, interruptions |-> IF health = "healthy" THEN 0 ELSE 1]
        said == DescribeTerminal(base, early, c.inspected)
        t == [said EXCEPT !.playback = IF early /\ ctl.phase = "interrupted"
                                       THEN "interrupted" ELSE @,
                          !.paused = c.ended /\ (c.last \/ c.phase = "paused")] IN
    /\ report' = rep
    /\ result' = <<t>>
    /\ channel' = Encode(t)

GoesOn == UNCHANGED <<result, channel>>

\* The loop's turn: the next frame is produced and shown, and perhaps late.  The last frame
\* of the last take confirms the result at once.
PlayFrame ==
    /\ ~Over /\ health = "healthy"
    /\ ctl.phase \in {"playing", "pausing"} /\ ~TakeEndPending(ctl)
    /\ \E outcome \in Outcomes1, cadence \in {"on time", "late", "far too late"},
          lossFree \in BOOLEAN :
         LET frame == NextFrame(ctl)
             answer == FrameCompleted(ctl, frame)
             n == IF frame = consumed THEN consumed + 1 ELSE consumed
             r == ReportShown(report, frame, TRUE, outcome)
             timed == IF answer.ctl.phase = "playing" /\ window # "none" /\ cadence # "on time"
                      THEN Late(r, frame, cadence = "far too late") ELSE r
             confirmed == answer.commands # << >>
                          /\ answer.commands[1].kind = "confirm_linear_result" IN
         /\ frame \in 0..(Frames - 1)
         /\ ctl' = answer.ctl
         /\ consumed' = n
         /\ health' = HealthShown(health, outcome)
         /\ missed' = missed \cup (IF outcome = "presented" THEN {} ELSE {frame})
         /\ seen' = seen \cup SeenOf({frame}, n, outcome)
         /\ UNCHANGED <<window, keys>>
         /\ IF confirmed THEN Finish(answer.ctl, timed, n, FALSE, lossFree)
            ELSE GoesOn /\ report' = Showing(timed, Shows(answer.ctl, answer.commands), n, outcome)

\* A key of an open window.  A recovery shows the frame it leaves, produces the frames up to
\* its target silently and succeeds at once.
PressKey ==
    /\ ~Over /\ window = "open" /\ keys < MaxKeys
    /\ keys' = keys + 1
    /\ \E action \in KeyActions, outcome \in Outcomes1, lossFree \in BOOLEAN :
         LET answer == Key(ctl, action)
             there == IF answer.ctl.phase = "recovering"
                      THEN RecoveryFinished(answer.ctl, "presented") ELSE answer
             left == IF answer.ctl.phase = "recovering" THEN {Shown(ctl)} ELSE {}
             n == IF left = {} THEN consumed ELSE Max({consumed, answer.ctl.target + 1})
             frames == Shows(there.ctl, there.commands) IN
         /\ ctl' = there.ctl
         /\ consumed' = n
         /\ health' = IF frames = {} \/ n = 0 THEN health ELSE HealthShown(health, outcome)
         /\ seen' = seen \cup SeenOf(frames, n, outcome)
         /\ UNCHANGED <<window, missed>>
         /\ IF there.ctl.phase = "closing"
            THEN Finish(there.ctl, report, n, FALSE, lossFree)
            ELSE GoesOn /\ report' = Showing(Showing(report, left, consumed, outcome),
                                            frames, n, outcome)

\* The window is minimized or its audio device goes.
Lose ==
    /\ ~Over /\ window = "open" /\ health = "healthy"
    /\ health' \in {"window_minimized", "audio_device_removed"}
    /\ UNCHANGED <<ctl, window, report, consumed, keys, missed, seen, result, channel>>

\* Plan 5.10: a loss stops the take and is its reason, recovered or not.
AttendHealth ==
    /\ ~Over /\ health # "healthy" /\ ctl.phase \notin {"interrupted", "closing"}
    /\ ctl' = PresentationInterrupted(ctl).ctl
    /\ report' = Interrupted(report, health)
    /\ GoesOn /\ UNCHANGED <<window, health, consumed, keys, missed, seen>>

RecoverHealth ==
    /\ ~Over /\ ctl.phase = "interrupted" /\ health # "healthy"
    /\ \E outcome \in Outcomes1 :
         LET answer == PresentationRecovered(ctl) IN
         /\ ctl' = answer.ctl
         /\ report' = Showing(report, Shows(answer.ctl, answer.commands), consumed, outcome)
         /\ health' = IF consumed = 0 THEN "healthy" ELSE HealthShown("healthy", outcome)
    /\ GoesOn /\ UNCHANGED <<window, consumed, keys, missed, seen>>

\* The next take's slot comes after the last frame of an intermediate take.
ReachSlot ==
    /\ ~Over /\ TakeEndPending(ctl) /\ health = "healthy"
    /\ ctl' = TakeSlotReached(ctl).ctl
    /\ \E lossFree \in BOOLEAN : Finish(ctl', report, consumed, FALSE, lossFree)
    /\ UNCHANGED <<window, health, consumed, keys, missed, seen>>

\* The supervisor cancels, or the window is closed: attended before the health.
Stop ==
    /\ ~Over
    /\ \E lossFree \in BOOLEAN : Finish(Cancel(ctl).ctl, report, consumed, TRUE, lossFree)
    /\ ctl' = Cancel(ctl).ctl
    /\ UNCHANGED <<window, health, consumed, keys, missed, seen>>

Next == PlayFrame \/ PressKey \/ Lose \/ AttendHealth \/ RecoverHealth \/ ReachSlot \/ Stop
Spec == Init /\ [][Next]_vars
----------------------------------------------------------------------------
\* However a take ends (shown late, missed in part, interrupted, inspected out of order,
\* cancelled at any point), the terminal that describes it is one the encoder accepts and the
\* supervisor reads back as it was said; the terminal of an earlier Runtime is read as one that
\* says nothing of what its schema lacks, and never as a completed linear playback.
EveryEndIsReported ==
    Over => /\ channel # << >> /\ Decode(channel[1]) # << >>
            /\ Same(Decode(channel[1])[1], result[1])
            /\ \A schema \in {"1.2", "1.3"} :
                 Decode(Document(result[1], schema)) # << >> =>
                    ~Decode(Document(result[1], schema))[1].linear

\* A take reported as succeeded was seen whole: each of its frames was shown, no visit of the
\* playback missed one, and no loss of the presentation was attended, however much of it was
\* inspected again and whatever delays were tolerated.
SucceededWasSeen ==
    (Over /\ result[1].ok /\ window # "none") =>
        /\ seen = 0..(Frames - 1)
        /\ missed = {}
        /\ ~report.intolerable
=============================================================================
