------------------------ MODULE InspectionController ------------------------
(***************************************************************************)
(* The controller of a replay that can be inspected                        *)
(* (src/replay_inspection/inspection_state.cpp): a pure state machine that *)
(* answers every key, completed frame, recovery and loss with commands for *)
(* the session that owns it.  The overlay's visibility is left out: only   *)
(* its event matters here.                                                 *)
(***************************************************************************)
EXTENDS Integers, Sequences

CONSTANT Frames      \* frames of the take
ASSUME FramesAssumption == Frames \in Nat \ {0}

None == -1           \* an absent optional<uint32_t>

Phases == {"preparing", "playing", "pausing", "paused", "recovering", "interrupted",
           "closing", "failed"}
KeyActions == {"toggle", "left", "right", "info"}
Outcomes == {"presented", "failed_restored", "failed_unrecoverable"}

Controllers ==
    [phase : Phases, position : None..(Frames - 1), target : None..(Frames - 1),
     inspected : BOOLEAN, ended : BOOLEAN, endPending : BOOLEAN, last : BOOLEAN]

NewController(last) ==
    [phase |-> "preparing", position |-> None, target |-> None, inspected |-> FALSE,
     ended |-> FALSE, endPending |-> FALSE, last |-> last]

\* position_.value_or(0U), and next_frame().
Shown(c) == IF c.position = None THEN 0 ELSE c.position
NextFrame(c) == c.position + 1
TakeEndPending(c) == c.phase = "playing" /\ c.endPending

Command(kind, frame) == [kind |-> kind, frame |-> frame, control |-> kind]
Event(control, frame) == [kind |-> "inspection_event", frame |-> frame, control |-> control]
Answer(c, commands) == [ctl |-> c, commands |-> commands]
Ignored(c) == Answer(c, << >>)

Prepared(c) == Ignored([c EXCEPT !.phase = IF @ = "preparing" THEN "playing" ELSE @])

PauseAt(c, frame) ==
    Answer([c EXCEPT !.phase = "paused", !.position = frame],
           <<Command("present_frame", frame), Command("pause_audio", frame),
             Event("pause", frame)>>)

\* Space in pause: the linear playback goes on, the next take starts, or there is none.
ToggleInPause(c) ==
    LET frame == Shown(c) IN
    IF frame + 1 < Frames /\ ~c.ended
    THEN Answer([c EXCEPT !.phase = "playing"],
                <<Command("resume_audio", frame + 1), Event("resume", frame)>>)
    ELSE IF c.last THEN Answer(c, <<Command("notice", 0)>>)
    ELSE Answer([c EXCEPT !.phase = "closing"],
                <<Event("advance_take", frame), Command("advance_take", frame)>>)

\* Fault: stepping does not mark the traversal as inspected.
StepUnmarked(c, control, target) ==
    IF target \notin 0..(Frames - 1) THEN Ignored(c)
    ELSE Answer([c EXCEPT !.target = target, !.phase = "recovering"],
                <<Command("recover_frame", target), Event(control, target)>>)

StepInPause(c, control, target) ==
    IF target \notin 0..(Frames - 1) THEN Ignored(c)
    ELSE Answer([c EXCEPT !.target = target, !.phase = "recovering", !.inspected = TRUE],
                <<Command("recover_frame", target), Event(control, target)>>)

Key(c, action) ==
    IF c.phase \in {"closing", "failed"} THEN Ignored(c)
    ELSE IF action = "info"
    THEN IF c.phase = "preparing" THEN Ignored(c)
         ELSE Answer(c, <<Command("toggle_debug", Shown(c))>>)
    ELSE IF c.phase = "playing"
    THEN IF action # "toggle" THEN Ignored(c)
         ELSE IF c.position # None THEN PauseAt(c, c.position)
         ELSE Ignored([c EXCEPT !.phase = "pausing"])
    ELSE IF c.phase = "paused"
    THEN CASE action = "toggle" -> ToggleInPause(c)
           [] action = "left" -> StepInPause(c, "step_back", Shown(c) - 1)
           [] action = "right" -> StepInPause(c, "step_forward", Shown(c) + 1)
    ELSE IF c.phase = "recovering" \/ action = "toggle"
    THEN Answer(c, <<Command("notice", 0)>>)
    ELSE Ignored(c)

FrameCompleted(c, frame) ==
    LET at == [c EXCEPT !.position = frame]
        over == [at EXCEPT !.ended = TRUE] IN
    IF c.phase \notin {"playing", "pausing"} THEN Ignored(c)
    ELSE IF c.phase = "pausing" THEN PauseAt(IF frame + 1 < Frames THEN at ELSE over, frame)
    ELSE IF frame + 1 < Frames THEN Ignored(at)
    ELSE IF ~c.last THEN Ignored([over EXCEPT !.endPending = TRUE])
    ELSE Answer([over EXCEPT !.phase = "paused"],
                <<Command("confirm_linear_result", frame), Command("present_frame", frame),
                  Command("pause_audio", frame)>>)

RecoveryFinished(c, outcome) ==
    LET free == [c EXCEPT !.target = None] IN
    IF c.phase # "recovering" \/ c.target = None THEN Ignored(c)
    ELSE CASE outcome = "presented" ->
                Answer([free EXCEPT !.phase = "paused", !.position = c.target],
                       <<Command("present_frame", c.target)>>)
           [] outcome = "failed_restored" ->
                Answer([free EXCEPT !.phase = "paused"],
                       <<Command("notice", 0), Command("present_frame", Shown(c))>>)
           [] outcome = "failed_unrecoverable" ->
                Answer([free EXCEPT !.phase = "failed"],
                       <<Command("finish_traversal", Shown(c))>>)

PresentationInterrupted(c) ==
    IF c.phase \in {"closing", "failed"} THEN Ignored(c)
    ELSE Answer([c EXCEPT !.phase = "interrupted", !.target = None],
                <<Event("interrupted", Shown(c))>>)

PresentationRecovered(c) ==
    IF c.phase # "interrupted" THEN Ignored(c)
    ELSE Answer([c EXCEPT !.phase = "paused"],
                <<Event("recovered", Shown(c)), Command("present_frame", Shown(c))>>)

TakeSlotReached(c) ==
    IF ~TakeEndPending(c) THEN Ignored(c)
    ELSE Answer([c EXCEPT !.phase = "closing", !.endPending = FALSE],
                <<Command("advance_take", Shown(c))>>)

Cancel(c) == Answer([c EXCEPT !.phase = "closing", !.target = None],
                    <<Command("close", Shown(c))>>)
=============================================================================
