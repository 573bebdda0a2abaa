------------------------------ MODULE PadTimeline ------------------------------
(***************************************************************************)
(* A pad timeline: the text that drives the game instead of a recorded     *)
(* take.  The supervisor parses it and compiles it with the slowest and    *)
(* the fastest timing a core reports (inspect_timeline); the Runtime       *)
(* parses it again, compiles it with the timing of its core and plays it   *)
(* frame by frame.  A line is its keyword and its tokens; comments, blanks *)
(* and the case of the letters are left out.                               *)
(***************************************************************************)
EXTENDS Naturals, Sequences, FiniteSets
LOCAL INSTANCE SequencesExt
CONSTANTS Lines,          \* the lines that may be written
          MaxLines,       \* the longest text that is written
          MaxTextLines,   \* max_timeline_bytes, in lines
          MaxSteps,       \* max_timeline_steps
          MaxFrames,      \* max_recording_frames
          MaxMs,          \* max_step_seconds, in milliseconds
          MaxDurationMs,  \* max_replay_duration_seconds, in milliseconds
          MinFps, MaxFps  \* timeline_preflight_fps_min and _max
VARIABLES lines,      \* the text
          inspected,  \* what inspect_timeline said
          fps,        \* the timing of the core (0 before the core is loaded)
          outcome,    \* what the session said of the timeline
          compiled,   \* what it compiled
          cursor,     \* the next frame of the input source
          played      \* the buttons of each frame delivered

vars == <<lines, inspected, fps, outcome, compiled, cursor, played>>

DefaultPressFrames == 4

\* The bit of the RetroPad each Genesis button has.
Bit == [a |-> 1, b |-> 0, c |-> 8, x |-> 10, y |-> 9, z |-> 11, start |-> 3, mode |-> 2,
        up |-> 4, down |-> 5, left |-> 6, right |-> 7]

(* A token is a word: the names joined with `+' in it, or a number and its unit. *)
Duration(unit, frames, ms) == [unit |-> unit, frames |-> frames, ms |-> ms]

\* The duration a token spells, as a sequence of at most one.
ParseDuration(token) ==
    IF token.unit = "f"
    THEN IF token.n \in 1..MaxFrames THEN <<Duration("frames", token.n, 0)>> ELSE << >>
    ELSE IF token.unit \in {"s", "ms"}
    THEN LET ms == IF token.unit = "s" THEN 1000 * token.n ELSE token.n
         IN  IF ms \in 1..MaxMs THEN <<Duration("seconds", 0, ms)>> ELSE << >>
    ELSE << >>

\* The bits a token names, as a sequence of at most one set: every name is a
\* button and none is named twice.
ParseButtons(token) ==
    LET names == token.names
    IN  IF /\ names # << >>
           /\ ToSet(names) \subseteq DOMAIN Bit
           /\ Cardinality(ToSet(names)) = Len(names)
        THEN <<{Bit[n] : n \in ToSet(names)}>> ELSE << >>

NewParse == [error |-> "none", line |-> 0, started |-> FALSE, start |-> "power_on",
             held |-> {}, steps |-> << >>]
Failed(p, error, i) == [p EXCEPT !.error = error, !.line = i]
Step(kind, buttons, duration, i) ==
    [kind |-> kind, buttons |-> buttons, duration |-> duration, line |-> i]
Pushed(p, step) == [p EXCEPT !.steps = Append(@, step)]

ParseStart(p, l, i) ==
    LET kind == IF l.tokens = << >> THEN << >> ELSE l.tokens[1].names
    IN  IF p.started THEN Failed(p, "start_repeated", i)
        ELSE IF p.steps # << >> THEN Failed(p, "start_not_first", i)
        ELSE IF kind = <<"power_on">>
             THEN IF Len(l.tokens) > 1 THEN Failed(p, "unexpected_argument", i)
                  ELSE [p EXCEPT !.started = TRUE]
        ELSE IF kind = <<"state">> /\ Len(l.tokens) > 1
             THEN [p EXCEPT !.started = TRUE, !.start = "state"]
        ELSE Failed(p, "invalid_start", i)

ParseWait(p, l, i) ==
    IF l.tokens = << >> THEN Failed(p, "missing_duration", i)
    ELSE IF Len(l.tokens) > 1 THEN Failed(p, "unexpected_argument", i)
    ELSE LET d == ParseDuration(l.tokens[1])
         IN  IF d = << >> THEN Failed(p, "invalid_duration", i)
             ELSE Pushed(p, Step("wait", {}, d[1], i))

ParsePress(p, l, buttons, i) ==
    IF Len(l.tokens) = 1
    THEN IF l.keyword = "hold" THEN Failed(p, "missing_duration", i)
         ELSE Pushed(p, Step("press", buttons, Duration("frames", DefaultPressFrames, 0), i))
    ELSE LET d == ParseDuration(l.tokens[2])
         IN  IF d = << >> THEN Failed(p, "invalid_duration", i)
             ELSE Pushed(p, Step("press", buttons, d[1], i))

ParseDownUp(p, l, buttons, i) ==
    IF Len(l.tokens) > 1 THEN Failed(p, "unexpected_argument", i)
    ELSE IF l.keyword = "down"
    THEN IF p.held \cap buttons # {} THEN Failed(p, "button_already_down", i)
         ELSE [Pushed(p, Step("down", buttons, Duration("none", 0, 0), i)) EXCEPT !.held = @ \cup buttons]
    ELSE IF ~(buttons \subseteq p.held) THEN Failed(p, "button_not_down", i)
         ELSE [Pushed(p, Step("up", buttons, Duration("none", 0, 0), i)) EXCEPT !.held = @ \ buttons]

ParseLine(p, l, i) ==
    IF p.error # "none" THEN p
    ELSE IF l.keyword = "start" THEN ParseStart(p, l, i)
    ELSE IF Len(p.steps) = MaxSteps THEN Failed(p, "too_many_steps", i)
    ELSE IF l.keyword = "wait" THEN ParseWait(p, l, i)
    ELSE IF l.keyword \notin {"press", "hold", "down", "up"} THEN Failed(p, "unknown_keyword", i)
    ELSE IF l.tokens = << >> \/ ParseButtons(l.tokens[1]) = << >> THEN Failed(p, "unknown_button", i)
    ELSE IF Len(l.tokens) > 2 THEN Failed(p, "unexpected_argument", i)
    ELSE LET buttons == ParseButtons(l.tokens[1])[1]
         IN  IF l.keyword \in {"press", "hold"} THEN ParsePress(p, l, buttons, i)
             ELSE ParseDownUp(p, l, buttons, i)

Parse(text) ==
    LET upTo[i \in 0..Len(text)] ==
            IF i = 0 THEN NewParse ELSE ParseLine(upTo[i - 1], text[i], i)
        p == upTo[Len(text)]
    IN  IF Len(text) > MaxTextLines THEN Failed(NewParse, "file_too_large", 0)
        ELSE IF p.error = "none" /\ p.steps = << >> THEN Failed(p, "no_steps", 0)
        ELSE p

(* Compilation: one mask per frame, with the timing the core reports. *)

\* llround(seconds * fps)
Rounded(ms, rate) == (2 * ms * rate + 1000) \div 2000
StepFrames(d, rate) == IF d.unit = "frames" THEN d.frames ELSE Rounded(d.ms, rate)

FrameMask(held, step) == IF step.kind = "press" THEN held \cup step.buttons ELSE held

NewCompiled == [error |-> "none", line |-> 0, held |-> {}, buttons |-> << >>, spans |-> << >>]
CompileStep(c, steps, i, rate) ==
    LET step == steps[i]
        frames == StepFrames(step.duration, rate)
    IN  IF c.error # "none" THEN c
        ELSE IF step.kind = "down" THEN [c EXCEPT !.held = @ \cup step.buttons]
        ELSE IF step.kind = "up" THEN [c EXCEPT !.held = @ \ step.buttons]
        ELSE IF frames = 0 THEN [c EXCEPT !.error = "duration_rounds_to_zero", !.line = step.line]
        ELSE IF Len(c.buttons) + frames > MaxFrames
             THEN [c EXCEPT !.error = "too_many_frames", !.line = step.line]
        ELSE [c EXCEPT
                !.spans = Append(@, [step |-> i, first |-> Len(c.buttons), frames |-> frames]),
                !.buttons = @ \o [f \in 1..frames |-> FrameMask(c.held, step)]]

Compile(steps, rate) ==
    LET upTo[i \in 0..Len(steps)] ==
            IF i = 0 THEN NewCompiled ELSE CompileStep(upTo[i - 1], steps, i, rate)
        c == upTo[Len(steps)]
    IN  IF rate = 0 THEN [NewCompiled EXCEPT !.error = "invalid_fps"]
        ELSE IF c.error = "none" /\ Len(c.buttons) < 1 THEN [c EXCEPT !.error = "no_frames"]
        ELSE c

\* The two bytes of a frame, the low one first, and what the input source makes of them.
LowByte(mask) == {bit \in mask : bit < 8}
HighByte(mask) == {bit - 8 : bit \in mask \ LowByte(mask)}
InputBytes(c) == [k \in 1..(2 * Len(c.buttons)) |->
                    LET mask == c.buttons[(k + 1) \div 2]
                    IN  IF k % 2 = 1 THEN LowByte(mask) ELSE HighByte(mask)]
ReadInput(bytes, frame) ==
    bytes[2 * frame + 1] \cup {bit + 8 : bit \in bytes[2 * frame + 2]}

\* timeline_position: the step a frame belongs to and how many frames of it are left.
Position(c, frame) ==
    {[step |-> s.step, remaining |-> s.first + s.frames - frame] :
        s \in {t \in ToSet(c.spans) : frame >= t.first /\ frame - t.first < t.frames}}

\* validate_replay_duration: frames / fps in milliseconds, compared without rounding.
TooLong(frames, rate) == 1000 * frames > MaxDurationMs * rate

\* inspect_timeline, and timeline_duration_issue when the core's timing is known.
Inspect(p) ==
    LET slowest == Compile(p.steps, MinFps).error
        fastest == Compile(p.steps, MaxFps).error
    IN  IF p.error # "none" THEN "timeline_syntax_invalid"
        ELSE IF slowest = "duration_rounds_to_zero" THEN "timeline_syntax_invalid"
        ELSE IF slowest = "no_frames" THEN "timeline_empty"
        ELSE IF fastest = "too_many_frames" THEN "timeline_too_long"
        ELSE IF fastest # "none" THEN "timeline_syntax_invalid"
        ELSE "none"
DurationIssue(p, rate) ==
    LET c == Compile(p.steps, rate)
    IN  IF c.error = "invalid_fps" THEN "core_timing_unknown"
        ELSE IF c.error = "too_many_frames" THEN "timeline_too_long"
        ELSE IF c.error # "none" THEN "timeline_empty"
        ELSE IF TooLong(Len(c.buttons), rate) THEN "timeline_too_long" ELSE "none"

Init ==
    /\ lines = << >> /\ inspected = "none_yet" /\ fps = 0
    /\ outcome = "unread" /\ compiled = NewCompiled /\ cursor = 0 /\ played = << >>

\* The text grows as long as it can still be read: what follows the line that
\* stopped the parser is never looked at.
Write ==
    /\ inspected = "none_yet" /\ Len(lines) < MaxLines
    /\ Parse(lines).error \in {"none", "no_steps"}
    /\ \E l \in Lines : lines' = Append(lines, l)
    /\ UNCHANGED <<inspected, fps, outcome, compiled, cursor, played>>

Preflight ==
    /\ inspected = "none_yet"
    /\ inspected' = Inspect(Parse(lines))
    /\ UNCHANGED <<lines, fps, outcome, compiled, cursor, played>>

\* The core answers with its timing; the supervisor checks the duration with it.
CoreTiming ==
    /\ inspected = "none" /\ fps = 0
    /\ \E rate \in MinFps..MaxFps :
        /\ fps' = rate
        /\ inspected' = LET issue == DurationIssue(Parse(lines), rate)
                        IN  IF issue = "none" THEN "admitted" ELSE issue
    /\ UNCHANGED <<lines, outcome, compiled, cursor, played>>

\* The session: read_timeline_material, compile, the duration, the input source.
Prepare ==
    /\ inspected = "admitted" /\ outcome = "unread"
    /\ LET p == Parse(lines)
           c == Compile(p.steps, fps)
       IN  /\ outcome' = IF p.error # "none" THEN "timeline_syntax_invalid"
                         ELSE IF c.error # "none" THEN "timeline_compile_failed"
                         ELSE IF TooLong(Len(c.buttons), fps) THEN "recording_duration_too_long"
                         ELSE "ready"
           /\ compiled' = c
    /\ UNCHANGED <<lines, inspected, fps, cursor, played>>

PlayFrame ==
    /\ outcome = "ready" /\ cursor < Len(compiled.buttons)
    /\ played' = Append(played, ReadInput(InputBytes(compiled), cursor))
    /\ cursor' = cursor + 1
    /\ UNCHANGED <<lines, inspected, fps, outcome, compiled>>

Next == Write \/ Preflight \/ CoreTiming \/ Prepare \/ PlayFrame
Spec == Init /\ [][Next]_vars

--------------------------------------------------------------------------------
(* What the lines ask for, read from the text alone. *)
Names(i) == LET token == lines[i].tokens[1] IN {Bit[n] : n \in ToSet(token.names)}
Asks(i, keyword, bit) == lines[i].keyword = keyword /\ bit \in Names(i)
DownBefore(i) ==
    {bit \in 0..11 : Cardinality({j \in 1..(i - 1) : Asks(j, "down", bit)}) >
                     Cardinality({j \in 1..(i - 1) : Asks(j, "up", bit)})}
LastsTokens(i) == IF lines[i].keyword = "wait" THEN lines[i].tokens ELSE Tail(lines[i].tokens)
Lasts(i) ==
    IF lines[i].keyword \notin {"wait", "press", "hold"} THEN 0
    ELSE IF LastsTokens(i) = << >> THEN DefaultPressFrames
    ELSE LET t == LastsTokens(i)[1]
         IN  IF t.unit = "f" THEN t.n
             ELSE (2 * (IF t.unit = "s" THEN 1000 ELSE 1) * t.n * fps + 1000) \div 2000
Starts[i \in 1..(MaxLines + 1)] == IF i <= 1 THEN 0 ELSE Starts[i - 1] + Lasts(i - 1)
AskedAt(i) == DownBefore(i) \cup (IF lines[i].keyword \in {"press", "hold"} THEN Names(i) ELSE {})

(***************************************************************************)
(* The game sees what the text asks for: at every frame the buttons played *)
(* are the ones held down by the lines before, together with the ones the  *)
(* line of that frame presses; the position shown for the frame is that    *)
(* line, and the whole text takes as many frames as its lines ask for.     *)
(***************************************************************************)
PlayedAsWritten ==
    outcome = "ready" =>
        /\ \A f \in 0..(cursor - 1), i \in DOMAIN lines :
              (Starts[i] <= f /\ f < Starts[i] + Lasts(i)) =>
                  /\ played[f + 1] = AskedAt(i)
                  /\ {Parse(lines).steps[p.step].line : p \in Position(compiled, f)} = {i}
                  /\ {p.remaining : p \in Position(compiled, f)} = {Starts[i] + Lasts(i) - f}
        /\ Len(compiled.buttons) = Starts[Len(lines) + 1]

(***************************************************************************)
(* What the supervisor admits the Runtime can play: a timeline that passed *)
(* inspect_timeline compiles with every timing between the slowest and the *)
(* fastest it was tried with; at most its duration may still be refused,   *)
(* by the supervisor, before the Runtime starts.                           *)
(***************************************************************************)
AdmittedCompiles ==
    /\ inspected \in {"none", "none_yet", "admitted", "timeline_syntax_invalid", "timeline_empty",
                      "timeline_too_long"}
    /\ fps # 0 => Compile(Parse(lines).steps, fps).error = "none"
    /\ outcome \in {"unread", "ready"}
================================================================================
