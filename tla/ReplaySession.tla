---------------------------- MODULE ReplaySession ----------------------------
(***************************************************************************)
(* The Runtime's session of one take (src/audio_qa_runtime_session.cpp):   *)
(* one thread polls the supervisor's cancellation, attends the window,     *)
(* plays or recovers frames, and sends the supervisor its terminal.  After *)
(* the confirmed end of the last take the window stays open, and navigation*)
(* from there is a run of its own.  The Engine, the window and the user    *)
(* are external: any key, loss, failure or cancellation may come.          *)
(***************************************************************************)
EXTENDS InspectionController, FiniteSets, FiniteSetsExt

CONSTANTS Interval,       \* a checkpoint every Interval frames
          Capacity,       \* checkpoints the budget holds besides the initial one
          BatchCapacity,  \* facts the writer gathers before it sends them; 256 in the code
          MaxInputs,      \* bound on keys and window events
          MaxFaults       \* bound on failures of the Engine and losses of the presentation
ASSUME SessionAssumption ==
    /\ {Interval, BatchCapacity} \subseteq Nat \ {0}
    /\ {Capacity, MaxInputs, MaxFaults} \subseteq Nat

Lost == -2                \* the Engine holds no known frame

VARIABLES pc,             \* where the session's thread is
          take,           \* its place in the request: last, and whether it closes at its end
          ctl,            \* the InspectionController
          session,        \* the Engine session and the linear loop that drives it
          ring,           \* frames of the checkpoints kept
          health,         \* PresentationHealth
          flags,          \* the loop's own variables
          wire,           \* the writer of the data channel and the supervisor that reads it
          terminals,      \* the results sent
          events,         \* inspection events, in order
          heard,          \* frames produced audibly, and after how many events
          cancel,         \* the supervisor cancelled or closed the control channel
          bounds          \* inputs and faults so far
vars == <<pc, take, ctl, session, ring, health, flags, wire, terminals, events, heard,
          cancel, bounds>>

Fault == bounds.faults < MaxFaults
Faulted(n) == bounds' = [bounds EXCEPT !.faults = @ + n]

(***************************************************************************)
(* The data channel.  Each message carries the writer's next number; the   *)
(* supervisor expects consecutive ones.  `ahead' is the difference.  A     *)
(* terminal sent with send_result takes a number and does not advance it.  *)
(***************************************************************************)
Reading == {"take", "paused"}
Received(w, m) ==
    IF w.mode \notin Reading THEN w
    ELSE IF w.ahead # 0 THEN [w EXCEPT !.mode = "invalid"]
    ELSE
    CASE m.type = "status" -> w
      [] m.type = "facts" /\ w.mode = "take" -> w
      [] m.type = "facts" /\ w.mode = "paused" /\ w.post \in {"open", "spoiled"} ->
            [w EXCEPT !.post = IF m.runs = {"post"} THEN @ ELSE "spoiled"]
      [] m.type = "opened" /\ w.mode = "paused" /\ w.post \in {"none", "closed"} ->
            [w EXCEPT !.post = "open"]
      [] m.type = "terminal" /\ w.mode = "take" ->
            [w EXCEPT !.mode = IF m.paused THEN "paused" ELSE "done"]
      [] m.type = "terminal" /\ w.mode = "paused" /\ w.post \in {"open", "spoiled"}
                /\ m.run = "post" ->
            [w EXCEPT !.post = IF @ = "open" THEN "closed" ELSE @]
      [] OTHER -> [w EXCEPT !.mode = "invalid"]

Sent(w, m) == Received(w, m)
SentUnnumbered(w, m) == [Received(w, m) EXCEPT !.ahead = @ - 1]
Status(w) == Sent(w, [type |-> "status"])
Flushed(w) ==
    IF w.pending = {} THEN w
    ELSE [Sent(w, [type |-> "facts", runs |-> w.pending]) EXCEPT !.pending = {}, !.facts = 0]

\* push_fact, n times: the fact that fills the batch sends it.  While the observation lasts
\* the Engine's facts fill the same batch, and EngineFacts says when it is sent.
Pushed(w, run, n) ==
    LET filled == w.facts + n
        full == [w EXCEPT !.pending = @ \cup {run}] IN
    IF w.stopped THEN
        IF filled < BatchCapacity THEN [full EXCEPT !.facts = filled]
        ELSE [Flushed(full) EXCEPT !.facts = filled % BatchCapacity,
                                   !.pending = IF filled % BatchCapacity = 0 THEN {} ELSE {run}]
    ELSE full

\* stop_observation: the worker ends, what it queued is drained and flushed.
Stopped(w) == IF w.stopped THEN w ELSE [Flushed(w) EXCEPT !.stopped = TRUE]

\* `after' is not sent: how many events came before it.
Terminal(run, playback, linear, ok, paused) ==
    [type |-> "terminal", run |-> run, playback |-> playback, linear |-> linear,
     ok |-> ok, paused |-> paused, after |-> Len(events)]

\* current_run_id, and emit_event: a control is a fact of the run that is current now.
RunOf(f) == IF f.post = 0 THEN "take" ELSE "post"
Emitted(run, control, before, after) ==
    [run |-> run, control |-> control, before |-> before, after |-> after]

(***************************************************************************)
(* apply: what the session does with the commands of the controller.       *)
(***************************************************************************)
EventOf(run, command) ==
    CASE command.kind = "toggle_debug" ->
            Emitted(run, "overlay_toggle", command.frame, command.frame)
      [] command.control \in {"step_back", "step_forward"} ->
            Emitted(run, command.control, Shown(ctl), command.frame)
      [] OTHER -> Emitted(run, command.control, command.frame, command.frame)
EventsOf(run, commands) ==
    LET emitting == {i \in 1..Len(commands) :
                        commands[i].kind \in {"inspection_event", "toggle_debug"}}
        nth(n) == CHOOSE i \in emitting : Cardinality({j \in emitting : j < i}) = n - 1
    IN [n \in 1..Cardinality(emitting) |-> EventOf(run, commands[nth(n)])]

Has(commands, kind) == \E i \in 1..Len(commands) : commands[i].kind = kind
Ends == {"advance_take", "finish_traversal", "close"}

\* w, s and f are the channel, the session and the flags before the commands; `more'
\* the events emitted before them.
Apply(answer, w, s, f, more) ==
    LET cmds == answer.commands
        emitted == more \o EventsOf(RunOf(f), cmds) IN
    /\ ctl' = answer.ctl
    /\ events' = events \o emitted
    /\ wire' = IF emitted = << >> THEN w ELSE Pushed(w, RunOf(f), Len(emitted))
    /\ session' = [s EXCEPT !.audible = @ \/ Has(cmds, "resume_audio")]
    /\ flags' = [f EXCEPT
            !.pausedAtEnd = @ \/ Has(cmds, "confirm_linear_result")
                \/ \E i \in 1..Len(cmds) :
                        cmds[i].kind = "pause_audio" /\ cmds[i].frame + 1 = Frames,
            !.failed = @ \/ Has(cmds, "finish_traversal"),
            !.done = @ \/ \E kind \in Ends : Has(cmds, kind)]

(***************************************************************************)
(* Results.                                                                *)
(***************************************************************************)
Playback(cancelled) ==
    IF cancelled THEN "cancelled"
    ELSE IF session.completed = Frames THEN "natural_end" ELSE "failed"

\* send_result through fail_session: stop_capture does nothing once observation stopped.
FailSession(s) ==
    LET linear == s.completed = Frames /\ ~ctl.inspected
        m == Terminal("take", IF s.completed = Frames THEN "natural_end" ELSE "failed",
                      linear, FALSE, FALSE) IN
    /\ session' = IF wire.stopped THEN s ELSE [s EXCEPT !.open = FALSE]
    /\ wire' = SentUnnumbered(Stopped(wire), m)
    /\ terminals' = Append(terminals, m)

(***************************************************************************)
(* Before the loop: the admission, the material, and the Engine prepared   *)
(* for the take.                                                           *)
(***************************************************************************)
Init ==
    /\ pc = "admit"
    /\ take \in [last : BOOLEAN, closeAtEnd : BOOLEAN]
    /\ ctl = NewController(take.last)
    /\ session = [open |-> FALSE, engine |-> -1, held |-> None, completed |-> 0,
                  loopFailed |-> FALSE, finished |-> FALSE, audible |-> TRUE]
    /\ ring = {}
    /\ health = [state |-> "healthy", minimized |-> FALSE, video |-> FALSE, audio |-> FALSE]
    /\ flags = [cancelled |-> FALSE, failed |-> FALSE, done |-> FALSE, confirmed |-> FALSE,
                pausedAtEnd |-> FALSE, interrupted |-> FALSE, post |-> 0]
    /\ wire = [ahead |-> 0, mode |-> "take", post |-> "none", pending |-> {},
               facts |-> 0, stopped |-> FALSE]
    /\ terminals = << >>
    /\ events = << >>
    /\ heard = << >>
    /\ cancel = FALSE
    /\ bounds = [inputs |-> 0, faults |-> 0]

\* A request that cannot be read or answered ends the process without a terminal.
Admit ==
    /\ pc = "admit"
    /\ \/ pc' = "material" /\ UNCHANGED bounds
       \/ Fault /\ Faulted(1) /\ pc' = "ended"
    /\ UNCHANGED <<take, ctl, session, ring, health, flags, wire, terminals, events, heard,
                   cancel>>

\* The recording or the pad timeline of the take; the first live state.
ReadMaterial ==
    /\ pc = "material"
    /\ \/ /\ pc' = "prepare"
          /\ wire' = Status(wire)
          /\ UNCHANGED <<bounds, terminals>>
       \/ /\ Fault /\ Faulted(1)
          /\ pc' = "ended"
          /\ LET m == Terminal("take", "failed", FALSE, FALSE, FALSE) IN
             wire' = SentUnnumbered(wire, m) /\ terminals' = Append(terminals, m)
    /\ UNCHANGED <<take, ctl, session, ring, health, flags, events, heard, cancel>>

\* The session created, restored to the start of the take, and its first checkpoint.
PrepareEngine ==
    /\ pc = "prepare"
    /\ \/ /\ session' = [session EXCEPT !.open = TRUE]
          /\ ring' = {-1}
          /\ ctl' = Prepared(ctl).ctl
          /\ wire' = Status(wire)
          /\ pc' = "poll"
          /\ UNCHANGED <<bounds, terminals>>
       \/ /\ Fault /\ Faulted(1)
          /\ FailSession(session)
          /\ pc' = "ended"
          /\ UNCHANGED <<ctl, ring>>
    /\ UNCHANGED <<take, health, flags, events, heard, cancel>>

(***************************************************************************)
(* The loop.                                                               *)
(***************************************************************************)
NextPc(goesOn) == pc' = IF flags'.done THEN "over" ELSE goesOn

\* The supervisor cancels, or ends and closes the control channel.
SupervisorCancels ==
    /\ ~cancel /\ pc # "ended"
    /\ cancel' = TRUE
    /\ UNCHANGED <<pc, take, ctl, session, ring, health, flags, wire, terminals, events,
                   heard, bounds>>

\* A cancellation, or the window closed, in whatever phase the replay is.
Cancelled ==
    Apply(Cancel(ctl), wire, session,
          [flags EXCEPT !.cancelled = TRUE, !.interrupted = ctl.phase = "interrupted"], << >>)

\* Fault: the cancellation is only attended while frames are played.
PollWhilePlaying ==
    /\ pc = "poll"
    /\ IF cancel /\ ctl.phase = "playing" THEN Cancelled /\ NextPc("over")
       ELSE pc' = "window" /\ UNCHANGED <<ctl, session, flags, wire, events>>
    /\ UNCHANGED <<take, ring, health, terminals, heard, cancel, bounds>>

Poll ==
    /\ pc = "poll"
    /\ IF cancel THEN Cancelled /\ NextPc("over")
       ELSE pc' = "window" /\ UNCHANGED <<ctl, session, flags, wire, events>>
    /\ UNCHANGED <<take, ring, health, terminals, heard, cancel, bounds>>

Input == pc = "window" /\ bounds.inputs < MaxInputs
         /\ bounds' = [bounds EXCEPT !.inputs = @ + 1]

PressKey(action) ==
    /\ Input
    /\ Apply(Key(ctl, action), wire, session, flags, << >>)
    /\ NextPc("window")
    /\ UNCHANGED <<take, ring, health, terminals, heard, cancel>>

CloseWindow ==
    /\ Input
    /\ Cancelled
    /\ NextPc("window")
    /\ UNCHANGED <<take, ring, health, terminals, heard, cancel>>

Interrupted(h) == [h EXCEPT !.state = IF @ = "lost" THEN @ ELSE "interrupted"]

\* The window minimized or restored, its audio device removed, or a redraw that fails.
WindowEvent ==
    /\ Input
    /\ health' \in {Interrupted([health EXCEPT !.minimized = TRUE]),
                    [health EXCEPT !.minimized = FALSE],
                    Interrupted([health EXCEPT !.audio = TRUE]),
                    Interrupted([health EXCEPT !.video = TRUE])}
    /\ UNCHANGED <<pc, take, ctl, session, ring, flags, wire, terminals, events, heard, cancel>>

EndWindow ==
    /\ pc = "window"
    /\ pc' = "health"
    /\ UNCHANGED <<take, ctl, session, ring, health, flags, wire, terminals, events, heard,
                   cancel, bounds>>

\* A loss stops the take; what was lost and is back lets it go on, paused.
AttendHealth ==
    /\ pc = "health"
    /\ LET loss == IF health.state # "healthy" /\ ctl.phase \notin {"interrupted", "closing"}
                   THEN PresentationInterrupted(ctl) ELSE Ignored(ctl)
           waiting == loss.ctl.phase = "interrupted" /\ health.state = "interrupted"
                          /\ ~health.minimized
       IN \E back \in BOOLEAN :
            /\ back => waiting
            /\ waiting /\ ~health.video /\ ~health.audio => back
            /\ LET again == IF back THEN PresentationRecovered(loss.ctl) ELSE Ignored(loss.ctl)
               IN Apply(Answer(again.ctl, loss.commands \o again.commands),
                        Status(wire), session, flags, << >>)
            /\ health' = IF back THEN [health EXCEPT !.state = "healthy", !.video = FALSE,
                                                     !.audio = FALSE]
                         ELSE health
    /\ NextPc("work")
    /\ UNCHANGED <<take, ring, terminals, heard, cancel, bounds>>

\* consume_fact: while the observation lasts, its worker hands on the Engine's facts, and one
\* of them fills the batch.
EngineFacts ==
    /\ session.open /\ pc # "ended" /\ ~wire.stopped
    /\ wire' = Flushed([wire EXCEPT !.pending = @ \cup {"take"}])
    /\ UNCHANGED <<pc, take, ctl, session, ring, health, flags, terminals, events, heard,
                   cancel, bounds>>

(***************************************************************************)
(* Producing frames.  The Engine numbers its frames: one that does not     *)
(* follow the state it holds is refused.                                   *)
(***************************************************************************)
CanProduce(s, f) ==
    f <= s.completed /\ s.engine = f - 1 /\ (f = s.completed => ~s.loopFailed)
Produced(s, f) ==
    [s EXCEPT !.engine = f, !.held = f, !.completed = IF f = @ THEN @ + 1 ELSE @]
Unproduced(s, f) ==
    IF f > s.completed \/ (f = s.completed /\ s.loopFailed) THEN s
    ELSE [s EXCEPT !.engine = Lost, !.completed = IF f = @ THEN @ + 1 ELSE @]
\* step() threw: before it touched the core, or in the middle of the frame.
StepThrew(s, f, midway) ==
    [s EXCEPT !.engine = IF midway THEN Lost ELSE @, !.loopFailed = @ \/ f = s.completed]

\* Capture of frame f: the oldest checkpoint but the initial one gives way.
ShouldCapture(f) == (f + 1) % Interval = 0
Captured(f) ==
    LET kept == ring \ {-1} IN
    IF Capacity = 0 THEN ring
    ELSE IF Cardinality(kept) < Capacity THEN ring \cup {f}
    ELSE (ring \ {Min(kept)}) \cup {f}

\* The presentation of an image: it may fail, or the device may be lost.
ShownWith(h, lost) ==
    CASE lost = "no" -> h
      [] lost = "video" -> Interrupted([h EXCEPT !.video = TRUE])
      [] lost = "device" -> [h EXCEPT !.state = "lost"]
Presents(lost) ==
    /\ lost # "no" => Fault
    /\ health' = ShownWith(health, lost)
    /\ Faulted(IF lost = "no" THEN 0 ELSE 1)

WaitTurn ==
    /\ pc = "work" /\ ctl.phase = "playing"
    /\ pc' = "poll"
    /\ UNCHANGED <<take, ctl, session, ring, health, flags, wire, terminals, events, heard,
                   cancel, bounds>>

ReachSlot ==
    /\ pc = "work" /\ TakeEndPending(ctl)
    /\ Apply(TakeSlotReached(ctl), wire, session, flags, << >>)
    /\ NextPc("poll")
    /\ UNCHANGED <<take, ring, health, terminals, heard, cancel, bounds>>

Playing == pc = "work" /\ ctl.phase \in {"playing", "pausing"} /\ ~TakeEndPending(ctl)

PlayFrame ==
    /\ Playing
    /\ LET frame == NextFrame(ctl)
           s == [session EXCEPT !.audible = TRUE]
           answer == FrameCompleted(ctl, frame) IN
       /\ CanProduce(s, frame)
       /\ \E lost \in {"no", "video", "device"} : Presents(lost)
       /\ heard' = Append(heard, [frame |-> frame, after |-> Len(events)])
       /\ ring' = IF ShouldCapture(frame) /\ frame = session.completed
                  THEN Captured(frame) ELSE ring
       /\ Apply(answer, Pushed(wire, RunOf(flags), 1), Produced(s, frame), flags, << >>)
       /\ NextPc(IF Has(answer.commands, "confirm_linear_result") THEN "confirm" ELSE "poll")
    /\ UNCHANGED <<take, terminals, cancel>>

FrameFails ==
    /\ Playing
    /\ LET frame == NextFrame(ctl)
           s == [session EXCEPT !.audible = TRUE] IN
       IF CanProduce(s, frame)
       THEN Fault /\ Faulted(1) /\ FailSession(StepThrew(s, frame, TRUE))
       ELSE UNCHANGED bounds /\ FailSession(Unproduced(s, frame))
    /\ pc' = "ended"
    /\ UNCHANGED <<take, ctl, ring, health, flags, events, heard, cancel>>

ShowStill ==
    /\ pc = "work" /\ ctl.phase \in {"paused", "interrupted"}
    /\ \E lost \in {"no", "video", "device"} : Presents(lost)
    /\ pc' = "poll"
    /\ UNCHANGED <<take, ctl, session, ring, flags, wire, terminals, events, heard, cancel>>

(***************************************************************************)
(* Recovery of a frame: what may come of each attempt, with the faults it  *)
(* takes.  A rejected core leaves the session as it was; a later rejection *)
(* leaves it unknown.                                                      *)
(***************************************************************************)
Result(ok, s, faults) == [ok |-> ok, s |-> s, faults |-> faults]

Through(s, from, g) ==
    IF g < from THEN s
    ELSE [s EXCEPT !.engine = g, !.held = g, !.completed = IF g >= @ THEN g + 1 ELSE @]
Reaches(s, from, g) == \A f \in from..g : CanProduce(Through(s, from, f - 1), f)

Replayed(s, from, to) ==
    LET until == {g \in from..to : Reaches(s, from, g)}
        stuck == {g \in from..to : Reaches(s, from, g - 1) /\ ~Reaches(s, from, g)}
    IN {Result(TRUE, Through(s, from, to), 0) : g \in until \cap {to}}
       \cup {Result(FALSE, Unproduced(Through(s, from, g - 1), g), 0) : g \in stuck}
       \cup (UNION {{Result(FALSE, StepThrew(Through(s, from, g - 1), g, midway), 1) :
                       g \in until} : midway \in BOOLEAN})
       \cup {Result(FALSE, Through(s, from, g), 1) : g \in until}     \* recovery_limit

Restored(s, c) ==
    {Result(TRUE, [s EXCEPT !.engine = c, !.held = c], 0), Result(FALSE, s, 1),
     Result(FALSE, [s EXCEPT !.engine = Lost, !.held = None], 1)}

Reach(s, goal) ==
    LET usable == {c \in ring : c < goal} IN
    IF s.held # None /\ goal = s.held + 1 THEN Replayed(s, goal, goal)
    ELSE IF usable = {} THEN {Result(FALSE, s, 0)}
    ELSE UNION {IF r.ok THEN {Result(p.ok, p.s, r.faults + p.faults) :
                                p \in Replayed(r.s, Max(usable) + 1, goal)}
                ELSE {r} : r \in Restored(s, Max(usable))}

\* Fault: a failed recovery counts as restored wherever it stopped.
RecoveredAnywhere(s, target, confirmed) ==
    {[outcome |-> IF r.ok THEN "presented" ELSE "failed_restored", s |-> r.s,
      faults |-> r.faults] : r \in Reach(s, target)}

\* The target, or back to the confirmed position, or nothing.
Recovered(s, target, confirmed) ==
    UNION {IF r.ok THEN {[outcome |-> "presented", s |-> r.s, faults |-> r.faults]}
           ELSE IF r.s.held = confirmed
           THEN {[outcome |-> "failed_restored", s |-> r.s, faults |-> r.faults]}
           ELSE {[outcome |-> IF b.ok THEN "failed_restored" ELSE "failed_unrecoverable",
                  s |-> b.s, faults |-> r.faults + b.faults] : b \in Reach(r.s, confirmed)}
           : r \in Reach(s, target)}

\* The frozen session gives way to one prepared again, for a run of its own.
NeedsRearm == flags.confirmed /\ flags.post = 0
Rearmed(s) == [s EXCEPT !.open = TRUE, !.engine = -1, !.held = None]

Recover ==
    /\ pc = "work" /\ ctl.phase = "recovering"
    /\ LET f == [flags EXCEPT !.post = IF NeedsRearm THEN 1 ELSE @]
           opened == IF NeedsRearm THEN Sent(wire, [type |-> "opened"]) ELSE wire
           s0 == [IF NeedsRearm THEN Rearmed(session) ELSE session EXCEPT !.audible = FALSE]
       IN \E lost \in {"no", "video", "device"} : \E r \in Recovered(s0, ctl.target, Shown(ctl))
                     \cup (IF NeedsRearm
                           THEN {[outcome |-> "failed_unrecoverable",
                                  s |-> [s0 EXCEPT !.open = FALSE], faults |-> 1]}
                           ELSE {}) :
            /\ LET faults == r.faults + (IF lost = "no" THEN 0 ELSE 1) IN
               bounds.faults + faults <= MaxFaults /\ Faulted(faults)
            /\ health' = ShownWith(health, lost)
            /\ Apply(RecoveryFinished(ctl, r.outcome),
                     IF r.outcome = "presented" \/ f.post = 0 THEN Pushed(opened, RunOf(f), 1)
                     ELSE opened,
                     r.s, f,
                     IF r.outcome = "presented" THEN << >>
                     ELSE <<Emitted(RunOf(f), "recover_failed", ctl.target, Shown(ctl))>>)
    /\ NextPc("poll")
    /\ UNCHANGED <<take, ring, terminals, heard, cancel>>

(***************************************************************************)
(* finish: closes the production and sends the terminal.                   *)
(***************************************************************************)
StoppedEarly == (flags.cancelled /\ ~ctl.ended) \/ flags.failed
OffBoundary == session.held # None /\ session.held + 1 # session.completed
AtEnd == ctl.ended /\ session.completed = Frames

\* close_replay_production accepts, and the Engine's limit is the last linear frame.
ClosesAt(finished) ==
    /\ finished \/ StoppedEarly \/ OffBoundary
    /\ OffBoundary \/ session.completed = 0 \/ session.engine = session.completed - 1

Incident == \E i \in 1..Len(events) : events[i].control = "interrupted"

TakeTerminal(clean) ==
    Terminal("take",
             IF flags.failed THEN "failed"
             ELSE IF StoppedEarly /\ flags.interrupted THEN "interrupted"
             ELSE Playback(StoppedEarly),
             ~(StoppedEarly /\ ~flags.failed) /\ session.completed = Frames /\ ~ctl.inspected,
             clean /\ ~StoppedEarly /\ ~Incident,
             ctl.ended /\ flags.pausedAtEnd)

Finish(keep) ==
    LET s1 == [session EXCEPT !.audible = TRUE,
                              !.finished = @ \/ (AtEnd /\ ~session.loopFailed)]
        s2 == [s1 EXCEPT !.open = keep]
        w1 == Stopped(IF keep THEN wire ELSE Status(wire)) IN
    \/ /\ (AtEnd /\ session.loopFailed) \/ ~ClosesAt(s1.finished)
       /\ FailSession(s1)
       /\ UNCHANGED bounds
    \/ /\ Fault /\ Faulted(1)                  \* the freeze, the drain or its watchdog
       /\ FailSession(s1)
    \/ /\ ClosesAt(s1.finished) /\ ~(AtEnd /\ session.loopFailed)
       /\ Fault /\ Faulted(1)                  \* the PCM ends before the limit
       /\ LET m == Terminal("take", Playback(FALSE),
                            session.completed = Frames /\ ~ctl.inspected, FALSE, FALSE) IN
          wire' = SentUnnumbered(w1, m) /\ terminals' = Append(terminals, m)
       /\ session' = s2
    \/ /\ ClosesAt(s1.finished) /\ ~(AtEnd /\ session.loopFailed)
       /\ \E clean \in BOOLEAN :
            /\ clean \/ Fault
            /\ Faulted(IF clean THEN 0 ELSE 1)
            /\ wire' = Sent(w1, TakeTerminal(clean))
            /\ terminals' = Append(terminals, TakeTerminal(clean))
       /\ session' = s2

\* confirm_linear_result: the result of the last take goes first, then its window stays.
Confirm ==
    /\ pc = "confirm"
    /\ Finish(TRUE)
    /\ flags' = [flags EXCEPT !.confirmed = TRUE,
                              !.done = ~session'.open \/ take.closeAtEnd]
    /\ NextPc("poll")
    /\ UNCHANGED <<take, ctl, ring, health, events, heard, cancel>>

Conclude ==
    /\ pc = "over" /\ ~flags.confirmed
    /\ Finish(FALSE)
    /\ pc' = "ended"
    /\ ctl' = Cancel(ctl).ctl
    /\ UNCHANGED <<take, ring, health, flags, events, heard, cancel>>

\* After the confirmed result: the post-end run, if one was opened, closes with its own.
CloseConfirmed ==
    /\ pc = "over" /\ flags.confirmed
    /\ LET m == Terminal("post", "natural_end", FALSE, FALSE, ctl.position = Frames - 1) IN
       IF flags.post = 0
       THEN wire' = Status(wire) /\ UNCHANGED terminals
       ELSE wire' = Sent(Flushed(Status(wire)), m) /\ terminals' = Append(terminals, m)
    /\ session' = IF wire.stopped THEN session ELSE [session EXCEPT !.open = FALSE]
    /\ ctl' = Cancel(ctl).ctl
    /\ pc' = "ended"
    /\ UNCHANGED <<take, ring, health, flags, events, heard, cancel, bounds>>

Loop == \/ Admit \/ ReadMaterial \/ PrepareEngine
        \/ Poll \/ EndWindow \/ AttendHealth
        \/ WaitTurn \/ ReachSlot \/ PlayFrame \/ FrameFails \/ ShowStill \/ Recover
        \/ Confirm \/ Conclude \/ CloseConfirmed
User == (\E action \in KeyActions : PressKey(action)) \/ CloseWindow \/ WindowEvent
Next == Loop \/ User \/ SupervisorCancels \/ EngineFacts

\* The thread of the session keeps running; nobody has to cancel or to press a key.
Spec == Init /\ [][Next]_vars /\ WF_vars(Loop)

(***************************************************************************)
(* traversal_of_take: the supervisor rebuilds from the events and the      *)
(* number of frames consumed which stretches were played; stretch i is the *)
(* one after event i.                                                      *)
(***************************************************************************)
Lesser(a, b) == IF a < b THEN a ELSE b
TakeEvents == SelectSeq(events, LAMBDA e : e.run = "take")
Stretch(evs, consumed, i) ==
    LET from == IF i = 0 THEN 0 ELSE evs[i].after + 1
        until == IF i = Len(evs) THEN consumed - 1
                 ELSE Lesser(evs[i + 1].before, consumed - 1)
    IN from..until
RecordedPlays(f) == {i \in 0..Len(TakeEvents) :
                        f \in Stretch(TakeEvents, session.completed, i)}
HeardPlays(f) == {i \in 1..Len(heard) : heard[i].frame = f}

(***************************************************************************)
(* Properties.                                                             *)
(***************************************************************************)
TypeOK ==
    /\ pc \in {"admit", "material", "prepare", "poll", "window", "health", "work", "confirm",
               "over", "ended"}
    /\ ctl \in Controllers
    /\ session.engine \in Lost..(Frames - 1) /\ session.held \in None..(Frames - 1)
    /\ session.completed \in 0..Frames
    /\ ring \subseteq -1..(Frames - 1)
    /\ health.state \in {"healthy", "interrupted", "lost"}
    /\ wire.mode \in Reading \cup {"done", "invalid"}
    /\ wire.post \in {"none", "open", "closed", "spoiled"}
    /\ bounds.inputs \in 0..MaxInputs /\ bounds.faults \in 0..MaxFaults

\* A take reported as linear was heard whole, once and in order, whatever was pressed,
\* lost and recovered on the way (describe_terminal's traversal against the frames the
\* loop really produced with sound).
LinearMeansHeardInOrder ==
    \A i \in 1..Len(terminals) :
        terminals[i].linear =>
            [k \in 1..Len(heard) |-> heard[k].frame] = [k \in 1..Frames |-> k - 1]

\* The frame the window shows in pause is the frame the session says it holds, and, unless
\* a step was broken off, the one the Engine is at: playing on continues from what is seen.
PositionIsHeld ==
    ctl.phase \in {"playing", "paused"} /\ ctl.position # None /\ session.open
        => session.held = ctl.position /\ session.engine \in {ctl.position, Lost}

\* In the pause after the confirmed result, with no post-end run open, the events alone have
\* filled a batch.
Overfull ==
    /\ Len(terminals) > 0 /\ terminals[1].paused
    /\ LET n == terminals[1].after + BatchCapacity
       IN  n <= Len(events) /\ events[n].run = "take"

\* The supervisor can read the whole channel: consecutive numbers, one terminal of the
\* take, and every post-end run opened before its messages and closed once.  Exactly one
\* thing it cannot read: the batch that the events of the pause after the confirmed result
\* fill before a post-end run is opened (push_fact; check_execution.cpp:355).
StreamIsReadable == wire.mode = "invalid" <=> Overfull

\* The session, the window and the channel tell one story after any keys, losses and
\* failures (audio_qa_runtime_session.cpp: apply, recover, the inspection loop).
SessionIsCoherent == TypeOK /\ PositionIsHeld /\ StreamIsReadable

\* After a cancellation, or the supervisor's end, the session ends.
CancelEnds == cancel ~> pc = "ended"

(***************************************************************************)
(* What the repository says and the code does not do.                      *)
(***************************************************************************)
\* "Playback continues from the frame after the event up to the frame where the next
\* event happened, or up to the last frame consumed after the last event": no frame is
\* recorded as played more often than it was heard.
RecordedMeansHeard ==
    pc = "ended" /\ Len(terminals) > 0 =>
        \A f \in 0..(Frames - 1) : Cardinality(RecordedPlays(f)) <= Cardinality(HeardPlays(f))

\* "After the confirmed result of the last take the Runtime stays paused at N-1 with its
\* window; the channel stays open until the window closes": until then the supervisor has
\* not given up reading.
ChannelStaysOpen == flags.confirmed /\ pc # "ended" => wire.mode # "invalid"

\* "Its production is silent and its facts belong to the new run": the facts flushed after
\* a post-end run opens are all of that run.
PostEndFactsBelongToTheirRun == wire.post # "spoiled"

\* "At N-1 Space starts the next take, if there is one": with no failure and no loss, the
\* take the user leaves that way succeeds.
SpaceAtTheLastFrameAdvances ==
    bounds.faults = 0 /\ ~Incident /\ ~flags.cancelled
        /\ (\E j \in 1..Len(events) : events[j].control = "advance_take")
    => \A i \in 1..Len(terminals) : terminals[i].ok
=============================================================================
