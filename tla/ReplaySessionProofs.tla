------------------------- MODULE ReplaySessionProofs -------------------------
(***************************************************************************)
(* Proofs about ReplaySession for takes of any length, any interval and    *)
(* number of checkpoints, and any number of keys, losses and failures: a   *)
(* take reported as linear was heard whole and in order, and the session,  *)
(* the window and the channel tell one story.                              *)
(***************************************************************************)
EXTENDS ReplaySession, SequenceTheorems, FiniteSetTheorems, WellFoundedInduction, TLAPS

-----------------------------------------------------------------------------
\* The inductive invariant.

Sessions == [open : BOOLEAN, engine : Lost..(Frames - 1), held : None..(Frames - 1),
             completed : 0..Frames, loopFailed : BOOLEAN, finished : BOOLEAN,
             audible : BOOLEAN]
Flags == [cancelled : BOOLEAN, failed : BOOLEAN, done : BOOLEAN, confirmed : BOOLEAN,
          pausedAtEnd : BOOLEAN, interrupted : BOOLEAN, post : {0, 1}]
Healths == [state : {"healthy", "interrupted", "lost"}, minimized : BOOLEAN,
            video : BOOLEAN, audio : BOOLEAN]
Wires == [ahead : Int, mode : Reading \cup {"done", "invalid"},
          post : {"none", "open", "closed", "spoiled"}, pending : SUBSET {"take", "post"},
          facts : 0..(BatchCapacity - 1), stopped : BOOLEAN]
IsSequence(s) == \E S : s \in Seq(S)

Typed ==
    /\ TypeOK
    /\ take \in [last : BOOLEAN, closeAtEnd : BOOLEAN]
    /\ session \in Sessions /\ flags \in Flags /\ health \in Healths /\ wire \in Wires
    /\ bounds \in [inputs : 0..MaxInputs, faults : 0..MaxFaults]
    /\ IsSequence(heard) /\ IsSequence(terminals) /\ IsSequence(events)

Live == {"playing", "pausing", "paused", "recovering", "interrupted"}

\* A recovery was asked for by a step; before the first frame there is no position; a take
\* that ended is not played on, and one that is played on has a frame to come.
Steered(c) ==
    /\ c \in Controllers
    /\ c.phase = "recovering" => c.inspected /\ c.target # None
    /\ c.phase \in {"preparing", "pausing"} => c.position = None /\ ~c.ended
    /\ c.phase = "playing" /\ ~c.endPending => c.position + 1 < Frames
    /\ c.endPending => c.ended
    /\ c.ended => c.position # None
    /\ c.phase = "playing" /\ c.ended => c.endPending

\* The Engine is at the frame it holds or nowhere known, and while the replay goes on the
\* frame it holds is the confirmed position.
Holds(c, s) ==
    /\ s.engine \in {s.held, Lost}
    /\ c.phase \in Live /\ c.position # None => s.held = c.position

\* The first n frames were heard, each once and in order.
HeardFirst(n) == Len(heard) = n /\ \A k \in 1..n : heard[k].frame = k - 1

\* Until the first step the frames heard are the ones completed, and the Engine follows.
PlaysInOrder ==
    pc # "ended" /\ ~ctl.inspected =>
        /\ HeardFirst(session.completed)
        /\ session.engine = session.completed - 1 /\ ctl.position = session.completed - 1
        /\ ~session.loopFailed

\* After a linear result nothing more is heard.
LinearIsOver ==
    \A i \in 1..Len(terminals) :
        terminals[i].linear => HeardFirst(Frames) /\ (pc = "ended" \/ ctl.ended)

\* The events ev fill a batch in the pause that follows the paused result, the first of ts.
PausedBy(ts) == Len(ts) > 0 /\ ts[1].paused
Fills(ts, ev) ==
    /\ PausedBy(ts)
    /\ LET n == ts[1].after + BatchCapacity IN n <= Len(ev) /\ ev[n].run = "take"

\* What the channel can still carry: before the confirmed result the take's messages; after
\* it nothing, unless it was paused: then the facts gathered are the events since, until
\* they fill a batch or a post-end run is opened.
Carries(w, f, ts, ev) ==
    IF ~f.confirmed
    THEN /\ w.mode = "take" /\ w.ahead = 0 /\ w.post = "none" /\ ~w.stopped /\ w.facts = 0
         /\ f.post = 0 /\ Len(ts) = 0
    ELSE /\ w.stopped /\ Len(ts) > 0 /\ ts[1].after \in Nat
         /\ \/ w.mode = "done" /\ ~ts[1].paused
            \/ w.mode = "invalid" /\ Fills(ts, ev)
            \/ /\ w.mode = "paused" /\ w.ahead = 0 /\ w.post = "none" /\ f.post = 0
               /\ ts[1].paused /\ Len(ev) = ts[1].after + w.facts
            \/ /\ w.mode = "paused" /\ w.ahead = 0 /\ w.post \in {"open", "spoiled"}
               /\ f.post = 1 /\ ~Fills(ts, ev)

Confirms ==
    /\ pc \in {"admit", "material", "prepare", "confirm"} => ~flags.confirmed
    /\ flags.confirmed \/ pc = "confirm" => ctl.ended
    /\ pc # "ended" => Carries(wire, flags, terminals, events)

SessionInv ==
    /\ Typed /\ Steered(ctl) /\ Holds(ctl, session) /\ PlaysInOrder /\ LinearIsOver /\ Confirms
    /\ StreamIsReadable

-----------------------------------------------------------------------------
\* The controller.  Any command but the end of a frame and of a recovery leaves the position
\* and the end of the take as they are, and never forgets a step.

Keeps(c, d) ==
    /\ Steered(d)
    /\ d.position = c.position /\ (d.ended <=> c.ended)
    /\ c.inspected => d.inspected
    /\ d.phase \in Live /\ d.position # None => c.phase \in Live

LEMMA ControllerFields ==
    ASSUME NEW c \in Controllers
    PROVE  /\ c.phase \in Phases /\ c.position \in None..(Frames - 1)
           /\ c.target \in None..(Frames - 1) /\ c.inspected \in BOOLEAN
           /\ c.ended \in BOOLEAN /\ c.endPending \in BOOLEAN /\ c.last \in BOOLEAN
BY DEF Controllers

LEMMA IgnoredKeeps ==
    ASSUME NEW c, Steered(c)
    PROVE  Keeps(c, Ignored(c).ctl) /\ Ignored(c).ctl = c
BY DEF Ignored, Answer, Keeps

\* A controller that differs in its phase, its target or its marks.
LEMMA PhaseChanged ==
    ASSUME NEW c \in Controllers, NEW phase \in Phases
    PROVE  [c EXCEPT !.phase = phase] \in Controllers
BY Zenon DEF Controllers

LEMMA TargetDropped ==
    ASSUME NEW c \in Controllers, NEW phase \in Phases
    PROVE  [c EXCEPT !.phase = phase, !.target = None] \in Controllers
<1>1. None \in None..(Frames - 1)
  BY FramesAssumption DEF None
<1>. QED  BY <1>1, Zenon DEF Controllers

LEMMA PreparedKeeps ==
    ASSUME NEW c, Steered(c)
    PROVE  Keeps(c, Prepared(c).ctl)
<1> DEFINE d == [c EXCEPT !.phase = IF @ = "preparing" THEN "playing" ELSE @]
<1>1. Prepared(c).ctl = d
  BY DEF Prepared, Ignored, Answer
<1>2. c \in Controllers
  BY DEF Steered
<1>3. CASE c.phase = "preparing"
  <2>1. d = [c EXCEPT !.phase = "playing"]
    BY <1>3
  <2>2. d \in Controllers
    <3>1. "playing" \in Phases
      BY DEF Phases
    <3>2. [c EXCEPT !.phase = "playing"] \in Controllers
      BY <1>2, <3>1, PhaseChanged
    <3>. QED  BY <2>1, <3>2
  <2>. QED
    BY <1>1, <1>2, <1>3, <2>1, <2>2, ControllerFields, FramesAssumption
    DEF Keeps, Steered, Controllers, Live, None
<1>4. CASE c.phase # "preparing"
  <2>1. d = c
    BY <1>2, <1>4 DEF Controllers
  <2>. QED  BY <1>1, <2>1 DEF Keeps
<1>. QED  BY <1>3, <1>4

LEMMA CancelKeeps ==
    ASSUME NEW c, Steered(c)
    PROVE  Keeps(c, Cancel(c).ctl) /\ Cancel(c).ctl.phase = "closing"
<1>1. Cancel(c).ctl \in Controllers
  BY TargetDropped DEF Cancel, Answer, Steered, Phases
<1>. QED  BY <1>1 DEF Cancel, Answer, Keeps, Steered, Controllers, Live

LEMMA InterruptedKeeps ==
    ASSUME NEW c, Steered(c)
    PROVE  Keeps(c, PresentationInterrupted(c).ctl)
<1>1. CASE c.phase \in {"closing", "failed"}
  BY <1>1, IgnoredKeeps DEF PresentationInterrupted
<1>2. CASE c.phase \notin {"closing", "failed"}
  <2>1. PresentationInterrupted(c).ctl = [c EXCEPT !.phase = "interrupted", !.target = None]
    BY <1>2 DEF PresentationInterrupted, Answer
  <2>2. PresentationInterrupted(c).ctl \in Controllers
    BY <2>1, TargetDropped DEF Steered, Phases
  <2>. QED  BY <1>2, <2>1, <2>2 DEF Keeps, Steered, Controllers, Phases, Live
<1>. QED  BY <1>1, <1>2

LEMMA RecoveredKeeps ==
    ASSUME NEW c, Steered(c)
    PROVE  Keeps(c, PresentationRecovered(c).ctl)
<1>1. CASE c.phase # "interrupted"
  BY <1>1, IgnoredKeeps DEF PresentationRecovered
<1>2. CASE c.phase = "interrupted"
  <2>1. PresentationRecovered(c).ctl = [c EXCEPT !.phase = "paused"]
    BY <1>2 DEF PresentationRecovered, Answer
  <2>2. PresentationRecovered(c).ctl \in Controllers
    BY <2>1, PhaseChanged DEF Steered, Phases
  <2>. QED  BY <1>2, <2>1, <2>2 DEF Keeps, Steered, Controllers, Live
<1>. QED  BY <1>1, <1>2

LEMMA SlotKeeps ==
    ASSUME NEW c, Steered(c)
    PROVE  Keeps(c, TakeSlotReached(c).ctl)
<1>1. CASE ~TakeEndPending(c)
  BY <1>1, IgnoredKeeps DEF TakeSlotReached
<1>2. CASE TakeEndPending(c)
  <2>1. TakeSlotReached(c).ctl = [c EXCEPT !.phase = "closing", !.endPending = FALSE]
    BY <1>2 DEF TakeSlotReached, Answer
  <2>2. TakeSlotReached(c).ctl \in Controllers
    BY <2>1, Zenon DEF Steered, Controllers, Phases
  <2>. QED  BY <1>2, <2>1, <2>2 DEF Keeps, Steered, Controllers, Live
<1>. QED  BY <1>1, <1>2

LEMMA PauseKeeps ==
    ASSUME NEW c, Steered(c)
    PROVE  Keeps(c, [c EXCEPT !.phase = "paused"])
           \/ c.phase \in {"preparing", "closing", "failed"}
<1>1. [c EXCEPT !.phase = "paused"] \in Controllers
  BY PhaseChanged DEF Steered, Phases
<1>. QED  BY <1>1, ControllerFields DEF Keeps, Steered, Controllers, Phases, Live

LEMMA StepKeeps ==
    ASSUME NEW c, Steered(c), c.phase = "paused", NEW control, NEW target
    PROVE  Keeps(c, StepInPause(c, control, target).ctl)
<1>1. CASE target \notin 0..(Frames - 1)
  BY <1>1, IgnoredKeeps DEF StepInPause
<1>2. CASE target \in 0..(Frames - 1)
  <2>1. StepInPause(c, control, target).ctl
           = [c EXCEPT !.target = target, !.phase = "recovering", !.inspected = TRUE]
    BY <1>2 DEF StepInPause, Answer
  <2>2. target \in None..(Frames - 1) /\ target # None
    BY <1>2, FramesAssumption DEF None
  <2>3. StepInPause(c, control, target).ctl \in Controllers
    BY <2>1, <2>2, Zenon DEF Steered, Controllers, Phases
  <2>. QED  BY <1>2, <2>1, <2>2, <2>3 DEF Keeps, Steered, Controllers, Live
<1>. QED  BY <1>1, <1>2

LEMMA ToggleKeeps ==
    ASSUME NEW c, Steered(c), c.phase = "paused"
    PROVE  Keeps(c, ToggleInPause(c).ctl)
<1>1. c \in Controllers
  BY DEF Steered
<1>2. CASE Shown(c) + 1 < Frames /\ ~c.ended
  <2>1. ToggleInPause(c).ctl = [c EXCEPT !.phase = "playing"]
    BY <1>2 DEF ToggleInPause, Answer
  <2>2. ToggleInPause(c).ctl \in Controllers
    BY <1>1, <2>1, PhaseChanged DEF Phases
  <2>3. c.position + 1 < Frames
    BY <1>1, <1>2, ControllerFields, FramesAssumption DEF Shown, None
  <2>. QED  BY <1>1, <1>2, <2>1, <2>2, <2>3 DEF Keeps, Steered, Controllers, Live
<1>3. CASE ~(Shown(c) + 1 < Frames /\ ~c.ended) /\ c.last
  <2>1. ToggleInPause(c).ctl = c
    BY <1>3 DEF ToggleInPause, Answer
  <2>. QED  BY <2>1 DEF Keeps
<1>4. CASE ~(Shown(c) + 1 < Frames /\ ~c.ended) /\ ~c.last
  <2>1. ToggleInPause(c).ctl = [c EXCEPT !.phase = "closing"]
    BY <1>4 DEF ToggleInPause, Answer
  <2>2. ToggleInPause(c).ctl \in Controllers
    BY <1>1, <2>1, PhaseChanged DEF Phases
  <2>. QED  BY <1>1, <2>1, <2>2 DEF Keeps, Steered, Controllers, Live
<1>. QED  BY <1>2, <1>3, <1>4

LEMMA KeyKeeps ==
    ASSUME NEW c, Steered(c), NEW action \in KeyActions
    PROVE  Keeps(c, Key(c, action).ctl)
<1>1. c \in Controllers
  BY DEF Steered
<1>2. CASE c.phase \in {"closing", "failed"}
  BY <1>2, IgnoredKeeps DEF Key
<1>3. CASE c.phase \notin {"closing", "failed"} /\ action = "info"
  <2>1. Key(c, action).ctl = c
    BY <1>3 DEF Key, Ignored, Answer
  <2>. QED  BY <2>1 DEF Keeps
<1>4. CASE c.phase = "playing" /\ action # "info"
  <2>1. CASE action # "toggle"
    <3>1. Key(c, action).ctl = c
      BY <1>4, <2>1 DEF Key, Ignored, Answer
    <3>. QED  BY <3>1 DEF Keeps
  <2>2. CASE action = "toggle" /\ c.position # None
    <3>1. Key(c, action).ctl = [c EXCEPT !.phase = "paused", !.position = c.position]
      BY <1>4, <2>2 DEF Key, PauseAt, Answer
    <3>2. Key(c, action).ctl = [c EXCEPT !.phase = "paused"]
      BY <1>1, <3>1 DEF Controllers
    <3>. QED  BY <1>4, <3>2, PauseKeeps
  <2>3. CASE action = "toggle" /\ c.position = None
    <3>1. Key(c, action).ctl = [c EXCEPT !.phase = "pausing"]
      BY <1>4, <2>3 DEF Key, Ignored, Answer
    <3>2. Key(c, action).ctl \in Controllers
      BY <1>1, <3>1, PhaseChanged DEF Phases
    <3>. QED  BY <1>1, <1>4, <2>3, <3>1, <3>2 DEF Keeps, Steered, Controllers, Live
  <2>. QED  BY <2>1, <2>2, <2>3
<1>5. CASE c.phase = "paused" /\ action # "info"
  <2>1. \/ Key(c, action) = ToggleInPause(c)
        \/ Key(c, action) = StepInPause(c, "step_back", Shown(c) - 1)
        \/ Key(c, action) = StepInPause(c, "step_forward", Shown(c) + 1)
    <3>1. CASE action = "toggle"
      BY <1>5, <3>1 DEF Key
    <3>2. CASE action = "left"
      BY <1>5, <3>2 DEF Key
    <3>3. CASE action = "right"
      BY <1>5, <3>3 DEF Key
    <3>. QED  BY <1>5, <3>1, <3>2, <3>3 DEF KeyActions
  <2>. QED  BY <1>5, <2>1, ToggleKeeps, StepKeeps
<1>6. CASE c.phase \notin {"closing", "failed", "playing", "paused"} /\ action # "info"
  <2>1. Key(c, action).ctl = c
    BY <1>6 DEF Key, Ignored, Answer
  <2>. QED  BY <2>1 DEF Keeps
<1>. QED  BY <1>2, <1>3, <1>4, <1>5, <1>6

\* The end of a frame that was played: the position is that frame, and the take goes on, is
\* paused at it, waits for its last slot or has its result confirmed.
LEMMA FrameEnds ==
    ASSUME NEW c, Steered(c), c.phase \in {"playing", "pausing"}, ~TakeEndPending(c)
    PROVE  LET frame == NextFrame(c)
               answer == FrameCompleted(c, frame)
           IN  /\ frame \in 0..(Frames - 1)
               /\ Steered(answer.ctl)
               /\ answer.ctl.position = frame
               /\ answer.ctl.inspected = c.inspected
               /\ ~c.ended
               /\ Has(answer.commands, "confirm_linear_result") => answer.ctl.ended
<1> DEFINE frame == NextFrame(c)
           answer == FrameCompleted(c, frame)
           at == [c EXCEPT !.position = frame]
           over == [at EXCEPT !.ended = TRUE]
<1>1. c \in Controllers
  BY DEF Steered
<1>2. ~c.ended /\ ~c.endPending
  BY <1>1, ControllerFields DEF Steered, TakeEndPending
<1>3. frame \in 0..(Frames - 1) /\ frame # None
  BY <1>1, <1>2, ControllerFields, FramesAssumption DEF Steered, NextFrame, None
<1>4. at \in Controllers /\ over \in Controllers
  <2>1. frame \in None..(Frames - 1)
    BY <1>3, FramesAssumption DEF None
  <2>2. at \in Controllers
    BY <1>1, <2>1, Zenon DEF Controllers
  <2>. HIDE DEF at
  <2>. QED  BY <2>2, Zenon DEF Controllers
<1>5. /\ at.position = frame /\ at.phase = c.phase /\ at.inspected = c.inspected
      /\ at.ended = c.ended /\ at.endPending = c.endPending /\ at.target = c.target
      /\ over.position = frame /\ over.phase = c.phase /\ over.inspected = c.inspected
      /\ over.ended = TRUE /\ over.endPending = c.endPending /\ over.target = c.target
  BY <1>1 DEF Controllers
<1> HIDE DEF at, over
<1>6. CASE c.phase = "pausing"
  <2> DEFINE d == IF frame + 1 < Frames THEN at ELSE over
  <2>1. answer = PauseAt(d, frame)
    BY <1>6 DEF FrameCompleted, at, over
  <2>2. d \in {at, over}
    OBVIOUS
  <2>3. d.position = frame /\ d.inspected = c.inspected /\ d \in Controllers
        /\ d.endPending = c.endPending
    BY <1>4, <1>5, <2>2
  <2> HIDE DEF d
  <2>4. answer.ctl = [d EXCEPT !.phase = "paused"]
    <3>1. answer.ctl = [d EXCEPT !.phase = "paused", !.position = d.position]
      BY <2>1, <2>3 DEF PauseAt, Answer
    <3>. QED  BY <2>3, <3>1 DEF Controllers
  <2>5. answer.ctl \in Controllers
    BY <2>3, <2>4, PhaseChanged DEF Phases
  <2>6. ~Has(answer.commands, "confirm_linear_result")
    BY <2>1 DEF PauseAt, Answer, Has, Command, Event
  <2>. QED
    BY <1>2, <1>3, <2>3, <2>4, <2>5, <2>6 DEF Steered, Controllers
<1>7. CASE c.phase = "playing" /\ frame + 1 < Frames
  <2>1. answer = Ignored(at)
    BY <1>7 DEF FrameCompleted, at
  <2>2. answer.ctl = at /\ ~Has(answer.commands, "confirm_linear_result")
    BY <2>1 DEF Ignored, Answer, Has
  <2>. QED  BY <1>2, <1>3, <1>4, <1>5, <1>7, <2>2 DEF Steered
<1>8. CASE c.phase = "playing" /\ ~(frame + 1 < Frames) /\ ~c.last
  <2>1. answer.ctl = [over EXCEPT !.endPending = TRUE] /\ answer.commands = << >>
    BY <1>8 DEF FrameCompleted, Ignored, Answer, at, over
  <2>2. ~Has(answer.commands, "confirm_linear_result")
    BY <2>1 DEF Has
  <2>3. answer.ctl \in Controllers
    BY <1>4, <2>1, Zenon DEF Controllers
  <2>. QED  BY <1>2, <1>3, <1>4, <1>5, <1>8, <2>1, <2>2, <2>3 DEF Steered, Controllers
<1>9. CASE c.phase = "playing" /\ ~(frame + 1 < Frames) /\ c.last
  <2>1. answer.ctl = [over EXCEPT !.phase = "paused"]
    BY <1>9 DEF FrameCompleted, Answer, at, over
  <2>2. answer.ctl \in Controllers
    BY <1>4, <2>1, PhaseChanged DEF Phases
  <2>. QED  BY <1>2, <1>3, <1>4, <1>5, <1>9, <2>1, <2>2 DEF Steered, Controllers
<1>. QED  BY <1>1, <1>6, <1>7, <1>8, <1>9, ControllerFields

\* A recovery that was asked for ends at its target, where it was, or with the traversal.
LEMMA RecoveryEnds ==
    ASSUME NEW c, Steered(c), c.phase = "recovering", NEW outcome \in Outcomes
    PROVE  LET d == RecoveryFinished(c, outcome).ctl IN
           /\ Steered(d) /\ d.inspected /\ (d.ended <=> c.ended)
           /\ c.target \in 0..(Frames - 1) /\ Shown(c) \in 0..(Frames - 1)
           /\ d.phase \in Live => outcome # "failed_unrecoverable"
           /\ outcome = "presented" => d.position = c.target
           /\ outcome = "failed_restored" => d.position = c.position
<1> DEFINE d == RecoveryFinished(c, outcome).ctl
<1>1. c \in Controllers /\ c.inspected /\ c.target # None
  BY DEF Steered
<1>2. c.target \in 0..(Frames - 1) /\ Shown(c) \in 0..(Frames - 1)
  BY <1>1, ControllerFields, FramesAssumption DEF Shown, None
<1>3. None \in None..(Frames - 1)
  BY FramesAssumption DEF None
<1>4. CASE outcome = "presented"
  <2>1. d = [c EXCEPT !.target = None, !.phase = "paused", !.position = c.target]
    BY <1>1, <1>4 DEF RecoveryFinished, Answer
  <2>2. d \in Controllers
    BY <1>1, <1>3, <2>1, ControllerFields, Zenon DEF Controllers, Phases
  <2>3. c.target # None
    BY <1>1
  <2>. QED  BY <1>1, <1>2, <1>4, <2>1, <2>2, <2>3 DEF Steered, Controllers
<1>5. CASE outcome = "failed_restored"
  <2>1. d = [c EXCEPT !.target = None, !.phase = "paused"]
    BY <1>1, <1>5 DEF RecoveryFinished, Answer
  <2>2. d \in Controllers
    BY <1>1, <1>3, <2>1, Zenon DEF Controllers, Phases
  <2>. QED  BY <1>1, <1>2, <1>5, <2>1, <2>2 DEF Steered, Controllers
<1>6. CASE outcome = "failed_unrecoverable"
  <2>1. d = [c EXCEPT !.target = None, !.phase = "failed"]
    BY <1>1, <1>6 DEF RecoveryFinished, Answer
  <2>2. d \in Controllers
    BY <1>1, <1>3, <2>1, Zenon DEF Controllers, Phases
  <2>. QED  BY <1>1, <1>2, <1>6, <2>1, <2>2 DEF Steered, Controllers, Live
<1>. QED  BY <1>4, <1>5, <1>6 DEF Outcomes

-----------------------------------------------------------------------------
\* What may come of an attempt to reach a frame.

Engaged(s) == s.engine \in {s.held, Lost}
Attempts == [ok : BOOLEAN, s : Sessions, faults : Nat]

\* A nonempty set of checkpoints has a last one.
LEMMA LastExists ==
    ASSUME NEW S, S \subseteq -1..(Frames - 1), S # {}
    PROVE  Max(S) \in S
<1> DEFINE T == {Frames - x : x \in S}
<1>1. T \subseteq Nat /\ T # {}
  <2>1. \A x \in S : x \in -1..(Frames - 1)
    OBVIOUS
  <2>2. \A x \in S : Frames - x \in Nat
    BY <2>1, FramesAssumption
  <2>. QED  BY <2>2
<1>2. PICK n \in T : \A m \in T : <<m, n>> \notin OpToRel(<, Nat)
  BY <1>1, NatLessThanWellFounded, WFMin
<1>3. PICK x \in S : n = Frames - x
  BY <1>2
<1>4. \A y \in S : x >= y
  <2>1. SUFFICES ASSUME NEW y \in S, ~(x >= y)  PROVE FALSE
    OBVIOUS
  <2>2. Frames - y \in T /\ Frames - y \in Nat /\ n \in Nat
    BY <1>1, <1>2
  <2>3. ~(Frames - y < n)
    BY <1>2, <2>2 DEF OpToRel
  <2>. QED  BY <1>3, <2>1, <2>3, FramesAssumption
<1>. QED  BY <1>3, <1>4, Zenon DEF Max

LEMMA SessionFields ==
    ASSUME NEW s \in Sessions
    PROVE  /\ s.open \in BOOLEAN /\ s.engine \in Lost..(Frames - 1)
           /\ s.held \in None..(Frames - 1) /\ s.completed \in 0..Frames
           /\ s.loopFailed \in BOOLEAN /\ s.finished \in BOOLEAN /\ s.audible \in BOOLEAN
BY DEF Sessions

\* A frame that is produced, skipped or broken off, and the frames of a replay.
LEMMA ThroughHolds ==
    ASSUME NEW s \in Sessions, Engaged(s), NEW from \in Int, NEW g \in Int,
           g < from \/ g \in 0..(Frames - 1)
    PROVE  /\ Through(s, from, g) \in Sessions /\ Engaged(Through(s, from, g))
           /\ g >= from => Through(s, from, g).held = g
<1>1. CASE g < from
  BY <1>1 DEF Through
<1>2. CASE ~(g < from)
  <2> DEFINE n == IF g >= s.completed THEN g + 1 ELSE s.completed
  <2>1. g \in Lost..(Frames - 1) /\ g \in None..(Frames - 1) /\ n \in 0..Frames
    BY <1>2, SessionFields, FramesAssumption DEF None, Lost
  <2>2. Through(s, from, g) = [s EXCEPT !.engine = g, !.held = g, !.completed = n]
    BY <1>2 DEF Through
  <2> HIDE DEF n
  <2>3. Through(s, from, g) \in Sessions
    BY <2>1, <2>2, Zenon DEF Sessions
  <2>. QED  BY <1>2, <2>2, <2>3 DEF Sessions, Engaged
<1>. QED  BY <1>1, <1>2

LEMMA UnproducedHolds ==
    ASSUME NEW s \in Sessions, NEW f \in 0..(Frames - 1)
    PROVE  /\ Unproduced(s, f) \in Sessions
           /\ Engaged(s) => Engaged(Unproduced(s, f))
           /\ Unproduced(s, f).held = s.held
<1>1. CASE f > s.completed \/ (f = s.completed /\ s.loopFailed)
  BY <1>1 DEF Unproduced
<1>2. CASE ~(f > s.completed \/ (f = s.completed /\ s.loopFailed))
  <2> DEFINE n == IF f = s.completed THEN s.completed + 1 ELSE s.completed
  <2>1. Lost \in Lost..(Frames - 1) /\ n \in 0..Frames
    BY SessionFields, FramesAssumption DEF Lost
  <2>2. Unproduced(s, f) = [s EXCEPT !.engine = Lost, !.completed = n]
    BY <1>2 DEF Unproduced
  <2> HIDE DEF n
  <2>3. Unproduced(s, f) \in Sessions
    BY <2>1, <2>2, Zenon DEF Sessions
  <2>. QED  BY <2>2, <2>3 DEF Sessions, Engaged
<1>. QED  BY <1>1, <1>2

LEMMA ThrewHolds ==
    ASSUME NEW s \in Sessions, NEW f, NEW midway \in BOOLEAN
    PROVE  /\ StepThrew(s, f, midway) \in Sessions
           /\ Engaged(s) => Engaged(StepThrew(s, f, midway))
           /\ StepThrew(s, f, midway).held = s.held
           /\ StepThrew(s, f, midway).completed = s.completed
<1> DEFINE e == IF midway THEN Lost ELSE s.engine
           failed == s.loopFailed \/ f = s.completed
<1>1. e \in Lost..(Frames - 1) /\ failed \in BOOLEAN
  BY SessionFields, FramesAssumption DEF Lost
<1>2. StepThrew(s, f, midway) = [s EXCEPT !.engine = e, !.loopFailed = failed]
  BY DEF StepThrew
<1>3. e \in {s.engine, Lost}
  OBVIOUS
<1> HIDE DEF e, failed
<1>4. StepThrew(s, f, midway) \in Sessions
  BY <1>1, <1>2, Zenon DEF Sessions
<1>. QED  BY <1>2, <1>3, <1>4 DEF Sessions, Engaged

LEMMA ReplayedHolds ==
    ASSUME NEW s \in Sessions, Engaged(s), NEW from \in Nat, NEW to \in from..(Frames - 1),
           NEW r \in Replayed(s, from, to)
    PROVE  r \in Attempts /\ Engaged(r.s) /\ (r.ok => r.s.held = to)
<1>1. \A g \in from..to : /\ g \in 0..(Frames - 1) /\ g \in Int /\ g - 1 \in Int
                          /\ g - 1 < from \/ g - 1 \in 0..(Frames - 1)
  BY FramesAssumption
<1>2. \A g \in from..to : /\ Through(s, from, g) \in Sessions /\ Engaged(Through(s, from, g))
                          /\ Through(s, from, g).held = g
  <2>1. SUFFICES ASSUME NEW g \in from..to
                 PROVE  /\ Through(s, from, g) \in Sessions /\ Engaged(Through(s, from, g))
                        /\ Through(s, from, g).held = g
    OBVIOUS
  <2>2. g >= from /\ g \in Int /\ g \in 0..(Frames - 1)
    BY <1>1
  <2>. QED  BY <2>2, ThroughHolds
<1>3. \A g \in from..to : /\ Through(s, from, g - 1) \in Sessions
                          /\ Engaged(Through(s, from, g - 1))
  BY <1>1, ThroughHolds
<1>4. \/ r = Result(TRUE, Through(s, from, to), 0)
      \/ \E g \in from..to : r = Result(FALSE, Unproduced(Through(s, from, g - 1), g), 0)
      \/ \E g \in from..to, midway \in BOOLEAN :
            r = Result(FALSE, StepThrew(Through(s, from, g - 1), g, midway), 1)
      \/ \E g \in from..to : r = Result(FALSE, Through(s, from, g), 1)
  <2> DEFINE until == {g \in from..to : Reaches(s, from, g)}
             stuck == {g \in from..to : Reaches(s, from, g - 1) /\ ~Reaches(s, from, g)}
             done == {Result(TRUE, Through(s, from, to), 0) : g \in until \cap {to}}
             skipped == {Result(FALSE, Unproduced(Through(s, from, g - 1), g), 0) : g \in stuck}
             threw == UNION {{Result(FALSE, StepThrew(Through(s, from, g - 1), g, midway), 1) :
                                g \in until} : midway \in BOOLEAN}
             limited == {Result(FALSE, Through(s, from, g), 1) : g \in until}
  <2>1. Replayed(s, from, to) = done \cup skipped \cup threw \cup limited
    BY DEF Replayed
  <2>2. CASE r \in done
    BY <2>2
  <2>3. CASE r \in skipped
    BY <2>3
  <2>4. CASE r \in threw
    BY <2>4
  <2>5. CASE r \in limited
    BY <2>5
  <2> HIDE DEF done, skipped, threw, limited
  <2>. QED  BY <2>1, <2>2, <2>3, <2>4, <2>5
<1>5. CASE r = Result(TRUE, Through(s, from, to), 0)
  <2>1. to \in from..to
    OBVIOUS
  <2>. QED  BY <1>2, <1>5, <2>1 DEF Result, Attempts
<1>6. CASE \E g \in from..to : r = Result(FALSE, Unproduced(Through(s, from, g - 1), g), 0)
  <2>1. PICK g \in from..to : r = Result(FALSE, Unproduced(Through(s, from, g - 1), g), 0)
    BY <1>6
  <2>2. /\ Unproduced(Through(s, from, g - 1), g) \in Sessions
        /\ Engaged(Unproduced(Through(s, from, g - 1), g))
    <3>1. g \in 0..(Frames - 1)
      BY <1>1
    <3>. QED  BY <1>3, <3>1, UnproducedHolds
  <2>. QED  BY <2>1, <2>2 DEF Result, Attempts
<1>7. CASE \E g \in from..to, midway \in BOOLEAN :
              r = Result(FALSE, StepThrew(Through(s, from, g - 1), g, midway), 1)
  <2>1. PICK g \in from..to, midway \in BOOLEAN :
              r = Result(FALSE, StepThrew(Through(s, from, g - 1), g, midway), 1)
    BY <1>7
  <2>2. /\ StepThrew(Through(s, from, g - 1), g, midway) \in Sessions
        /\ Engaged(StepThrew(Through(s, from, g - 1), g, midway))
    BY <1>3, ThrewHolds
  <2>. QED  BY <2>1, <2>2 DEF Result, Attempts
<1>8. CASE \E g \in from..to : r = Result(FALSE, Through(s, from, g), 1)
  BY <1>2, <1>8 DEF Result, Attempts
<1>. QED  BY <1>4, <1>5, <1>6, <1>7, <1>8

LEMMA RestoredHolds ==
    ASSUME NEW s \in Sessions, Engaged(s), NEW c \in -1..(Frames - 1), NEW r \in Restored(s, c)
    PROVE  r \in Attempts /\ Engaged(r.s) /\ (r.ok => r.s.held = c)
<1> DEFINE at == [s EXCEPT !.engine = c, !.held = c]
           unknown == [s EXCEPT !.engine = Lost, !.held = None]
<1>1. /\ c \in Lost..(Frames - 1) /\ c \in None..(Frames - 1)
      /\ Lost \in Lost..(Frames - 1) /\ None \in None..(Frames - 1)
  BY FramesAssumption DEF Lost, None
<1>2. at \in Sessions /\ unknown \in Sessions
  BY <1>1, Zenon DEF Sessions
<1>3. Engaged(at) /\ at.held = c /\ Engaged(unknown)
  BY DEF Sessions, Engaged
<1>4. r \in {Result(TRUE, at, 0), Result(FALSE, s, 1), Result(FALSE, unknown, 1)}
  BY DEF Restored
<1> HIDE DEF at, unknown
<1>5. CASE r = Result(TRUE, at, 0)
  BY <1>2, <1>3, <1>5 DEF Result, Attempts
<1>6. CASE r = Result(FALSE, s, 1)
  BY <1>6 DEF Result, Attempts
<1>7. CASE r = Result(FALSE, unknown, 1)
  BY <1>2, <1>3, <1>7 DEF Result, Attempts
<1>. QED  BY <1>4, <1>5, <1>6, <1>7

LEMMA ReachHolds ==
    ASSUME ring \subseteq -1..(Frames - 1), NEW s \in Sessions, Engaged(s),
           NEW goal \in 0..(Frames - 1), NEW r \in Reach(s, goal)
    PROVE  r \in Attempts /\ Engaged(r.s) /\ (r.ok => r.s.held = goal)
<1> DEFINE usable == {c \in ring : c < goal}
           latest == Max(usable)
<1>1. CASE s.held # None /\ goal = s.held + 1
  <2>1. r \in Replayed(s, goal, goal)
    BY <1>1 DEF Reach
  <2>. QED  BY <2>1, ReplayedHolds
<1>2. CASE ~(s.held # None /\ goal = s.held + 1) /\ usable = {}
  <2>1. r = Result(FALSE, s, 0)
    BY <1>2 DEF Reach
  <2>. QED  BY <2>1 DEF Result, Attempts
<1>3. CASE ~(s.held # None /\ goal = s.held + 1) /\ usable # {}
  <2>1. latest \in -1..(Frames - 1) /\ latest < goal
    <3>1. usable \subseteq -1..(Frames - 1)
      OBVIOUS
    <3>2. latest \in usable
      BY <1>3, <3>1, LastExists
    <3>. QED  BY <3>2
  <2>2. PICK a \in Restored(s, latest) :
            r \in IF a.ok THEN {Result(p.ok, p.s, a.faults + p.faults) :
                                  p \in Replayed(a.s, latest + 1, goal)}
                  ELSE {a}
    BY <1>3 DEF Reach
  <2> HIDE DEF latest
  <2>3. a \in Attempts /\ Engaged(a.s) /\ a.s \in Sessions /\ a.faults \in Nat
    BY <2>1, RestoredHolds DEF Attempts
  <2>4. CASE ~a.ok
    BY <2>2, <2>3, <2>4
  <2>5. CASE a.ok
    <3>1. PICK p \in Replayed(a.s, latest + 1, goal) :
              r = Result(p.ok, p.s, a.faults + p.faults)
      BY <2>2, <2>5
    <3>2. latest + 1 \in Nat /\ goal \in (latest + 1)..(Frames - 1)
      BY <2>1
    <3>3. p \in Attempts /\ Engaged(p.s) /\ (p.ok => p.s.held = goal)
      BY <2>3, <3>2, ReplayedHolds
    <3>4. p.ok \in BOOLEAN /\ p.s \in Sessions /\ a.faults + p.faults \in Nat
      BY <2>3, <3>3 DEF Attempts
    <3>. QED  BY <3>1, <3>3, <3>4, Zenon DEF Result, Attempts
  <2>. QED  BY <2>4, <2>5
<1>. QED  BY <1>1, <1>2, <1>3

LEMMA RecoveredHolds ==
    ASSUME ring \subseteq -1..(Frames - 1), NEW s \in Sessions, Engaged(s),
           NEW target \in 0..(Frames - 1), NEW confirmed \in 0..(Frames - 1),
           NEW r \in Recovered(s, target, confirmed)
    PROVE  /\ r.outcome \in Outcomes /\ r.s \in Sessions /\ Engaged(r.s) /\ r.faults \in Nat
           /\ r.outcome = "presented" => r.s.held = target
           /\ r.outcome = "failed_restored" => r.s.held = confirmed
<1>1. PICK a \in Reach(s, target) :
          r \in IF a.ok THEN {[outcome |-> "presented", s |-> a.s, faults |-> a.faults]}
                ELSE IF a.s.held = confirmed
                THEN {[outcome |-> "failed_restored", s |-> a.s, faults |-> a.faults]}
                ELSE {[outcome |-> IF b.ok THEN "failed_restored" ELSE "failed_unrecoverable",
                       s |-> b.s, faults |-> a.faults + b.faults] :
                         b \in Reach(a.s, confirmed)}
  BY DEF Recovered
<1>2. /\ a \in Attempts /\ Engaged(a.s) /\ (a.ok => a.s.held = target)
      /\ a.s \in Sessions /\ a.faults \in Nat
  BY ReachHolds DEF Attempts
<1>3. CASE a.ok
  BY <1>1, <1>2, <1>3 DEF Outcomes
<1>4. CASE ~a.ok /\ a.s.held = confirmed
  BY <1>1, <1>2, <1>4 DEF Outcomes
<1>5. CASE ~a.ok /\ a.s.held # confirmed
  <2>1. PICK b \in Reach(a.s, confirmed) :
            r = [outcome |-> IF b.ok THEN "failed_restored" ELSE "failed_unrecoverable",
                 s |-> b.s, faults |-> a.faults + b.faults]
    BY <1>1, <1>5
  <2>2. /\ b \in Attempts /\ Engaged(b.s) /\ (b.ok => b.s.held = confirmed)
        /\ b.s \in Sessions /\ b.faults \in Nat
    BY <1>2, ReachHolds DEF Attempts
  <2>3. a.faults + b.faults \in Nat
    BY <1>2, <2>2
  <2>. QED  BY <2>1, <2>2, <2>3 DEF Outcomes
<1>. QED  BY <1>3, <1>4, <1>5

-----------------------------------------------------------------------------
\* The commands of the controller are a sequence.

LEMMA Tuples ==
    ASSUME NEW a, NEW b, NEW c
    PROVE  /\ IsSequence(<< >>) /\ IsSequence(<<a>>) /\ IsSequence(<<a, b>>)
           /\ IsSequence(<<a, b, c>>)
<1>1. /\ << >> \in Seq({a, b, c}) /\ <<a>> \in Seq({a, b, c}) /\ <<a, b>> \in Seq({a, b, c})
      /\ <<a, b, c>> \in Seq({a, b, c})
  OBVIOUS
<1>. QED  BY <1>1 DEF IsSequence

LEMMA Joined ==
    ASSUME NEW s, NEW t, IsSequence(s), IsSequence(t)
    PROVE  /\ IsSequence(s \o t) /\ Len(s) \in Nat /\ Len(t) \in Nat
           /\ Len(s \o t) = Len(s) + Len(t)
           /\ \A i \in 1..Len(s) : (s \o t)[i] = s[i]
           /\ \A i \in (Len(s) + 1)..(Len(s) + Len(t)) : (s \o t)[i] = t[i - Len(s)]
<1>1. PICK S, T : s \in Seq(S) /\ t \in Seq(T)
  BY DEF IsSequence
<1>2. s \in Seq(S \cup T) /\ t \in Seq(S \cup T)
  BY <1>1
<1>3. s \o t \in Seq(S \cup T)
  BY <1>2
<1>. QED  BY <1>2, <1>3 DEF IsSequence

LEMMA IgnoredSequence ==
    ASSUME NEW c
    PROVE  IsSequence(Ignored(c).commands)
BY Tuples DEF Ignored, Answer

LEMMA PauseSequence ==
    ASSUME NEW c, NEW frame
    PROVE  IsSequence(PauseAt(c, frame).commands)
<1> DEFINE a == Command("present_frame", frame)
           b == Command("pause_audio", frame)
           e == Event("pause", frame)
<1>1. PauseAt(c, frame).commands = <<a, b, e>>
  BY DEF PauseAt, Answer
<1> HIDE DEF a, b, e
<1>. QED  BY <1>1, Tuples

LEMMA StepSequence ==
    ASSUME NEW c, NEW control, NEW target
    PROVE  IsSequence(StepInPause(c, control, target).commands)
<1> DEFINE a == Command("recover_frame", target)
           e == Event(control, target)
<1>1. StepInPause(c, control, target).commands \in {<< >>, <<a, e>>}
  BY DEF StepInPause, Ignored, Answer
<1> HIDE DEF a, e
<1>. QED  BY <1>1, Tuples

LEMMA ToggleSequence ==
    ASSUME NEW c
    PROVE  IsSequence(ToggleInPause(c).commands)
<1> DEFINE a == Command("resume_audio", Shown(c) + 1)
           b == Event("resume", Shown(c))
           n == Command("notice", 0)
           x == Event("advance_take", Shown(c))
           y == Command("advance_take", Shown(c))
<1>1. ToggleInPause(c).commands \in {<<a, b>>, <<n>>, <<x, y>>}
  BY DEF ToggleInPause, Answer
<1> HIDE DEF a, b, n, x, y
<1>. QED  BY <1>1, Tuples

LEMMA KeySequence ==
    ASSUME NEW c, NEW action \in KeyActions
    PROVE  IsSequence(Key(c, action).commands)
<1> DEFINE n == Command("notice", 0)
           d == Command("toggle_debug", Shown(c))
<1>1. IsSequence(<<n>>) /\ IsSequence(<<d>>)
  <2> HIDE DEF n, d
  <2>. QED  BY Tuples
<1>2. /\ Answer(c, <<n>>).commands = <<n>> /\ Answer(c, <<d>>).commands = <<d>>
  BY DEF Answer
<1>3. CASE c.phase \in {"closing", "failed"} \/ action = "info"
  BY <1>1, <1>2, <1>3, IgnoredSequence DEF Key
<1>4. CASE c.phase = "playing" /\ action # "info"
  BY <1>4, IgnoredSequence, PauseSequence DEF Key
<1>5. CASE c.phase = "paused" /\ action # "info"
  <2>1. CASE action = "toggle"
    BY <1>5, <2>1, ToggleSequence DEF Key
  <2>2. CASE action = "left"
    BY <1>5, <2>2, StepSequence DEF Key
  <2>3. CASE action = "right"
    BY <1>5, <2>3, StepSequence DEF Key
  <2>. QED  BY <1>5, <2>1, <2>2, <2>3 DEF KeyActions
<1>6. CASE c.phase \notin {"closing", "failed", "playing", "paused"} /\ action # "info"
  BY <1>1, <1>2, <1>6, IgnoredSequence DEF Key
<1>. QED  BY <1>3, <1>4, <1>5, <1>6

LEMMA FrameSequence ==
    ASSUME NEW c, NEW frame
    PROVE  IsSequence(FrameCompleted(c, frame).commands)
<1> DEFINE a == Command("confirm_linear_result", frame)
           b == Command("present_frame", frame)
           d == Command("pause_audio", frame)
           q == FrameCompleted(c, frame)
<1>1. \/ \E x : q = Ignored(x)
      \/ \E x : q = PauseAt(x, frame)
      \/ q.commands = <<a, b, d>>
  <2>1. CASE c.phase \notin {"playing", "pausing"}
    <3>1. q = Ignored(c)
      BY <2>1 DEF FrameCompleted
    <3> HIDE DEF q
    <3>. QED  BY <3>1
  <2>2. CASE c.phase = "pausing"
    <3> DEFINE x == IF frame + 1 < Frames THEN [c EXCEPT !.position = frame]
                    ELSE [[c EXCEPT !.position = frame] EXCEPT !.ended = TRUE]
    <3>1. q = PauseAt(x, frame)
      BY <2>2 DEF FrameCompleted
    <3> HIDE DEF q, x
    <3>. QED  BY <3>1
  <2>3. CASE c.phase = "playing" /\ frame + 1 < Frames
    <3> DEFINE x == [c EXCEPT !.position = frame]
    <3>1. q = Ignored(x)
      BY <2>3 DEF FrameCompleted
    <3> HIDE DEF q, x
    <3>. QED  BY <3>1
  <2>4. CASE c.phase = "playing" /\ ~(frame + 1 < Frames) /\ ~c.last
    <3> DEFINE over == [[c EXCEPT !.position = frame] EXCEPT !.ended = TRUE]
               x == [over EXCEPT !.endPending = TRUE]
    <3>1. q = Ignored(x)
      BY <2>4 DEF FrameCompleted
    <3> HIDE DEF q, x
    <3>. QED  BY <3>1
  <2>5. CASE c.phase = "playing" /\ ~(frame + 1 < Frames) /\ c.last
    BY <2>5 DEF FrameCompleted, Answer
  <2>. QED  BY <2>1, <2>2, <2>3, <2>4, <2>5
<1> HIDE DEF a, b, d, q
<1>2. IsSequence(q.commands)
  BY <1>1, Tuples, IgnoredSequence, PauseSequence
<1>. QED  BY <1>2 DEF q

LEMMA RecoverySequence ==
    ASSUME NEW c, NEW outcome \in Outcomes
    PROVE  IsSequence(RecoveryFinished(c, outcome).commands)
<1> DEFINE a == Command("present_frame", c.target)
           n == Command("notice", 0)
           b == Command("present_frame", Shown(c))
           d == Command("finish_traversal", Shown(c))
<1>1. RecoveryFinished(c, outcome).commands \in {<< >>, <<a>>, <<n, b>>, <<d>>}
  BY DEF RecoveryFinished, Ignored, Answer, Outcomes
<1> HIDE DEF a, n, b, d
<1>. QED  BY <1>1, Tuples

LEMMA OtherSequences ==
    ASSUME NEW c
    PROVE  /\ IsSequence(PresentationInterrupted(c).commands)
           /\ IsSequence(PresentationRecovered(c).commands)
           /\ IsSequence(TakeSlotReached(c).commands) /\ IsSequence(Cancel(c).commands)
<1> DEFINE a == Event("interrupted", Shown(c))
           b == Event("recovered", Shown(c))
           d == Command("present_frame", Shown(c))
           x == Command("advance_take", Shown(c))
           y == Command("close", Shown(c))
<1>1. /\ PresentationInterrupted(c).commands \in {<< >>, <<a>>}
      /\ PresentationRecovered(c).commands \in {<< >>, <<b, d>>}
      /\ TakeSlotReached(c).commands \in {<< >>, <<x>>}
      /\ Cancel(c).commands = <<y>>
  BY DEF PresentationInterrupted, PresentationRecovered, TakeSlotReached, Cancel, Ignored, Answer
<1> HIDE DEF a, b, d, x, y
<1>. QED  BY <1>1, Tuples

-----------------------------------------------------------------------------
\* The channel, and the session after the commands of the controller.

LEMMA WireFields ==
    ASSUME NEW w \in Wires
    PROVE  /\ w.ahead \in Int /\ w.mode \in {"take", "paused", "done", "invalid"}
           /\ w.post \in {"none", "open", "closed", "spoiled"}
           /\ w.pending \subseteq {"take", "post"} /\ w.stopped \in BOOLEAN
           /\ w.facts \in 0..(BatchCapacity - 1)
BY DEF Wires, Reading

\* A status changes nothing of what is carried.
LEMMA StatusStays ==
    ASSUME NEW w, NEW f, NEW ts, NEW ev, Carries(w, f, ts, ev)
    PROVE  Status(w) = w
<1>1. w.mode \in Reading => w.ahead = 0
  BY DEF Carries, Reading
<1>. QED  BY <1>1 DEF Status, Sent, Received

\* A channel that still carries its messages is unreadable for the one reason there is.
LEMMA CarriesReadable ==
    ASSUME NEW w \in Wires, NEW f, NEW ts, NEW ev, Carries(w, f, ts, ev)
    PROVE  w.mode = "invalid" <=> Fills(ts, ev)
<1>1. CASE ~f.confirmed
  BY <1>1 DEF Carries, Fills, PausedBy
<1>2. CASE f.confirmed /\ w.mode = "done" /\ ~ts[1].paused
  BY <1>2 DEF Fills, PausedBy
<1>3. CASE f.confirmed /\ w.mode = "invalid" /\ Fills(ts, ev)
  BY <1>3
<1>4. CASE /\ f.confirmed /\ w.mode = "paused" /\ ts[1].after \in Nat
           /\ Len(ev) = ts[1].after + w.facts
  BY <1>4, WireFields, SessionAssumption DEF Fills
<1>5. CASE f.confirmed /\ w.mode = "paused" /\ ~Fills(ts, ev)
  BY <1>5
<1>. QED  BY <1>1, <1>2, <1>3, <1>4, <1>5 DEF Carries

\* Facts before the confirmed result are the worker's to send.
LEMMA PushedInTake ==
    ASSUME NEW w \in Wires, ~w.stopped, NEW run \in {"take", "post"}, NEW n
    PROVE  LET v == Pushed(w, run, n) IN
           /\ v \in Wires /\ v.mode = w.mode /\ v.ahead = w.ahead /\ v.post = w.post
           /\ v.stopped = w.stopped /\ v.facts = w.facts
<1> DEFINE p == w.pending \cup {run}
           v == Pushed(w, run, n)
<1>1. p \in SUBSET {"take", "post"}
  BY WireFields
<1>2. v = [w EXCEPT !.pending = p]
  BY Zenon DEF Pushed, Wires
<1> HIDE DEF p, v
<1>3. v \in Wires
  BY <1>1, <1>2, Zenon DEF Wires
<1>4. /\ v.mode = w.mode /\ v.ahead = w.ahead /\ v.post = w.post
      /\ v.stopped = w.stopped /\ v.facts = w.facts
  BY <1>2 DEF Wires
<1>. QED  BY <1>3, <1>4 DEF v

\* Facts after it are gathered until they fill a batch, which the supervisor reads only
\* while a post-end run is open.
LEMMA PushedAfter ==
    ASSUME NEW w \in Wires, w.stopped, w.mode # "take", w.mode = "paused" => w.ahead = 0,
           NEW run \in {"take", "post"}, NEW n \in Nat
    PROVE  LET v == Pushed(w, run, n) IN
           /\ v \in Wires /\ v.stopped
           /\ w.facts + n < BatchCapacity =>
                 /\ v.mode = w.mode /\ v.ahead = w.ahead /\ v.post = w.post
                 /\ v.facts = w.facts + n
           /\ w.mode \in {"done", "invalid"} => v.mode = w.mode
           /\ w.mode = "paused" /\ w.post \in {"open", "spoiled"} =>
                 v.mode = "paused" /\ v.ahead = 0 /\ v.post \in {"open", "spoiled"}
           /\ w.mode = "paused" /\ w.post = "none" /\ w.facts + n >= BatchCapacity =>
                 v.mode = "invalid"
<1> DEFINE filled == w.facts + n
           left == filled % BatchCapacity
           p == w.pending \cup {run}
           full == [w EXCEPT !.pending = p]
           v == Pushed(w, run, n)
<1>1. /\ p \in SUBSET {"take", "post"} /\ filled \in Nat /\ left \in 0..(BatchCapacity - 1)
      /\ run \in p
  <2>1. filled \in Nat /\ BatchCapacity \in Nat \ {0}
    BY WireFields, SessionAssumption
  <2> HIDE DEF filled
  <2>2. left \in 0..(BatchCapacity - 1)
    BY <2>1
  <2>. QED  BY <2>1, <2>2, WireFields
<1> HIDE DEF p, left
<1>2. full \in Wires
  BY <1>1, Zenon DEF Wires
<1>3. /\ full.mode = w.mode /\ full.ahead = w.ahead /\ full.post = w.post /\ full.stopped
      /\ full.pending = p
  BY DEF Wires
<1>4. v = IF filled < BatchCapacity THEN [full EXCEPT !.facts = filled]
          ELSE [Flushed(full) EXCEPT !.facts = left,
                                     !.pending = IF left = 0 THEN {} ELSE {run}]
  BY Zenon DEF Pushed, p, left
<1> HIDE DEF full
<1>5. CASE filled < BatchCapacity
  <2>1. v = [full EXCEPT !.facts = filled] /\ filled \in 0..(BatchCapacity - 1)
    BY <1>1, <1>4, <1>5, SessionAssumption
  <2> HIDE DEF filled, v
  <2>2. v \in Wires
    BY <1>2, <2>1, Zenon DEF Wires
  <2>3. /\ v.mode = w.mode /\ v.ahead = w.ahead /\ v.post = w.post /\ v.stopped
        /\ v.facts = filled
    BY <1>2, <1>3, <2>1 DEF Wires
  <2>4. ~(w.facts + n >= BatchCapacity)
    BY <1>1, <1>5, SessionAssumption DEF filled
  <2>. QED  BY <1>3, <1>5, <2>2, <2>3, <2>4 DEF v, filled
<1>6. CASE ~(filled < BatchCapacity)
  <2> DEFINE m == [type |-> "facts", runs |-> p]
             r == Sent(full, m)
             q == IF left = 0 THEN {} ELSE {run}
  <2>1. Flushed(full) = [r EXCEPT !.pending = {}, !.facts = 0]
    BY <1>1, <1>3 DEF Flushed
  <2>2. q \in SUBSET {"take", "post"}
    OBVIOUS
  <2>3. /\ r \in Wires /\ r.stopped
        /\ w.mode \in {"done", "invalid"} => r.mode = w.mode
        /\ w.mode = "paused" /\ w.post \in {"open", "spoiled"} =>
              r.mode = "paused" /\ r.ahead = 0 /\ r.post \in {"open", "spoiled"}
        /\ w.mode = "paused" /\ w.post = "none" => r.mode = "invalid"
    <3> DEFINE post == IF p = {"post"} THEN full.post ELSE "spoiled"
    <3>1. \/ w.mode \in {"done", "invalid"} /\ r = full
          \/ /\ w.mode = "paused" /\ w.post \in {"open", "spoiled"}
             /\ r = [full EXCEPT !.post = post]
          \/ /\ w.mode = "paused" /\ w.post \in {"none", "closed"}
             /\ r = [full EXCEPT !.mode = "invalid"]
      BY <1>3, WireFields DEF Sent, Received, Reading
    <3>2. post \in {"none", "open", "closed", "spoiled"}
          /\ (w.post \in {"open", "spoiled"} => post \in {"open", "spoiled"})
      BY <1>3, WireFields
    <3> HIDE DEF post, r
    <3>3. [full EXCEPT !.post = post] \in Wires /\ [full EXCEPT !.mode = "invalid"] \in Wires
      BY <1>2, <3>2, Zenon DEF Wires
    <3>. QED  BY <1>2, <1>3, <3>1, <3>2, <3>3 DEF Wires
  <2> HIDE DEF r, q
  <2>4. v = [r EXCEPT !.pending = q, !.facts = left]
    <3>1. v = [Flushed(full) EXCEPT !.facts = left, !.pending = q]
      BY <1>4, <1>6 DEF q
    <3> HIDE DEF v
    <3>. QED  BY <2>1, <2>3, <3>1 DEF Wires
  <2>5. v \in Wires
    <3> HIDE DEF v
    <3>. QED  BY <1>1, <2>2, <2>3, <2>4, Zenon DEF Wires
  <2>6. v.mode = r.mode /\ v.ahead = r.ahead /\ v.post = r.post /\ v.stopped
    <3> HIDE DEF v
    <3>. QED  BY <2>3, <2>4 DEF Wires
  <2> HIDE DEF v
  <2>. QED  BY <1>6, <2>3, <2>5, <2>6 DEF v, filled
<1>. QED  BY <1>5, <1>6

\* One fact, without an event, where the facts are not the events since the result.
LEMMA FactRead ==
    ASSUME NEW w \in Wires, NEW f \in Flags, NEW ts, NEW ev, Carries(w, f, ts, ev),
           ~f.confirmed \/ f.post = 1
    PROVE  LET v == Pushed(w, RunOf(f), 1) IN v \in Wires /\ Carries(v, f, ts, ev)
<1> DEFINE n == 1
           run == RunOf(f)
           v == Pushed(w, run, n)
<1>1. n \in Nat /\ run \in {"take", "post"}
  BY DEF RunOf
<1>2. v \in Wires /\ Carries(v, f, ts, ev)
  <2> HIDE DEF n, run, v
  <2>1. CASE ~f.confirmed
    <3>1. /\ v \in Wires /\ v.mode = w.mode /\ v.ahead = w.ahead /\ v.post = w.post
          /\ v.stopped = w.stopped /\ v.facts = w.facts
      BY <1>1, <2>1, PushedInTake DEF Carries, v
    <3>. QED  BY <2>1, <3>1 DEF Carries
  <2>2. CASE f.confirmed
    <3>1. /\ w.stopped /\ w.mode # "take" /\ (w.mode = "paused" => w.ahead = 0)
      BY <2>2 DEF Carries
    <3>2. /\ v \in Wires /\ v.stopped
          /\ w.mode \in {"done", "invalid"} => v.mode = w.mode
          /\ w.mode = "paused" /\ w.post \in {"open", "spoiled"} =>
                v.mode = "paused" /\ v.ahead = 0 /\ v.post \in {"open", "spoiled"}
      BY <1>1, <3>1, PushedAfter DEF v
    <3>. QED  BY <2>2, <3>2 DEF Carries
  <2>. QED  BY <2>1, <2>2
<1>. QED  BY <1>2

\* More events leave a batch they filled filled, and events of a post-end run fill none.
LEMMA FillsGrows ==
    ASSUME NEW ts, PausedBy(ts) => ts[1].after \in Nat, NEW ev, IsSequence(ev),
           NEW e, IsSequence(e)
    PROVE  /\ Fills(ts, ev) => Fills(ts, ev \o e)
           /\ (\A i \in 1..Len(e) : e[i].run # "take") /\ Fills(ts, ev \o e) => Fills(ts, ev)
           /\ \A k \in Nat : /\ PausedBy(ts) /\ Len(ev) = ts[1].after + k /\ k < BatchCapacity
                             /\ k + Len(e) >= BatchCapacity
                             /\ \A i \in 1..Len(e) : e[i].run = "take"
                             => Fills(ts, ev \o e)
<1> DEFINE n == ts[1].after + BatchCapacity
           a == ev \o e
<1>1. /\ Len(ev) \in Nat /\ Len(e) \in Nat /\ Len(a) = Len(ev) + Len(e)
      /\ \A i \in 1..Len(ev) : a[i] = ev[i]
      /\ \A i \in (Len(ev) + 1)..(Len(ev) + Len(e)) : a[i] = e[i - Len(ev)]
  BY Joined
<1>2. PausedBy(ts) => n \in Nat /\ n >= 1
  BY SessionAssumption
<1>3. \A x : Fills(ts, x) <=> PausedBy(ts) /\ n <= Len(x) /\ x[n].run = "take"
  BY DEF Fills
<1> HIDE DEF a
<1>4. PausedBy(ts) /\ n <= Len(ev) => a[n] = ev[n] /\ n <= Len(a)
  <2> HIDE DEF n
  <2>. QED  BY <1>1, <1>2
<1>5. PausedBy(ts) /\ ~(n <= Len(ev)) /\ n <= Len(a)
        => a[n] = e[n - Len(ev)] /\ n - Len(ev) \in 1..Len(e)
  <2> HIDE DEF n
  <2>. QED  BY <1>1, <1>2
<1>6. ASSUME NEW k \in Nat, PausedBy(ts), Len(ev) = ts[1].after + k, k < BatchCapacity,
             k + Len(e) >= BatchCapacity
      PROVE  ~(n <= Len(ev)) /\ n <= Len(a)
  <2> DEFINE after == ts[1].after
             total == Len(ev) + Len(e)
  <2>1. /\ after \in Nat /\ BatchCapacity \in Nat /\ Len(ev) = after + k
        /\ n = after + BatchCapacity /\ Len(a) = total
    BY <1>1, <1>6, SessionAssumption
  <2>2. Len(e) \in Nat /\ total = after + k + Len(e)
    BY <1>1, <2>1
  <2> HIDE DEF after, total, n
  <2>. QED  BY <1>6, <2>1, <2>2
<1> HIDE DEF n
<1>7. Fills(ts, ev) => Fills(ts, a)
  BY <1>3, <1>4
<1>8. (\A i \in 1..Len(e) : e[i].run # "take") /\ Fills(ts, a) => Fills(ts, ev)
  BY <1>3, <1>4, <1>5
<1>9. \A k \in Nat : /\ PausedBy(ts) /\ Len(ev) = ts[1].after + k /\ k < BatchCapacity
                     /\ k + Len(e) >= BatchCapacity
                     /\ \A i \in 1..Len(e) : e[i].run = "take"
                     => Fills(ts, a)
  BY <1>3, <1>5, <1>6
<1>. QED  BY <1>7, <1>8, <1>9 DEF a

\* The events of the controller's commands, each of the run that is current.
LEMMA EventsTyped ==
    ASSUME NEW run, NEW commands, IsSequence(commands)
    PROVE  /\ IsSequence(EventsOf(run, commands))
           /\ \A i \in 1..Len(EventsOf(run, commands)) : EventsOf(run, commands)[i].run = run
<1> DEFINE emitting == {i \in 1..Len(commands) :
                           commands[i].kind \in {"inspection_event", "toggle_debug"}}
           nth(n) == CHOOSE i \in emitting : Cardinality({j \in emitting : j < i}) = n - 1
           e(n) == EventOf(run, commands[nth(n)])
           size == Cardinality(emitting)
           S == {e(n) : n \in 1..size}
<1>1. EventsOf(run, commands) = [n \in 1..size |-> e(n)]
  BY Zenon DEF EventsOf
<1>2. size \in Nat
  <2>1. Len(commands) \in Nat
    BY DEF IsSequence
  <2>2. IsFiniteSet(1..Len(commands))
    BY <2>1, FS_Interval
  <2>3. IsFiniteSet(emitting)
    BY <2>2, FS_Subset
  <2> HIDE DEF emitting
  <2>. QED  BY <2>3, FS_CardinalityType
<1>3. \A n : e(n).run = run
  BY DEF EventOf, Emitted
<1> HIDE DEF emitting, nth, e, size
<1>4. [n \in 1..size |-> e(n)] \in Seq(S)
  BY <1>2
<1>5. Len([n \in 1..size |-> e(n)]) = size
  BY <1>2
<1>. QED  BY <1>1, <1>3, <1>4, <1>5 DEF IsSequence

\* The events of the current run, pushed as facts.
LEMMA EventsRead ==
    ASSUME NEW w \in Wires, NEW f \in Flags, NEW ts, NEW ev, IsSequence(ev),
           Carries(w, f, ts, ev), NEW e, IsSequence(e),
           \A i \in 1..Len(e) : e[i].run = RunOf(f)
    PROVE  LET v == Pushed(w, RunOf(f), Len(e)) IN v \in Wires /\ Carries(v, f, ts, ev \o e)
<1> DEFINE n == Len(e)
           run == RunOf(f)
           v == Pushed(w, run, n)
           a == ev \o e
<1>1. /\ n \in Nat /\ run \in {"take", "post"} /\ Len(a) = Len(ev) + n /\ Len(ev) \in Nat
      /\ f.post = 0 => run = "take"
      /\ f.post = 1 => run # "take"
  BY Joined DEF RunOf
<1>2. v \in Wires /\ Carries(v, f, ts, a)
  <2> HIDE DEF n, run, v, a
  <2>1. CASE ~f.confirmed
    <3>1. /\ v \in Wires /\ v.mode = w.mode /\ v.ahead = w.ahead /\ v.post = w.post
          /\ v.stopped = w.stopped /\ v.facts = w.facts
      BY <1>1, <2>1, PushedInTake DEF Carries, v
    <3>. QED  BY <2>1, <3>1 DEF Carries
  <2>2. CASE f.confirmed
    <3>1. /\ w.stopped /\ w.mode # "take" /\ (w.mode = "paused" => w.ahead = 0)
          /\ Len(ts) > 0 /\ ts[1].after \in Nat
      BY <2>2 DEF Carries
    <3>2. /\ v \in Wires /\ v.stopped
          /\ w.facts + n < BatchCapacity =>
                /\ v.mode = w.mode /\ v.ahead = w.ahead /\ v.post = w.post
                /\ v.facts = w.facts + n
          /\ w.mode \in {"done", "invalid"} => v.mode = w.mode
          /\ w.mode = "paused" /\ w.post \in {"open", "spoiled"} =>
                v.mode = "paused" /\ v.ahead = 0 /\ v.post \in {"open", "spoiled"}
          /\ w.mode = "paused" /\ w.post = "none" /\ w.facts + n >= BatchCapacity =>
                v.mode = "invalid"
      BY <1>1, <3>1, PushedAfter DEF v
    <3>3. Fills(ts, ev) => Fills(ts, a)
      BY <3>1, FillsGrows DEF a
    <3>4. CASE w.mode = "done" /\ ~ts[1].paused
      BY <2>2, <3>1, <3>2, <3>4 DEF Carries
    <3>5. CASE w.mode = "invalid" /\ Fills(ts, ev)
      BY <2>2, <3>1, <3>2, <3>3, <3>5 DEF Carries
    <3>6. CASE /\ w.mode = "paused" /\ w.ahead = 0 /\ w.post = "none" /\ f.post = 0
               /\ ts[1].paused /\ Len(ev) = ts[1].after + w.facts
      <4>1. w.facts \in Nat /\ w.facts < BatchCapacity
        BY WireFields, SessionAssumption
      <4>2. CASE w.facts + n < BatchCapacity
        <5>1. Len(a) = ts[1].after + v.facts
          BY <1>1, <3>1, <3>2, <3>6, <4>1, <4>2
        <5>. QED  BY <2>2, <3>1, <3>2, <3>6, <4>2, <5>1 DEF Carries
      <4>3. CASE ~(w.facts + n < BatchCapacity)
        <5>1. w.facts + n >= BatchCapacity
          BY <1>1, <4>1, <4>3, SessionAssumption
        <5>2. PausedBy(ts)
          BY <3>1, <3>6 DEF PausedBy
        <5>3. \A i \in 1..Len(e) : e[i].run = "take"
          BY <1>1, <3>6 DEF run
        <5>4. Fills(ts, a)
          BY <3>1, <3>6, <4>1, <5>1, <5>2, <5>3, FillsGrows DEF a, n
        <5>. QED  BY <2>2, <3>1, <3>2, <3>6, <5>1, <5>4 DEF Carries
      <4>. QED  BY <4>2, <4>3
    <3>7. CASE /\ w.mode = "paused" /\ w.ahead = 0 /\ w.post \in {"open", "spoiled"}
               /\ f.post = 1 /\ ~Fills(ts, ev)
      <4>1. \A i \in 1..Len(e) : e[i].run # "take"
        BY <1>1, <3>7 DEF run
      <4>2. ~Fills(ts, a)
        BY <3>1, <3>7, <4>1, FillsGrows DEF a
      <4>. QED  BY <2>2, <3>1, <3>2, <3>7, <4>2 DEF Carries
    <3>. QED  BY <2>2, <3>4, <3>5, <3>6, <3>7 DEF Carries
  <2>. QED  BY <2>1, <2>2
<1>. QED  BY <1>2

SameEngine(s, t) ==
    /\ s \in Sessions /\ s.engine = t.engine /\ s.held = t.held /\ s.completed = t.completed
    /\ s.loopFailed = t.loopFailed

\* What the channel carries depends on the flags by the confirmation and the run alone.
LEMMA SameFlags ==
    ASSUME NEW w, NEW f, NEW g, NEW ts, NEW ev, Carries(w, f, ts, ev),
           g.confirmed = f.confirmed, g.post = f.post
    PROVE  Carries(w, g, ts, ev)
BY DEF Carries

LEMMA AppliedCommands ==
    ASSUME NEW answer, IsSequence(answer.commands), NEW w \in Wires, NEW s \in Sessions,
           NEW f \in Flags, NEW more, IsSequence(more),
           \A i \in 1..Len(more) : more[i].run = RunOf(f),
           IsSequence(events), Carries(w, f, terminals, events),
           Apply(answer, w, s, f, more), terminals' = terminals
    PROVE  /\ ctl' = answer.ctl
           /\ SameEngine(session', s)
           /\ flags' \in Flags /\ flags'.confirmed = f.confirmed /\ flags'.post = f.post
           /\ IsSequence(events') /\ wire' \in Wires
           /\ Carries(wire', flags', terminals', events')
<1> DEFINE audible == s.audible \/ Has(answer.commands, "resume_audio")
           atEnd == \/ f.pausedAtEnd \/ Has(answer.commands, "confirm_linear_result")
                    \/ \E i \in 1..Len(answer.commands) :
                          /\ answer.commands[i].kind = "pause_audio"
                          /\ answer.commands[i].frame + 1 = Frames
           failed == f.failed \/ Has(answer.commands, "finish_traversal")
           done == f.done \/ \E kind \in Ends : Has(answer.commands, kind)
           own == EventsOf(RunOf(f), answer.commands)
           emitted == more \o own
<1>1. audible \in BOOLEAN /\ atEnd \in BOOLEAN /\ failed \in BOOLEAN /\ done \in BOOLEAN
  OBVIOUS
<1>2. session' = [s EXCEPT !.audible = audible]
  BY DEF Apply
<1>3. flags' = [f EXCEPT !.pausedAtEnd = atEnd, !.failed = failed, !.done = done]
  BY Zenon DEF Apply
<1>4. /\ ctl' = answer.ctl /\ events' = events \o emitted
      /\ wire' = IF emitted = << >> THEN w ELSE Pushed(w, RunOf(f), Len(emitted))
  BY Zenon DEF Apply
<1> HIDE DEF audible, atEnd, failed, done
<1>5. session' \in Sessions
  BY <1>1, <1>2, Zenon DEF Sessions
<1>6. flags' \in Flags
  BY <1>1, <1>3, Zenon DEF Flags
<1>7. flags'.confirmed = f.confirmed /\ flags'.post = f.post
  BY <1>3, <1>6 DEF Flags
<1>8. SameEngine(session', s)
  BY <1>2, <1>5 DEF SameEngine, Sessions
<1>9. IsSequence(emitted) /\ \A i \in 1..Len(emitted) : emitted[i].run = RunOf(f)
  <2>1. IsSequence(own) /\ \A i \in 1..Len(own) : own[i].run = RunOf(f)
    BY EventsTyped
  <2> HIDE DEF own
  <2>2. /\ IsSequence(emitted) /\ Len(more) \in Nat /\ Len(own) \in Nat
        /\ Len(emitted) = Len(more) + Len(own)
        /\ \A i \in 1..Len(more) : emitted[i] = more[i]
        /\ \A i \in (Len(more) + 1)..(Len(more) + Len(own)) : emitted[i] = own[i - Len(more)]
    BY <2>1, Joined
  <2> HIDE DEF emitted
  <2>3. ASSUME NEW i \in 1..Len(emitted)  PROVE emitted[i].run = RunOf(f)
    <3>1. CASE i <= Len(more)
      BY <2>2, <3>1
    <3>2. CASE ~(i <= Len(more))
      <4>1. i \in (Len(more) + 1)..(Len(more) + Len(own)) /\ i - Len(more) \in 1..Len(own)
        BY <2>2, <3>2
      <4>. QED  BY <2>1, <2>2, <4>1
    <3>. QED  BY <3>1, <3>2
  <2>. QED  BY <2>2, <2>3
<1> HIDE DEF emitted, own
<1>10. IsSequence(events')
  BY <1>4, <1>9, Joined
<1>11. wire' \in Wires /\ Carries(wire', f, terminals, events')
  <2>1. CASE emitted = << >>
    <3>1. events' = events
      BY <1>4, <2>1 DEF IsSequence
    <3>. QED  BY <1>4, <2>1, <3>1
  <2>2. CASE emitted # << >>
    BY <1>4, <1>9, <2>2, EventsRead
  <2>. QED  BY <2>1, <2>2
<1>12. Carries(wire', flags', terminals', events')
  <2>1. Carries(wire', flags', terminals, events')
    BY <1>7, <1>11, SameFlags
  <2>. QED  BY <2>1
<1>. QED  BY <1>4, <1>6, <1>7, <1>8, <1>10, <1>11, <1>12

\* Facts of the take are read until its result, and stopping the observation flushes them.
LEMMA FlushedInTake ==
    ASSUME NEW w \in Wires, w.mode = "take", w.ahead = 0, w.facts = 0
    PROVE  /\ Flushed(w) \in Wires /\ Flushed(w).mode = "take" /\ Flushed(w).ahead = 0
           /\ Flushed(w).post = w.post /\ Flushed(w).facts = 0
           /\ Flushed(w).stopped = w.stopped
           /\ Stopped(w) \in Wires /\ Stopped(w).mode = "take" /\ Stopped(w).ahead = 0
           /\ Stopped(w).post = w.post /\ Stopped(w).facts = 0 /\ Stopped(w).stopped
<1> DEFINE m == [type |-> "facts", runs |-> w.pending]
           v == Flushed(w)
           u == Stopped(w)
<1>1. Sent(w, m) = w
  BY DEF Sent, Received, Reading
<1>2. v = w \/ v = [w EXCEPT !.pending = {}, !.facts = 0]
  BY <1>1 DEF Flushed
<1>3. [w EXCEPT !.pending = {}, !.facts = 0] \in Wires
  BY SessionAssumption, Zenon, 0 \in 0..(BatchCapacity - 1) DEF Wires
<1>4. /\ v \in Wires /\ v.mode = "take" /\ v.ahead = 0 /\ v.post = w.post /\ v.facts = 0
      /\ v.stopped = w.stopped
  BY <1>2, <1>3 DEF Wires
<1>5. u = IF w.stopped THEN w ELSE [v EXCEPT !.stopped = TRUE]
  BY DEF Stopped
<1> HIDE DEF v, u
<1>6. [v EXCEPT !.stopped = TRUE] \in Wires
  BY <1>4, Zenon DEF Wires
<1>7. /\ u \in Wires /\ u.mode = "take" /\ u.ahead = 0 /\ u.post = w.post /\ u.facts = 0
      /\ u.stopped
  BY <1>4, <1>5, <1>6 DEF Wires
<1>. QED  BY <1>4, <1>7 DEF v, u

\* The terminal of the take ends its reading.
LEMMA TerminalRead ==
    ASSUME NEW w \in Wires, w.mode = "take", w.ahead = 0,
           NEW playback, NEW linear, NEW ok, NEW paused \in BOOLEAN
    PROVE  LET m == Terminal("take", playback, linear, ok, paused)
               v == Sent(w, m)
               u == SentUnnumbered(w, m)
           IN  /\ v \in Wires /\ v.ahead = 0 /\ v.post = w.post /\ v.stopped = w.stopped
               /\ v.mode = (IF paused THEN "paused" ELSE "done") /\ v.facts = w.facts
               /\ u \in Wires /\ u.mode = v.mode /\ u.stopped = w.stopped
<1> DEFINE m == Terminal("take", playback, linear, ok, paused)
           mode == IF paused THEN "paused" ELSE "done"
           v == Sent(w, m)
           u == SentUnnumbered(w, m)
<1>1. m.type = "terminal" /\ m.paused = paused
  BY DEF Terminal
<1>2. v = [w EXCEPT !.mode = mode]
  BY <1>1 DEF Sent, Received, Reading
<1>3. u = [v EXCEPT !.ahead = v.ahead - 1]
  BY <1>1, <1>2 DEF SentUnnumbered, Sent, Received, Wires
<1>4. mode \in Reading \cup {"done", "invalid"}
  BY DEF Reading
<1> HIDE DEF mode, m
<1>5. /\ v \in Wires /\ v.mode = mode /\ v.ahead = w.ahead /\ v.post = w.post
      /\ v.stopped = w.stopped /\ v.facts = w.facts
  <2>1. v \in Wires
    BY <1>2, <1>4, Zenon DEF Wires
  <2>. QED  BY <1>2, <2>1 DEF Wires
<1> HIDE DEF v
<1>6. u \in Wires /\ u.mode = v.mode /\ u.stopped = v.stopped
  <2>1. v.ahead - 1 \in Int
    BY <1>5
  <2>2. u \in Wires
    BY <1>3, <1>5, <2>1, Zenon DEF Wires
  <2>. QED  BY <1>3, <1>5, <2>2 DEF Wires
<1>. QED  BY <1>5, <1>6 DEF mode, v, m

LEMMA FailureRead ==
    ASSUME NEW w \in Wires, w.mode = "take", w.ahead = 0, NEW playback, NEW linear, NEW ok
    PROVE  LET u == SentUnnumbered(w, Terminal("take", playback, linear, ok, FALSE))
           IN  u \in Wires /\ u.mode = "done" /\ u.stopped = w.stopped
<1> DEFINE paused == FALSE
           u == SentUnnumbered(w, Terminal("take", playback, linear, ok, paused))
<1>1. paused \in BOOLEAN /\ ~paused
  OBVIOUS
<1>2. u = SentUnnumbered(w, Terminal("take", playback, linear, ok, FALSE))
  OBVIOUS
<1> HIDE DEF paused
<1>3. u \in Wires /\ u.mode = "done" /\ u.stopped = w.stopped
  BY <1>1, TerminalRead
<1> HIDE DEF u
<1>. QED  BY <1>2, <1>3

\* A result that is sent adds one message at the end.
Adds(s, t, m) ==
    /\ IsSequence(t)
    /\ Len(s) \in Nat /\ Len(t) = Len(s) + 1
    /\ t[Len(s) + 1] = m
    /\ \A i \in 1..Len(s) : t[i] = s[i]

LEMMA AppendAdds ==
    ASSUME NEW s, IsSequence(s), NEW m
    PROVE  Adds(s, Append(s, m), m)
<1>1. PICK S : s \in Seq(S)
  BY DEF IsSequence
<1> DEFINE T == S \cup {m}
<1>2. s \in Seq(T)
  BY <1>1, SeqMonotonic
<1>3. m \in T
  OBVIOUS
<1> HIDE DEF T
<1>4. /\ Append(s, m) \in Seq(T) /\ Len(Append(s, m)) = Len(s) + 1
      /\ \A i \in 1..Len(s) : Append(s, m)[i] = s[i]
      /\ Append(s, m)[Len(s) + 1] = m
  BY <1>2, <1>3, AppendProperties
<1>5. Len(s) \in Nat
  BY <1>2, LenProperties
<1>. QED  BY <1>4, <1>5 DEF Adds, IsSequence

\* A first result that is not paused, or is paused with no event after it, fills no batch.
LEMMA FirstResult ==
    ASSUME NEW ts, Len(ts) = 0, NEW us, NEW m, Adds(ts, us, m), NEW ev, Len(ev) \in Nat,
           m.after = Len(ev)
    PROVE  /\ us[1] = m /\ Len(us) > 0 /\ us[1].after \in Nat /\ ~Fills(us, ev)
<1>1. us[1] = m /\ Len(us) = 1
  BY DEF Adds
<1>2. ~(m.after + BatchCapacity <= Len(ev))
  BY SessionAssumption
<1>. QED  BY <1>1, <1>2 DEF Fills

\* Before the confirmed result the channel is read, nothing is unsent and no result is sent.
LEMMA InTake ==
    ASSUME Typed, ~flags.confirmed, Carries(wire, flags, terminals, events)
    PROVE  /\ wire \in Wires /\ wire.mode = "take" /\ wire.ahead = 0 /\ wire.post = "none"
           /\ wire.facts = 0 /\ ~wire.stopped /\ flags.post = 0
           /\ IsSequence(terminals) /\ Len(terminals) = 0
           /\ IsSequence(events) /\ Len(events) \in Nat
<1>1. IsSequence(events)
  BY DEF Typed
<1>2. Len(events) \in Nat
  BY <1>1 DEF IsSequence
<1>. QED  BY <1>1, <1>2 DEF Typed, Carries

\* What a failed session leaves, whatever it was doing.
LEMMA FailedSession ==
    ASSUME Typed, ~flags.confirmed, Carries(wire, flags, terminals, events),
           NEW s \in Sessions, FailSession(s)
    PROVE  /\ SameEngine(session', s)
           /\ wire' \in Wires /\ wire'.mode = "done" /\ wire'.stopped
           /\ \E m : /\ Adds(terminals, terminals', m)
                     /\ m.linear => s.completed = Frames /\ ~ctl.inspected
                     /\ ~m.paused /\ m.after = Len(events)
<1> DEFINE playback == IF s.completed = Frames THEN "natural_end" ELSE "failed"
           linear == s.completed = Frames /\ ~ctl.inspected
           m == Terminal("take", playback, linear, FALSE, FALSE)
<1>1. /\ wire \in Wires /\ wire.mode = "take" /\ wire.ahead = 0 /\ wire.facts = 0
      /\ IsSequence(terminals)
  BY InTake
<1>2. /\ session' = IF wire.stopped THEN s ELSE [s EXCEPT !.open = FALSE]
      /\ wire' = SentUnnumbered(Stopped(wire), m)
      /\ terminals' = Append(terminals, m)
  BY Zenon DEF FailSession
<1>3. SameEngine(session', s)
  <2>1. [s EXCEPT !.open = FALSE] \in Sessions
    BY Zenon DEF Sessions
  <2>. QED  BY <1>2, <2>1 DEF SameEngine, Sessions
<1>4. wire' \in Wires /\ wire'.mode = "done" /\ wire'.stopped
  <2>1. /\ Stopped(wire) \in Wires /\ Stopped(wire).mode = "take" /\ Stopped(wire).ahead = 0
        /\ Stopped(wire).stopped
    BY <1>1, FlushedInTake
  <2> HIDE DEF playback, linear
  <2>. QED  BY <1>2, <2>1, FailureRead
<1>5. /\ Adds(terminals, terminals', m) /\ m.linear = linear /\ m.paused = FALSE
      /\ m.after = Len(events)
  BY <1>1, <1>2, AppendAdds DEF Terminal
<1>. QED  BY <1>3, <1>4, <1>5

\* What the end of the production leaves: the result of the take is sent, and says linear
\* only of a whole take without a step.
TakeFinished ==
    /\ SameEngine(session', session)
    /\ wire' \in Wires /\ wire'.mode \in {"paused", "done"} /\ wire'.stopped
    /\ wire'.mode = "paused" => wire'.ahead = 0 /\ wire'.post = "none" /\ wire'.facts = 0
    /\ \E m : /\ Adds(terminals, terminals', m)
              /\ m.linear => session.completed = Frames /\ ~ctl.inspected
              /\ m.paused <=> wire'.mode = "paused"
              /\ m.after = Len(events)
    /\ bounds' \in [inputs : 0..MaxInputs, faults : 0..MaxFaults]

LEMMA FinishedTake ==
    ASSUME Typed, ~flags.confirmed, Carries(wire, flags, terminals, events),
           NEW keep \in BOOLEAN, Finish(keep)
    PROVE  TakeFinished
<1> DEFINE s1 == [session EXCEPT !.audible = TRUE,
                                 !.finished = @ \/ (AtEnd /\ ~session.loopFailed)]
           s2 == [s1 EXCEPT !.open = keep]
           w1 == Stopped(IF keep THEN wire ELSE Status(wire))
           f1 == session.finished \/ (AtEnd /\ ~session.loopFailed)
<1>1. /\ wire \in Wires /\ wire.mode = "take" /\ wire.ahead = 0 /\ wire.post = "none"
      /\ wire.facts = 0 /\ IsSequence(terminals)
      /\ session \in Sessions
      /\ bounds \in [inputs : 0..MaxInputs, faults : 0..MaxFaults]
  BY InTake DEF Typed
<1>2. SameEngine(s1, session) /\ SameEngine(s2, session)
  <2>1. f1 \in BOOLEAN
    OBVIOUS
  <2>2. s1 = [session EXCEPT !.audible = TRUE, !.finished = f1]
    BY <1>1 DEF Sessions
  <2> HIDE DEF f1
  <2>3. [session EXCEPT !.audible = TRUE, !.finished = f1] \in Sessions
    BY <1>1, <2>1, Zenon DEF Sessions
  <2>4. SameEngine(s1, session)
    <3>1. s1 \in Sessions
      BY <2>2, <2>3
    <3> HIDE DEF s1
    <3>. QED  BY <1>1, <2>2, <3>1 DEF SameEngine, Sessions
  <2> HIDE DEF s1
  <2>5. s2 \in Sessions
    BY <2>4, Zenon DEF SameEngine, Sessions
  <2>. QED  BY <2>4, <2>5 DEF SameEngine, Sessions
<1>3. /\ w1 \in Wires /\ w1.mode = "take" /\ w1.ahead = 0 /\ w1.post = "none"
      /\ w1.facts = 0 /\ w1.stopped
  <2>1. Status(wire) = wire
    BY StatusStays
  <2>2. w1 = Stopped(wire)
    BY <2>1
  <2>. QED  BY <1>1, <2>2, FlushedInTake
<1>4. \A n \in {0, 1} : Faulted(n) /\ (n = 1 => Fault) =>
                            bounds' \in [inputs : 0..MaxInputs, faults : 0..MaxFaults]
  <2>1. SUFFICES ASSUME NEW n \in {0, 1}, Faulted(n), n = 1 => Fault
                 PROVE  bounds' \in [inputs : 0..MaxInputs, faults : 0..MaxFaults]
    OBVIOUS
  <2> DEFINE faults == bounds.faults + n
  <2>2. faults \in 0..MaxFaults
    BY <1>1, <2>1, SessionAssumption DEF Fault
  <2>3. bounds' = [bounds EXCEPT !.faults = faults]
    BY <2>1 DEF Faulted
  <2> HIDE DEF faults
  <2>. QED  BY <1>1, <2>2, <2>3, Zenon
<1>5. \/ FailSession(s1) /\ (UNCHANGED bounds \/ (Fault /\ Faulted(1)))
      \/ /\ Fault /\ Faulted(1) /\ session' = s2
         /\ LET m == Terminal("take", Playback(FALSE),
                              session.completed = Frames /\ ~ctl.inspected, FALSE, FALSE)
            IN  wire' = SentUnnumbered(w1, m) /\ terminals' = Append(terminals, m)
      \/ \E clean \in BOOLEAN :
            /\ clean \/ Fault
            /\ Faulted(IF clean THEN 0 ELSE 1)
            /\ wire' = Sent(w1, TakeTerminal(clean))
            /\ terminals' = Append(terminals, TakeTerminal(clean))
            /\ session' = s2
  BY Zenon DEF Finish
<1>6. CASE FailSession(s1) /\ (UNCHANGED bounds \/ (Fault /\ Faulted(1)))
  <2>1. bounds' \in [inputs : 0..MaxInputs, faults : 0..MaxFaults]
    BY <1>1, <1>4, <1>6
  <2> HIDE DEF s1
  <2>2. s1 \in Sessions /\ s1.completed = session.completed
    BY <1>2 DEF SameEngine
  <2>3. /\ SameEngine(session', s1)
        /\ wire' \in Wires /\ wire'.mode = "done" /\ wire'.stopped
        /\ \E m : /\ Adds(terminals, terminals', m)
                  /\ m.linear => s1.completed = Frames /\ ~ctl.inspected
                  /\ ~m.paused /\ m.after = Len(events)
    BY <1>6, <2>2, FailedSession
  <2>. QED  BY <1>2, <2>1, <2>2, <2>3 DEF SameEngine, TakeFinished
<1> HIDE DEF s1, s2, w1
<1>7. ASSUME NEW m, terminals' = Append(terminals, m)
      PROVE  Adds(terminals, terminals', m)
  BY <1>1, <1>7, AppendAdds
<1>8. CASE /\ Fault /\ Faulted(1) /\ session' = s2
           /\ LET m == Terminal("take", Playback(FALSE),
                                session.completed = Frames /\ ~ctl.inspected, FALSE, FALSE)
              IN  wire' = SentUnnumbered(w1, m) /\ terminals' = Append(terminals, m)
  <2> DEFINE linear == session.completed = Frames /\ ~ctl.inspected
             m == Terminal("take", Playback(FALSE), linear, FALSE, FALSE)
  <2>1. wire' = SentUnnumbered(w1, m) /\ terminals' = Append(terminals, m)
    BY <1>8
  <2>2. m.linear = linear /\ m.paused = FALSE /\ m.after = Len(events)
    BY DEF Terminal
  <2>3. wire' \in Wires /\ wire'.mode = "done" /\ wire'.stopped
    <3> HIDE DEF linear
    <3>. QED  BY <1>3, <2>1, FailureRead
  <2>4. bounds' \in [inputs : 0..MaxInputs, faults : 0..MaxFaults]
    BY <1>4, <1>8
  <2>5. SameEngine(session', session) /\ Adds(terminals, terminals', m)
    BY <1>2, <1>7, <1>8, <2>1
  <2>6. m.linear => session.completed = Frames /\ ~ctl.inspected
    BY <2>2
  <2> HIDE DEF m, linear
  <2>. QED  BY <2>2, <2>3, <2>4, <2>5, <2>6 DEF TakeFinished
<1>9. ASSUME NEW clean \in BOOLEAN, clean \/ Fault, Faulted(IF clean THEN 0 ELSE 1),
             wire' = Sent(w1, TakeTerminal(clean)),
             terminals' = Append(terminals, TakeTerminal(clean)), session' = s2
      PROVE  TakeFinished
  <2> DEFINE playback == IF flags.failed THEN "failed"
                         ELSE IF StoppedEarly /\ flags.interrupted THEN "interrupted"
                         ELSE Playback(StoppedEarly)
             linear == /\ ~(StoppedEarly /\ ~flags.failed) /\ session.completed = Frames
                       /\ ~ctl.inspected
             ok == clean /\ ~StoppedEarly /\ ~Incident
             paused == ctl.ended /\ flags.pausedAtEnd
             m == Terminal("take", playback, linear, ok, paused)
  <2>1. TakeTerminal(clean) = m
    BY Zenon DEF TakeTerminal
  <2>2. m.linear = linear /\ m.paused = paused /\ m.after = Len(events)
    BY DEF Terminal
  <2>3. paused \in BOOLEAN
    OBVIOUS
  <2>4. bounds' \in [inputs : 0..MaxInputs, faults : 0..MaxFaults]
    BY <1>4, <1>9
  <2>5. linear => session.completed = Frames /\ ~ctl.inspected
    OBVIOUS
  <2> HIDE DEF playback, linear, ok, paused
  <2>6. /\ wire' \in Wires /\ wire'.ahead = 0 /\ wire'.post = "none" /\ wire'.facts = 0
        /\ wire'.stopped /\ wire'.mode = IF paused THEN "paused" ELSE "done"
    BY <1>3, <1>9, <2>1, <2>3, TerminalRead
  <2> HIDE DEF m
  <2>. QED  BY <1>2, <1>7, <1>9, <2>1, <2>2, <2>3, <2>4, <2>5, <2>6 DEF TakeFinished
<1>. QED  BY <1>5, <1>6, <1>8, <1>9

-----------------------------------------------------------------------------
\* Steps that hear nothing and send no result.

Bounds == [inputs : 0..MaxInputs, faults : 0..MaxFaults]

Calm ==
    /\ Keeps(ctl, ctl') /\ SameEngine(session', session)
    /\ IsSequence(events') /\ wire' \in Wires /\ Carries(wire', flags', terminals', events')
    /\ flags' \in Flags /\ flags'.confirmed = flags.confirmed /\ flags'.post = flags.post
    /\ ring' \subseteq -1..(Frames - 1) /\ health' \in Healths /\ bounds' \in Bounds
    /\ UNCHANGED <<take, heard, terminals>>

\* Fills is Overfull of the results and events as they are.
LEMMA OverfullFills == (Overfull <=> Fills(terminals, events))
                       /\ (Overfull' <=> Fills(terminals', events'))
BY DEF Overfull, Fills, PausedBy

LEMMA ReadableNext ==
    ASSUME wire' \in Wires, Carries(wire', flags', terminals', events')
    PROVE  StreamIsReadable'
<1>1. wire'.mode = "invalid" <=> Fills(terminals', events')
  BY CarriesReadable
<1>. QED  BY <1>1, OverfullFills DEF StreamIsReadable

LEMMA CalmStep ==
    ASSUME SessionInv, Calm, pc # "ended",
           \/ pc' \in {"poll", "window", "health", "work", "over", "ended"}
           \/ pc \in {"admit", "material"} /\ pc' \in {"material", "prepare"}
           \/ pc' = pc
    PROVE  SessionInv'
<1>1. ctl \in Controllers /\ Steered(ctl') /\ ctl' \in Controllers
  BY DEF SessionInv, Calm, Keeps, Steered
<1>2. /\ ctl'.position = ctl.position /\ (ctl'.ended <=> ctl.ended)
      /\ ctl.inspected => ctl'.inspected
      /\ ctl'.phase \in Live /\ ctl'.position # None => ctl.phase \in Live
  BY DEF Calm, Keeps
<1>3. /\ session' \in Sessions /\ session'.engine = session.engine
      /\ session'.held = session.held /\ session'.completed = session.completed
      /\ session'.loopFailed = session.loopFailed
  BY DEF Calm, SameEngine
<1>4. Typed'
  <2>1. TypeOK'
    BY <1>1, <1>3, SessionFields, WireFields
    DEF SessionInv, Typed, TypeOK, Calm, Healths, Bounds, Wires
  <2>. QED
    BY <1>3, <2>1 DEF SessionInv, Typed, Calm, Bounds
<1>5. Holds(ctl, session)'
  BY <1>2, <1>3 DEF SessionInv, Holds
<1>6. PlaysInOrder'
  BY <1>2, <1>3 DEF SessionInv, PlaysInOrder, HeardFirst, Calm
<1>7. LinearIsOver'
  BY <1>2 DEF SessionInv, LinearIsOver, HeardFirst, Calm
<1>8. Confirms'
  BY <1>2 DEF SessionInv, Confirms, Calm
<1>9. StreamIsReadable'
  BY ReadableNext DEF Calm
<1>. QED  BY <1>1, <1>4, <1>5, <1>6, <1>7, <1>8, <1>9 DEF SessionInv

\* What no step of a key, a loss or a phase touches.
LEMMA InvParts ==
    ASSUME SessionInv
    PROVE  /\ Steered(ctl) /\ ctl \in Controllers
           /\ session \in Sessions /\ flags \in Flags /\ health \in Healths /\ wire \in Wires
           /\ bounds \in Bounds /\ ring \subseteq -1..(Frames - 1)
           /\ SameEngine(session, session) /\ Keeps(ctl, ctl)
           /\ Engaged(session)
           /\ IsSequence(terminals) /\ IsSequence(events) /\ Len(events) \in Nat
           /\ pc # "ended" => Carries(wire, flags, terminals, events) /\ Status(wire) = wire
<1>1. IsSequence(events) => Len(events) \in Nat
  BY DEF IsSequence
<1>. QED
  BY <1>1, StatusStays
  DEF SessionInv, Typed, TypeOK, Steered, Bounds, SameEngine, Keeps, Holds, Engaged, Confirms

LEMMA FaultedTyped ==
    ASSUME bounds \in Bounds, NEW n \in Nat, bounds.faults + n <= MaxFaults, Faulted(n)
    PROVE  bounds' \in Bounds
<1> DEFINE faults == bounds.faults + n
<1>1. faults \in 0..MaxFaults
  BY SessionAssumption DEF Bounds
<1>2. bounds' = [bounds EXCEPT !.faults = faults]
  BY DEF Faulted
<1> HIDE DEF faults
<1>. QED  BY <1>1, <1>2, Zenon DEF Bounds

LEMMA InterruptedTyped ==
    ASSUME NEW h \in Healths
    PROVE  Interrupted(h) \in Healths
<1> DEFINE state == IF h.state = "lost" THEN h.state ELSE "interrupted"
<1>1. Interrupted(h) = [h EXCEPT !.state = state] /\ state \in {"healthy", "interrupted", "lost"}
  BY DEF Interrupted, Healths
<1> HIDE DEF state
<1>. QED  BY <1>1, Zenon DEF Healths

LEMMA PresentsTyped ==
    ASSUME bounds \in Bounds, health \in Healths, NEW lost \in {"no", "video", "device"}
    PROVE  /\ ShownWith(health, lost) \in Healths
           /\ Presents(lost) => health' \in Healths /\ bounds' \in Bounds
<1>1. \A h \in Healths : Interrupted(h) \in Healths
  BY InterruptedTyped
<1>2. [health EXCEPT !.video = TRUE] \in Healths /\ [health EXCEPT !.state = "lost"] \in Healths
  BY Zenon DEF Healths
<1>3. ShownWith(health, lost) \in Healths
  BY <1>1, <1>2 DEF ShownWith
<1>4. ASSUME Presents(lost)  PROVE health' \in Healths /\ bounds' \in Bounds
  <2>1. CASE lost = "no"
    <3>1. Faulted(0) /\ bounds.faults + 0 <= MaxFaults /\ 0 \in Nat
      BY <1>4, <2>1, SessionAssumption DEF Presents, Bounds
    <3>. QED  BY <1>3, <1>4, <3>1, FaultedTyped DEF Presents
  <2>2. CASE lost # "no"
    <3>1. Faulted(1) /\ bounds.faults + 1 <= MaxFaults /\ 1 \in Nat
      BY <1>4, <2>2, SessionAssumption DEF Presents, Bounds, Fault
    <3>. QED  BY <1>3, <1>4, <3>1, FaultedTyped DEF Presents
  <2>. QED  BY <2>1, <2>2
<1>. QED  BY <1>3, <1>4

\* The commands of the controller applied to the session as it is.
LEMMA CalmCommands ==
    ASSUME SessionInv, pc # "ended", NEW answer, Keeps(ctl, answer.ctl),
           IsSequence(answer.commands), NEW f \in Flags,
           f.confirmed = flags.confirmed, f.post = flags.post,
           Apply(answer, wire, session, f, << >>),
           ring' = ring, health' \in Healths, bounds' \in Bounds,
           UNCHANGED <<take, heard, terminals>>
    PROVE  Calm
<1> DEFINE more == << >>
<1>1. IsSequence(more) /\ \A i \in 1..Len(more) : more[i].run = RunOf(f)
  <2>1. IsSequence(<< >>)
    BY Tuples
  <2>2. 1..Len(<< >>) = {}
    OBVIOUS
  <2>. QED  BY <2>1, <2>2
<1>2. Carries(wire, f, terminals, events) /\ wire \in Wires /\ session \in Sessions
  BY InvParts, SameFlags
<1>3. Apply(answer, wire, session, f, more)
  OBVIOUS
<1> HIDE DEF more
<1>4. /\ ctl' = answer.ctl /\ SameEngine(session', session)
      /\ flags' \in Flags /\ flags'.confirmed = f.confirmed /\ flags'.post = f.post
      /\ IsSequence(events') /\ wire' \in Wires
      /\ Carries(wire', flags', terminals', events')
  BY <1>1, <1>2, <1>3, InvParts, AppliedCommands
<1>. QED  BY <1>4, InvParts DEF Calm

LEMMA StillStep ==
    ASSUME SessionInv, pc # "ended",
           UNCHANGED <<take, ctl, session, ring, flags, wire, terminals, events, heard>>,
           health' \in Healths, bounds' \in Bounds
    PROVE  Calm
BY InvParts DEF Calm

\* A polled cancellation, or a closed window, whatever the phase.
LEMMA CancelledStep ==
    ASSUME SessionInv, pc # "ended", Cancelled, ring' = ring, health' \in Healths, bounds' \in Bounds,
           UNCHANGED <<take, heard, terminals>>
    PROVE  Calm
<1> DEFINE off == ctl.phase = "interrupted"
           f == [flags EXCEPT !.cancelled = TRUE, !.interrupted = off]
<1>1. Apply(Cancel(ctl), wire, session, f, << >>)
  BY DEF Cancelled
<1>2. off \in BOOLEAN
  OBVIOUS
<1> HIDE DEF off
<1>3. f \in Flags /\ f.confirmed = flags.confirmed /\ f.post = flags.post
  <2>1. f \in Flags
    BY <1>2, InvParts, Zenon DEF Flags
  <2>. QED  BY <2>1, InvParts DEF Flags
<1> HIDE DEF f
<1>. QED  BY <1>1, <1>3, InvParts, CancelKeeps, OtherSequences, CalmCommands

LEMMA BeforeTheLoop ==
    ASSUME SessionInv
    PROVE  /\ Admit => SessionInv'
           /\ ReadMaterial /\ pc' = "prepare" => SessionInv'
           /\ PrepareEngine /\ pc' = "poll" => SessionInv'
<1> USE InvParts
<1>1. ASSUME Fault, Faulted(1)  PROVE bounds' \in Bounds
  <2>1. bounds.faults + 1 <= MaxFaults
    BY <1>1, SessionAssumption DEF Fault, Bounds
  <2>. QED  BY <1>1, <2>1, FaultedTyped
<1>2. ASSUME Admit  PROVE SessionInv'
  <2>1. /\ pc = "admit" /\ pc' \in {"material", "ended"} /\ bounds' \in Bounds
        /\ UNCHANGED <<take, ctl, session, ring, health, flags, wire, terminals, events, heard>>
    BY <1>1, <1>2 DEF Admit
  <2>. QED  BY <2>1, StillStep, CalmStep
<1>3. ASSUME ReadMaterial, pc' = "prepare"  PROVE SessionInv'
  <2>1. /\ pc = "material" /\ wire' = Status(wire) /\ pc' = "prepare" /\ UNCHANGED bounds
        /\ UNCHANGED <<take, ctl, session, ring, health, flags, events, heard, terminals>>
    BY <1>3 DEF ReadMaterial
  <2>2. wire' = wire /\ bounds' \in Bounds
    BY <2>1
  <2>. QED  BY <1>3, <2>1, <2>2, StillStep, CalmStep
<1>4. ASSUME PrepareEngine, pc' = "poll"  PROVE SessionInv'
  <2>1. /\ pc = "prepare" /\ session' = [session EXCEPT !.open = TRUE] /\ ring' = {-1}
        /\ ctl' = Prepared(ctl).ctl /\ wire' = Status(wire) /\ pc' = "poll" /\ UNCHANGED bounds
        /\ UNCHANGED <<take, health, flags, events, heard, terminals>>
    BY <1>4 DEF PrepareEngine
  <2>2. SameEngine(session', session)
    <3>1. session' \in Sessions
      BY <2>1, Zenon DEF Sessions
    <3>. QED  BY <2>1, <3>1 DEF SameEngine, Sessions
  <2>3. ring' \subseteq -1..(Frames - 1) /\ wire' = wire /\ Keeps(ctl, ctl')
    BY <2>1, PreparedKeeps, FramesAssumption
  <2>4. Calm
    BY <1>4, <2>1, <2>2, <2>3 DEF Calm
  <2>. QED  BY <2>1, <2>4, CalmStep
<1>. QED  BY <1>2, <1>3, <1>4

LEMMA PolledStep ==
    ASSUME SessionInv, Poll
    PROVE  SessionInv'
<1>1. /\ pc = "poll" /\ ring' = ring /\ health' \in Healths /\ bounds' \in Bounds
      /\ UNCHANGED <<take, heard, terminals>>
  BY InvParts DEF Poll
<1>2. CASE cancel
  <2>1. Cancelled /\ pc' = "over"
    BY <1>2 DEF Poll, NextPc
  <2>. QED  BY <1>1, <2>1, CancelledStep, CalmStep
<1>3. CASE ~cancel
  BY <1>1, <1>3, StillStep, CalmStep DEF Poll
<1>. QED  BY <1>2, <1>3

LEMMA UserStep ==
    ASSUME SessionInv, User
    PROVE  SessionInv'
<1>1. ASSUME Input  PROVE bounds' \in Bounds /\ pc = "window"
  <2> DEFINE inputs == bounds.inputs + 1
  <2>1. bounds \in Bounds /\ bounds' = [bounds EXCEPT !.inputs = inputs]
    BY <1>1, InvParts DEF Input
  <2>2. inputs \in 0..MaxInputs
    BY <1>1, <2>1, SessionAssumption DEF Input, Bounds
  <2> HIDE DEF inputs
  <2>3. bounds' \in Bounds
    BY <2>1, <2>2, Zenon DEF Bounds
  <2>. QED  BY <1>1, <2>3 DEF Input
<1>2. ASSUME NEW action \in KeyActions, PressKey(action)  PROVE SessionInv'
  <2>1. /\ Apply(Key(ctl, action), wire, session, flags, << >>)
        /\ pc = "window" /\ pc' \in {"over", "window"} /\ bounds' \in Bounds
        /\ UNCHANGED <<take, ring, health, terminals, heard>>
    BY <1>1, <1>2 DEF PressKey, NextPc
  <2>2. Calm
    BY <2>1, InvParts, KeyKeeps, KeySequence, CalmCommands
  <2>. QED  BY <2>1, <2>2, CalmStep
<1>3. ASSUME CloseWindow  PROVE SessionInv'
  <2>1. /\ Cancelled /\ pc = "window" /\ pc' \in {"over", "window"} /\ bounds' \in Bounds
        /\ UNCHANGED <<take, ring, health, terminals, heard>>
    BY <1>1, <1>3 DEF CloseWindow, NextPc
  <2>. QED  BY <2>1, InvParts, CancelledStep, CalmStep
<1>4. ASSUME WindowEvent  PROVE SessionInv'
  <2>1. /\ pc = "window" /\ pc' = pc /\ bounds' \in Bounds
        /\ UNCHANGED <<take, ctl, session, ring, flags, wire, terminals, events, heard>>
    BY <1>1, <1>4 DEF WindowEvent
  <2>2. health' \in Healths
    <3>1. \A h \in Healths : Interrupted(h) \in Healths
      BY InterruptedTyped
    <3>2. /\ [health EXCEPT !.minimized = TRUE] \in Healths
          /\ [health EXCEPT !.minimized = FALSE] \in Healths
          /\ [health EXCEPT !.audio = TRUE] \in Healths
          /\ [health EXCEPT !.video = TRUE] \in Healths
      BY InvParts, Zenon DEF Healths
    <3>. QED  BY <1>4, <3>1, <3>2 DEF WindowEvent
  <2>. QED  BY <2>1, <2>2, StillStep, CalmStep
<1>. QED  BY <1>2, <1>3, <1>4 DEF User

LEMMA PhaseSteps ==
    ASSUME SessionInv
    PROVE  (EndWindow \/ WaitTurn \/ ReachSlot \/ ShowStill) => SessionInv'
<1>1. ASSUME EndWindow \/ WaitTurn  PROVE SessionInv'
  <2>1. /\ pc # "ended" /\ pc' \in {"health", "poll"}
        /\ UNCHANGED <<take, ctl, session, ring, health, flags, wire, terminals, events, heard,
                       bounds>>
    BY <1>1 DEF EndWindow, WaitTurn
  <2>. QED  BY <2>1, InvParts, StillStep, CalmStep
<1>2. ASSUME ReachSlot  PROVE SessionInv'
  <2>1. /\ Apply(TakeSlotReached(ctl), wire, session, flags, << >>)
        /\ pc # "ended" /\ pc' \in {"over", "poll"}
        /\ UNCHANGED <<take, ring, health, terminals, heard, bounds>>
    BY <1>2 DEF ReachSlot, NextPc
  <2>2. Calm
    BY <2>1, InvParts, SlotKeeps, OtherSequences, CalmCommands
  <2>. QED  BY <2>1, <2>2, CalmStep
<1>3. ASSUME ShowStill  PROVE SessionInv'
  <2>1. PICK lost \in {"no", "video", "device"} : Presents(lost)
    BY <1>3 DEF ShowStill
  <2>2. /\ pc # "ended" /\ pc' = "poll"
        /\ UNCHANGED <<take, ctl, session, ring, flags, wire, terminals, events, heard>>
    BY <1>3 DEF ShowStill
  <2>. QED  BY <2>1, <2>2, InvParts, PresentsTyped, StillStep, CalmStep
<1>. QED  BY <1>1, <1>2, <1>3

\* A loss and the return of what was lost, in one turn of the loop.
LEMMA HealthStep ==
    ASSUME SessionInv, AttendHealth
    PROVE  SessionInv'
<1> DEFINE loss == IF health.state # "healthy" /\ ctl.phase \notin {"interrupted", "closing"}
                   THEN PresentationInterrupted(ctl) ELSE Ignored(ctl)
           again(back) == IF back THEN PresentationRecovered(loss.ctl) ELSE Ignored(loss.ctl)
           answer(back) == Answer(again(back).ctl, loss.commands \o again(back).commands)
<1>1. PICK back \in BOOLEAN :
          /\ Apply(answer(back), Status(wire), session, flags, << >>)
          /\ health' = IF back THEN [health EXCEPT !.state = "healthy", !.video = FALSE,
                                                   !.audio = FALSE]
                       ELSE health
  BY DEF AttendHealth
<1>2. /\ pc # "ended" /\ pc' \in {"over", "work"}
      /\ UNCHANGED <<take, ring, terminals, heard, bounds>>
  BY DEF AttendHealth, NextPc
<1>3. Keeps(ctl, loss.ctl) /\ IsSequence(loss.commands)
  BY InvParts, InterruptedKeeps, IgnoredKeeps, OtherSequences, IgnoredSequence
<1> HIDE DEF loss
<1>4. Keeps(loss.ctl, again(back).ctl) /\ IsSequence(again(back).commands)
  BY <1>3, RecoveredKeeps, IgnoredKeeps, OtherSequences, IgnoredSequence DEF Keeps
<1>5. Keeps(ctl, answer(back).ctl) /\ IsSequence(answer(back).commands)
  <2>1. /\ answer(back).ctl = again(back).ctl
        /\ answer(back).commands = loss.commands \o again(back).commands
    BY DEF Answer
  <2> HIDE DEF again, answer
  <2>2. IsSequence(loss.commands \o again(back).commands)
    BY <1>3, <1>4, Joined
  <2>. QED  BY <1>3, <1>4, <2>1, <2>2 DEF Keeps
<1>6. health' \in Healths
  <2>1. [health EXCEPT !.state = "healthy", !.video = FALSE, !.audio = FALSE] \in Healths
    BY InvParts, Zenon DEF Healths
  <2>. QED  BY <1>1, <2>1, InvParts
<1>7. Apply(answer(back), wire, session, flags, << >>)
  BY <1>1, <1>2, InvParts
<1> HIDE DEF answer
<1>8. Calm
  BY <1>2, <1>5, <1>6, <1>7, InvParts, CalmCommands
<1>. QED  BY <1>2, <1>8, CalmStep

\* The worker of the observation hands on the Engine's facts, and ends with the take.
LEMMA EngineStep ==
    ASSUME SessionInv, EngineFacts
    PROVE  SessionInv'
<1> DEFINE p == wire.pending \cup {"take"}
           w == [wire EXCEPT !.pending = p]
<1>1. /\ pc # "ended" /\ pc' = pc /\ ~wire.stopped /\ wire' = Flushed(w)
      /\ UNCHANGED <<take, ctl, session, ring, health, flags, terminals, events, heard, bounds>>
  BY DEF EngineFacts
<1>2. /\ Carries(wire, flags, terminals, events) /\ ~flags.confirmed /\ wire.mode = "take"
      /\ wire.ahead = 0 /\ wire.facts = 0 /\ wire.post = "none"
  BY <1>1, InvParts DEF Carries
<1>3. w \in Wires
  <2>1. p \in SUBSET {"take", "post"}
    BY InvParts, WireFields
  <2> HIDE DEF p
  <2>. QED  BY <2>1, InvParts, Zenon DEF Wires
<1>4. /\ w.mode = "take" /\ w.ahead = 0 /\ w.facts = 0 /\ w.post = "none" /\ ~w.stopped
  BY <1>1, <1>2, InvParts DEF Wires
<1> HIDE DEF w
<1>5. /\ wire' \in Wires /\ wire'.mode = "take" /\ wire'.ahead = 0 /\ wire'.post = "none"
      /\ wire'.facts = 0 /\ wire'.stopped = w.stopped
  BY <1>1, <1>3, <1>4, FlushedInTake
<1>6. Carries(wire', flags', terminals', events')
  BY <1>1, <1>2, <1>4, <1>5 DEF Carries
<1>7. Calm
  BY <1>1, <1>5, <1>6, InvParts DEF Calm
<1>. QED  BY <1>1, <1>7, CalmStep

-----------------------------------------------------------------------------
\* Steps that send a result.

\* The process of the take ends.
Over ==
    /\ Steered(ctl') /\ (ctl'.ended <=> ctl.ended) /\ Holds(ctl, session)'
    /\ session' \in Sessions /\ wire' \in Wires
    /\ wire'.mode = "invalid" <=> Fills(terminals', events')
    /\ bounds' \in Bounds /\ ring' \subseteq -1..(Frames - 1) /\ pc' = "ended"
    /\ UNCHANGED <<take, health, flags, events, heard>>

LinearIsWhole(m) == m.linear => HeardFirst(Frames)

LEMMA OverStep ==
    ASSUME SessionInv, Over,
           \/ UNCHANGED terminals
           \/ \E m : Adds(terminals, terminals', m) /\ LinearIsWhole(m)
    PROVE  SessionInv'
<1>1. ctl' \in Controllers
  BY DEF Over, Steered
<1>2. Typed'
  <2>1. TypeOK'
    BY <1>1, SessionFields, WireFields
    DEF SessionInv, Typed, TypeOK, Over, Healths, Bounds, Wires
  <2>2. IsSequence(terminals')
    BY DEF SessionInv, Typed, Adds
  <2>. QED  BY <2>1, <2>2 DEF SessionInv, Typed, Over, Bounds
<1>3. LinearIsOver'
  <2>1. SUFFICES ASSUME NEW i \in 1..Len(terminals'), terminals'[i].linear
                 PROVE  HeardFirst(Frames)'
    BY DEF LinearIsOver, Over
  <2>2. HeardFirst(Frames)
    <3>1. CASE UNCHANGED terminals
      BY <2>1, <3>1 DEF SessionInv, LinearIsOver
    <3>2. ASSUME NEW m, Adds(terminals, terminals', m), LinearIsWhole(m)
          PROVE  HeardFirst(Frames)
      <4>1. CASE i = Len(terminals) + 1
        BY <2>1, <3>2, <4>1 DEF Adds, LinearIsWhole
      <4>2. CASE i # Len(terminals) + 1
        <5>1. i \in 1..Len(terminals) /\ terminals'[i] = terminals[i]
          BY <2>1, <3>2, <4>2 DEF Adds
        <5>. QED  BY <2>1, <5>1 DEF SessionInv, LinearIsOver
      <4>. QED  BY <4>1, <4>2
    <3>. QED  BY <3>1, <3>2
  <2>. QED  BY <2>2 DEF HeardFirst, Over
<1>4. PlaysInOrder' /\ Confirms' /\ StreamIsReadable'
  BY OverfullFills DEF SessionInv, PlaysInOrder, Confirms, StreamIsReadable, Over
<1>. QED  BY <1>2, <1>3, <1>4 DEF SessionInv, Over

\* A result is linear only of a take whose frames were heard.
LEMMA CompletedIsHeard ==
    ASSUME SessionInv, pc # "ended", NEW m,
           m.linear => session.completed = Frames /\ ~ctl.inspected
    PROVE  LinearIsWhole(m)
BY DEF SessionInv, PlaysInOrder, LinearIsWhole, HeardFirst

LEMMA FailedBefore ==
    ASSUME SessionInv
    PROVE  /\ ReadMaterial => SessionInv'
           /\ PrepareEngine => SessionInv'
<1>1. ASSUME Fault, Faulted(1)  PROVE bounds' \in Bounds
  <2>1. bounds \in Bounds /\ bounds.faults + 1 <= MaxFaults
    BY <1>1, InvParts, SessionAssumption DEF Fault, Bounds
  <2>. QED  BY <1>1, <2>1, FaultedTyped
<1>2. ASSUME ReadMaterial  PROVE SessionInv'
  <2>1. CASE pc' = "prepare"
    BY <1>2, <2>1, BeforeTheLoop DEF ReadMaterial
  <2>2. CASE pc' # "prepare"
    <3> DEFINE m == Terminal("take", "failed", FALSE, FALSE, FALSE)
    <3>1. /\ pc = "material" /\ pc' = "ended" /\ bounds' \in Bounds
          /\ wire' = SentUnnumbered(wire, m) /\ terminals' = Append(terminals, m)
          /\ UNCHANGED <<take, ctl, session, ring, health, flags, events, heard>>
      BY <1>1, <1>2, <2>2 DEF ReadMaterial
    <3>2. /\ wire \in Wires /\ wire.mode = "take" /\ wire.ahead = 0 /\ Len(terminals) = 0
          /\ Len(events) \in Nat
      BY <3>1, InvParts DEF SessionInv, Confirms, Carries
    <3>3. wire' \in Wires /\ wire'.mode = "done"
      BY <3>1, <3>2, FailureRead
    <3>4. Adds(terminals, terminals', m)
      BY <3>1, AppendAdds DEF SessionInv, Typed
    <3>5. LinearIsWhole(m) /\ m.after = Len(events)
      BY DEF LinearIsWhole, Terminal
    <3> HIDE DEF m
    <3>6. ~Fills(terminals', events')
      BY <3>1, <3>2, <3>4, <3>5, FirstResult
    <3>7. Over
      BY <3>1, <3>3, <3>6, InvParts DEF Over, SessionInv, Holds
    <3>. QED  BY <3>4, <3>5, <3>7, OverStep
  <2>. QED  BY <2>1, <2>2
<1>3. ASSUME PrepareEngine  PROVE SessionInv'
  <2>1. CASE pc' = "poll"
    BY <1>3, <2>1, BeforeTheLoop DEF PrepareEngine
  <2>2. CASE pc' # "poll"
    <3>1. /\ pc = "prepare" /\ pc' = "ended" /\ bounds' \in Bounds /\ FailSession(session)
          /\ UNCHANGED <<take, ctl, ring, health, flags, events, heard>>
      BY <1>1, <1>3, <2>2 DEF PrepareEngine
    <3>2. Typed /\ ~flags.confirmed /\ Carries(wire, flags, terminals, events)
      BY <3>1 DEF SessionInv, Confirms
    <3>3. /\ SameEngine(session', session)
          /\ wire' \in Wires /\ wire'.mode = "done"
      BY <3>1, <3>2, InvParts, FailedSession
    <3>4. PICK m : /\ Adds(terminals, terminals', m)
                   /\ m.linear => session.completed = Frames /\ ~ctl.inspected
                   /\ ~m.paused /\ m.after = Len(events)
      BY <3>1, <3>2, InvParts, FailedSession
    <3>5. ~Fills(terminals', events')
      BY <3>1, <3>2, <3>4, InTake, FirstResult
    <3>6. Over
      BY <3>1, <3>3, <3>5, InvParts DEF Over, SessionInv, Holds, SameEngine
    <3>. QED  BY <3>1, <3>4, <3>6, CompletedIsHeard, OverStep
  <2>. QED  BY <2>1, <2>2
<1>. QED  BY <1>2, <1>3

LEMMA FrameFailsStep ==
    ASSUME SessionInv, FrameFails
    PROVE  SessionInv'
<1> DEFINE frame == NextFrame(ctl)
           s == [session EXCEPT !.audible = TRUE]
<1>1. /\ pc = "work" /\ ctl.phase \in {"playing", "pausing"} /\ ~TakeEndPending(ctl)
      /\ pc' = "ended" /\ UNCHANGED <<take, ctl, ring, health, flags, events, heard>>
  BY DEF FrameFails, Playing
<1>2. frame \in 0..(Frames - 1) /\ ~ctl.ended
  BY <1>1, InvParts, FrameEnds
<1>3. SameEngine(s, session)
  <2>1. s \in Sessions
    BY InvParts, Zenon DEF Sessions
  <2>. QED  BY <2>1, InvParts DEF SameEngine, Sessions
<1>4. \/ CanProduce(s, frame) /\ Fault /\ Faulted(1) /\ FailSession(StepThrew(s, frame, TRUE))
      \/ ~CanProduce(s, frame) /\ UNCHANGED bounds /\ FailSession(Unproduced(s, frame))
  BY Zenon DEF FrameFails
<1>5. Typed /\ ~flags.confirmed /\ Carries(wire, flags, terminals, events)
  BY <1>1, <1>2 DEF SessionInv, Confirms
<1>6. ctl.inspected \/ CanProduce(s, frame)
  BY <1>1, <1>2, <1>3, InvParts, ControllerFields, SessionFields, FramesAssumption
  DEF SessionInv, PlaysInOrder, CanProduce, NextFrame, SameEngine
<1> HIDE DEF frame, s
<1>7. PICK t \in Sessions :
          /\ FailSession(t) /\ t.held = session.held /\ Engaged(t)
          /\ ctl.inspected \/ t.completed = session.completed
  <2>1. s \in Sessions /\ Engaged(s) /\ s.held = session.held
        /\ s.completed = session.completed
    BY <1>3, InvParts DEF SameEngine, Engaged
  <2>2. CASE CanProduce(s, frame) /\ FailSession(StepThrew(s, frame, TRUE))
    <3> DEFINE midway == TRUE
    <3>1. midway \in BOOLEAN /\ FailSession(StepThrew(s, frame, midway))
      BY <2>2
    <3> HIDE DEF midway
    <3>. QED  BY <2>1, <3>1, ThrewHolds
  <2>3. CASE ~CanProduce(s, frame) /\ FailSession(Unproduced(s, frame))
    BY <1>2, <1>6, <2>1, <2>3, UnproducedHolds
  <2>. QED  BY <1>4, <2>2, <2>3
<1>8. bounds' \in Bounds
  <2>1. CASE Fault /\ Faulted(1)
    <3>1. bounds \in Bounds /\ bounds.faults + 1 <= MaxFaults
      BY <2>1, InvParts, SessionAssumption DEF Fault, Bounds
    <3>. QED  BY <2>1, <3>1, FaultedTyped
  <2>. QED  BY <1>4, <2>1, InvParts
<1>9. SameEngine(session', t) /\ wire' \in Wires /\ wire'.mode = "done"
  BY <1>5, <1>7, FailedSession
<1>10. PICK m : /\ Adds(terminals, terminals', m)
                /\ m.linear => session.completed = Frames /\ ~ctl.inspected
                /\ ~m.paused /\ m.after = Len(events)
  BY <1>5, <1>7, FailedSession
<1>11. ~Fills(terminals', events')
  BY <1>1, <1>5, <1>10, InTake, FirstResult
<1>12. Over
  BY <1>1, <1>7, <1>8, <1>9, <1>11, InvParts
  DEF Over, SessionInv, Holds, SameEngine, Engaged
<1>. QED  BY <1>1, <1>10, <1>12, CompletedIsHeard, OverStep

-----------------------------------------------------------------------------
\* Frames played and recovered.

LEMMA PlayFrameStep ==
    ASSUME SessionInv, PlayFrame
    PROVE  SessionInv'
<1> DEFINE frame == NextFrame(ctl)
           s == [session EXCEPT !.audible = TRUE]
           answer == FrameCompleted(ctl, frame)
           sound == [frame |-> frame, after |-> Len(events)]
<1>1. /\ pc = "work" /\ ctl.phase \in {"playing", "pausing"} /\ ~TakeEndPending(ctl)
      /\ CanProduce(s, frame)
      /\ heard' = Append(heard, sound)
      /\ ring' = IF ShouldCapture(frame) /\ frame = session.completed
                 THEN Captured(frame) ELSE ring
      /\ Apply(answer, Pushed(wire, RunOf(flags), 1), Produced(s, frame), flags, << >>)
      /\ NextPc(IF Has(answer.commands, "confirm_linear_result") THEN "confirm" ELSE "poll")
      /\ UNCHANGED <<take, terminals>>
  BY DEF PlayFrame, Playing
<1>2. PICK lost \in {"no", "video", "device"} : Presents(lost)
  BY DEF PlayFrame
<1>3. health' \in Healths /\ bounds' \in Bounds
  BY <1>2, InvParts, PresentsTyped
<1>4. /\ frame \in 0..(Frames - 1) /\ Steered(answer.ctl) /\ answer.ctl.position = frame
      /\ answer.ctl.inspected = ctl.inspected /\ ~ctl.ended
      /\ Has(answer.commands, "confirm_linear_result") => answer.ctl.ended
  BY <1>1, InvParts, FrameEnds
<1>5. /\ Produced(s, frame) \in Sessions
      /\ Produced(s, frame).engine = frame /\ Produced(s, frame).held = frame
      /\ Produced(s, frame).loopFailed = session.loopFailed
      /\ Produced(s, frame).completed = IF frame = session.completed THEN frame + 1
                                        ELSE session.completed
  <2>1. s \in Sessions /\ s.completed = session.completed /\ s.loopFailed = session.loopFailed
    <3>1. s \in Sessions
      BY InvParts, Zenon DEF Sessions
    <3>. QED  BY <3>1, InvParts DEF Sessions
  <2> HIDE DEF s, frame
  <2> DEFINE n == IF frame = s.completed THEN s.completed + 1 ELSE s.completed
  <2>2. /\ frame \in Lost..(Frames - 1) /\ frame \in None..(Frames - 1) /\ n \in 0..Frames
    BY <1>4, <2>1, SessionFields, FramesAssumption DEF Lost, None
  <2>3. Produced(s, frame) = [s EXCEPT !.engine = frame, !.held = frame, !.completed = n]
    BY DEF Produced
  <2>4. n = IF frame = session.completed THEN frame + 1 ELSE session.completed
    BY <2>1
  <2> HIDE DEF n
  <2>5. Produced(s, frame) \in Sessions
    BY <2>1, <2>2, <2>3, Zenon DEF Sessions
  <2>. QED  BY <2>1, <2>3, <2>4, <2>5 DEF Sessions
<1>6. /\ Pushed(wire, RunOf(flags), 1) \in Wires
      /\ Carries(Pushed(wire, RunOf(flags), 1), flags, terminals, events)
  <2>1. Carries(wire, flags, terminals, events) /\ ~flags.confirmed
    BY <1>1, <1>4 DEF SessionInv, Confirms
  <2>. QED  BY <2>1, InvParts, FactRead
<1>7. /\ ctl' = answer.ctl /\ SameEngine(session', Produced(s, frame))
      /\ flags' \in Flags /\ flags'.confirmed = flags.confirmed /\ flags'.post = flags.post
      /\ IsSequence(events') /\ wire' \in Wires
      /\ Carries(wire', flags', terminals', events')
  <2> DEFINE w == Pushed(wire, RunOf(flags), 1)
             t == Produced(s, frame)
             more == << >>
  <2>1. IsSequence(more) /\ \A i \in 1..Len(more) : more[i].run = RunOf(flags)
    <3>1. IsSequence(<< >>)
      BY Tuples
    <3>2. 1..Len(<< >>) = {}
      OBVIOUS
    <3>. QED  BY <3>1, <3>2
  <2>2. IsSequence(answer.commands)
    BY FrameSequence
  <2>3. Apply(answer, w, t, flags, more)
    BY <1>1
  <2>4. w \in Wires /\ Carries(w, flags, terminals, events) /\ t \in Sessions
    BY <1>5, <1>6
  <2> HIDE DEF w, t, more, answer
  <2>5. /\ ctl' = answer.ctl /\ SameEngine(session', t)
        /\ flags' \in Flags /\ flags'.confirmed = flags.confirmed /\ flags'.post = flags.post
        /\ IsSequence(events') /\ wire' \in Wires
        /\ Carries(wire', flags', terminals', events')
    BY <1>1, <2>1, <2>2, <2>3, <2>4, InvParts, AppliedCommands
  <2>. QED  BY <2>5 DEF t
<1>8. pc' \in {"over", "poll"} \/ (pc' = "confirm" /\ ctl'.ended)
  BY <1>1, <1>4, <1>7 DEF NextPc
<1>9. ring' \subseteq -1..(Frames - 1)
  <2>1. frame \in -1..(Frames - 1)
    BY <1>4, FramesAssumption
  <2> HIDE DEF frame
  <2>. QED  BY <1>1, <2>1, InvParts DEF Captured
<1>10. Adds(heard, heard', sound)
  BY <1>1, AppendAdds DEF SessionInv, Typed
<1>11. sound.frame = frame
  OBVIOUS
<1>12. frame = ctl.position + 1 /\ ctl.position \in Int /\ session.completed \in Int
  BY InvParts, ControllerFields, SessionFields DEF NextFrame
<1> HIDE DEF frame, s, answer, sound
<1>13. /\ session' \in Sessions /\ session'.engine = frame /\ session'.held = frame
       /\ session'.loopFailed = session.loopFailed
       /\ session'.completed = IF frame = session.completed THEN frame + 1
                               ELSE session.completed
  BY <1>5, <1>7 DEF SameEngine
<1>14. Typed'
  <2>1. ctl' \in Controllers /\ wire' \in Wires
    BY <1>4, <1>7 DEF Steered
  <2>2. TypeOK'
    BY <1>3, <1>8, <1>9, <1>13, <2>1, SessionFields, WireFields
    DEF SessionInv, Typed, TypeOK, Healths, Bounds, Wires
  <2>3. IsSequence(heard')
    BY <1>10 DEF Adds
  <2>. QED
    BY <1>1, <1>3, <1>7, <1>13, <2>1, <2>2, <2>3 DEF SessionInv, Typed, Bounds
<1>15. Holds(ctl, session)'
  BY <1>4, <1>7, <1>13 DEF Holds
<1>16. PlaysInOrder'
  <2>1. SUFFICES ASSUME ~ctl'.inspected
                 PROVE  /\ HeardFirst(session.completed)'
                        /\ session'.engine = session'.completed - 1
                        /\ ctl'.position = session'.completed - 1
                        /\ ~session'.loopFailed
    BY DEF PlaysInOrder
  <2>2. /\ HeardFirst(session.completed) /\ ctl.position = session.completed - 1
        /\ ~session.loopFailed
    BY <1>1, <1>4, <1>7, <2>1 DEF SessionInv, PlaysInOrder
  <2>3. frame = session.completed /\ session'.completed = frame + 1 /\ Len(heard) = frame
    BY <1>12, <1>13, <2>2 DEF HeardFirst
  <2>4. Len(heard') = frame + 1 /\ \A k \in 1..(frame + 1) : heard'[k].frame = k - 1
    <3>1. Len(heard') = frame + 1 /\ heard'[frame + 1].frame = frame
      BY <1>10, <1>11, <2>3 DEF Adds
    <3>2. \A k \in 1..frame : heard'[k].frame = k - 1
      BY <1>10, <2>2, <2>3 DEF Adds, HeardFirst
    <3>. QED  BY <1>4, <3>1, <3>2
  <2>. QED  BY <1>4, <1>7, <1>13, <2>2, <2>3, <2>4 DEF HeardFirst
<1>17. LinearIsOver'
  <2>1. \A i \in 1..Len(terminals) : ~terminals[i].linear
    BY <1>1, <1>4 DEF SessionInv, LinearIsOver
  <2>. QED  BY <1>1, <2>1 DEF LinearIsOver
<1>18. Confirms' /\ StreamIsReadable'
  <2>1. StreamIsReadable'
    BY <1>7, ReadableNext
  <2>. QED  BY <1>1, <1>4, <1>7, <1>8, <2>1 DEF SessionInv, Confirms
<1>. QED  BY <1>4, <1>7, <1>14, <1>15, <1>16, <1>17, <1>18 DEF SessionInv

LEMMA RearmedChannel ==
    ASSUME SessionInv, pc # "ended",
           NEW f, f = [flags EXCEPT !.post = IF NeedsRearm THEN 1 ELSE @],
           NEW opened,
           opened = IF NeedsRearm THEN Sent(wire, [type |-> "opened"]) ELSE wire
    PROVE  /\ f \in Flags /\ f.confirmed = flags.confirmed
           /\ ~f.confirmed \/ f.post = 1
           /\ opened \in Wires /\ Carries(opened, f, terminals, events)
<1> DEFINE post == IF NeedsRearm THEN 1 ELSE flags.post
<1>1. post \in {0, 1} /\ f = [flags EXCEPT !.post = post]
  BY InvParts DEF Flags
<1>2. ~flags.confirmed \/ post = 1
  BY InvParts DEF Flags, NeedsRearm
<1> HIDE DEF post
<1>3. f \in Flags
  BY <1>1, InvParts, Zenon DEF Flags
<1>4. f.confirmed = flags.confirmed /\ f.post = post
  BY <1>1, InvParts DEF Flags
<1>5. Carries(wire, flags, terminals, events) /\ wire \in Wires
  BY InvParts
<1>6. CASE ~NeedsRearm
  BY <1>2, <1>3, <1>4, <1>5, <1>6 DEF post, Carries
<1>7. CASE NeedsRearm /\ wire.mode \in {"done", "invalid"}
  <2>1. opened = wire
    BY <1>7 DEF Sent, Received, Reading
  <2>. QED  BY <1>2, <1>3, <1>4, <1>5, <1>7, <2>1 DEF NeedsRearm, Carries
<1>8. CASE NeedsRearm /\ wire.mode \notin {"done", "invalid"}
  <2>1. /\ wire.mode = "paused" /\ wire.ahead = 0 /\ wire.post = "none" /\ flags.confirmed
        /\ wire.stopped /\ Len(terminals) > 0 /\ terminals[1].after \in Nat
    BY <1>5, <1>8 DEF NeedsRearm, Carries
  <2>2. opened = [wire EXCEPT !.post = "open"]
    BY <1>8, <2>1 DEF Sent, Received, Reading
  <2>3. opened \in Wires
    BY <1>5, <2>2, Zenon DEF Wires
  <2>4. opened.mode = "paused" /\ opened.ahead = 0 /\ opened.post = "open" /\ opened.stopped
    BY <1>5, <2>1, <2>2 DEF Wires
  <2>5. f.post = 1 /\ f.confirmed
    BY <1>2, <1>4, <2>1
  <2>6. ~Fills(terminals, events)
    BY <1>5, <2>1, CarriesReadable
  <2>7. Carries(opened, f, terminals, events)
    BY <2>1, <2>4, <2>5, <2>6 DEF Carries
  <2>. QED  BY <1>3, <1>4, <2>3, <2>5, <2>7
<1>. QED  BY <1>6, <1>7, <1>8

LEMMA RecoverStep ==
    ASSUME SessionInv, Recover
    PROVE  SessionInv'
<1> DEFINE f == [flags EXCEPT !.post = IF NeedsRearm THEN 1 ELSE @]
           opened == IF NeedsRearm THEN Sent(wire, [type |-> "opened"]) ELSE wire
           s0 == [IF NeedsRearm THEN Rearmed(session) ELSE session EXCEPT !.audible = FALSE]
           gone == [outcome |-> "failed_unrecoverable", s |-> [s0 EXCEPT !.open = FALSE],
                    faults |-> 1]
           channel(r) == IF r.outcome = "presented" \/ f.post = 0
                         THEN Pushed(opened, RunOf(f), 1)
                         ELSE opened
           more(r) == IF r.outcome = "presented" THEN << >>
                      ELSE <<Emitted(RunOf(f), "recover_failed", ctl.target, Shown(ctl))>>
<1>1. /\ pc = "work" /\ ctl.phase = "recovering" /\ pc' \in {"over", "poll"}
      /\ UNCHANGED <<take, ring, terminals, heard>>
  BY DEF Recover, NextPc
<1>2. PICK lost \in {"no", "video", "device"},
           r \in Recovered(s0, ctl.target, Shown(ctl)) \cup (IF NeedsRearm THEN {gone} ELSE {}) :
          /\ LET faults == r.faults + (IF lost = "no" THEN 0 ELSE 1)
             IN  bounds.faults + faults <= MaxFaults /\ Faulted(faults)
          /\ health' = ShownWith(health, lost)
          /\ Apply(RecoveryFinished(ctl, r.outcome), channel(r), r.s, f, more(r))
  BY DEF Recover
<1>3. ctl.target \in 0..(Frames - 1) /\ Shown(ctl) \in 0..(Frames - 1)
  <2>1. "presented" \in Outcomes
    BY DEF Outcomes
  <2>. QED  BY <1>1, <2>1, InvParts, RecoveryEnds
<1>4. s0 \in Sessions /\ Engaged(s0)
  <2> DEFINE t == IF NeedsRearm THEN Rearmed(session) ELSE session
  <2>1. t \in Sessions
    <3>1. -1 \in Lost..(Frames - 1) /\ None \in None..(Frames - 1)
      BY FramesAssumption DEF Lost, None
    <3>2. Rearmed(session) \in Sessions
      BY <3>1, InvParts, Zenon DEF Rearmed, Sessions
    <3>. QED  BY <3>2, InvParts
  <2>2. Engaged(t)
    BY InvParts DEF Engaged, Rearmed, Sessions, None
  <2>3. s0 = [t EXCEPT !.audible = FALSE]
    OBVIOUS
  <2> HIDE DEF t, s0
  <2>4. s0 \in Sessions
    BY <2>1, <2>3, Zenon DEF Sessions
  <2>. QED  BY <2>1, <2>2, <2>3, <2>4 DEF Engaged, Sessions
<1>5. /\ f \in Flags /\ f.confirmed = flags.confirmed /\ (~f.confirmed \/ f.post = 1)
      /\ opened \in Wires /\ Carries(opened, f, terminals, events)
  BY <1>1, RearmedChannel
<1> HIDE DEF s0, f, opened
<1>6. /\ r.outcome \in Outcomes /\ r.s \in Sessions /\ Engaged(r.s) /\ r.faults \in Nat
      /\ r.outcome = "presented" => r.s.held = ctl.target
      /\ r.outcome = "failed_restored" => r.s.held = Shown(ctl)
  <2>1. CASE r \in Recovered(s0, ctl.target, Shown(ctl))
    BY <1>3, <1>4, <2>1, InvParts, RecoveredHolds
  <2>2. CASE r = gone
    <3>1. [s0 EXCEPT !.open = FALSE] \in Sessions
      BY <1>4, Zenon DEF Sessions
    <3>2. Engaged([s0 EXCEPT !.open = FALSE])
      BY <1>4 DEF Engaged, Sessions
    <3>. QED  BY <2>2, <3>1, <3>2 DEF Outcomes
  <2>. QED  BY <1>2, <2>1, <2>2
<1> HIDE DEF gone
<1>7. health' \in Healths
  BY <1>2, InvParts, PresentsTyped
<1>8. bounds' \in Bounds
  <2> DEFINE faults == r.faults + (IF lost = "no" THEN 0 ELSE 1)
  <2>1. faults \in Nat
    BY <1>6
  <2>2. bounds.faults + faults <= MaxFaults /\ Faulted(faults)
    BY <1>2
  <2> HIDE DEF faults
  <2>. QED  BY <2>1, <2>2, InvParts, FaultedTyped
<1> DEFINE answer == RecoveryFinished(ctl, r.outcome)
<1>9. channel(r) \in Wires /\ Carries(channel(r), f, terminals, events)
  BY <1>5, FactRead
<1>10. /\ ctl' = answer.ctl /\ SameEngine(session', r.s)
       /\ flags' \in Flags /\ flags'.confirmed = f.confirmed /\ flags'.post = f.post
       /\ IsSequence(events') /\ wire' \in Wires
       /\ Carries(wire', flags', terminals', events')
  <2> DEFINE w == channel(r)
             e == more(r)
             failure == Emitted(RunOf(f), "recover_failed", ctl.target, Shown(ctl))
  <2>1. Apply(answer, w, r.s, f, e)
    BY <1>2
  <2>2. w \in Wires /\ Carries(w, f, terminals, events)
    BY <1>9
  <2>3. e = << >> \/ e = <<failure>>
    OBVIOUS
  <2>4. failure.run = RunOf(f)
    BY DEF Emitted
  <2>5. IsSequence(answer.commands)
    <3> HIDE DEF channel, more
    <3>. QED  BY <1>6, RecoverySequence
  <2> HIDE DEF channel, more, answer, w, e, failure
  <2>6. IsSequence(e) /\ \A i \in 1..Len(e) : e[i].run = RunOf(f)
    <3>1. IsSequence(<< >>) /\ IsSequence(<<failure>>)
      BY Tuples
    <3>2. 1..Len(<< >>) = {} /\ 1..Len(<<failure>>) = {1} /\ <<failure>>[1] = failure
      OBVIOUS
    <3>3. CASE e = << >>
      BY <3>1, <3>2, <3>3
    <3>4. CASE e = <<failure>>
      BY <2>4, <3>1, <3>2, <3>4
    <3>. QED  BY <2>3, <3>3, <3>4
  <2>. QED
    BY <1>1, <1>5, <1>6, <2>1, <2>2, <2>5, <2>6, InvParts, AppliedCommands
<1>11. /\ Steered(ctl') /\ ctl'.inspected /\ (ctl'.ended <=> ctl.ended)
       /\ ctl'.phase \in Live => r.outcome # "failed_unrecoverable"
       /\ r.outcome = "presented" => ctl'.position = ctl.target
       /\ r.outcome = "failed_restored" => ctl'.position = ctl.position
  <2>. HIDE DEF channel, more
  <2>. QED  BY <1>1, <1>6, <1>10, InvParts, RecoveryEnds
<1> HIDE DEF channel, more, answer
<1>12. session' \in Sessions /\ Engaged(session') /\ session'.held = r.s.held
  BY <1>6, <1>10 DEF SameEngine, Engaged
<1>13. Typed'
  <2>1. ctl' \in Controllers /\ wire' \in Wires
    BY <1>10, <1>11 DEF Steered
  <2>2. TypeOK'
    BY <1>1, <1>7, <1>8, <1>12, <2>1, SessionFields, WireFields, InvParts
    DEF SessionInv, Typed, TypeOK, Healths, Bounds, Wires
  <2>. QED
    BY <1>1, <1>7, <1>8, <1>10, <1>12, <2>1, <2>2 DEF SessionInv, Typed, Bounds
<1>14. Holds(ctl, session)'
  <2>1. ASSUME ctl'.phase \in Live, ctl'.position # None  PROVE session'.held = ctl'.position
    BY <1>6, <1>11, <1>12, <2>1 DEF Outcomes, Shown
  <2>. QED  BY <1>12, <2>1 DEF Holds, Engaged
<1>15. PlaysInOrder' /\ LinearIsOver'
  BY <1>1, <1>11 DEF SessionInv, PlaysInOrder, LinearIsOver, HeardFirst
<1>16. Confirms' /\ StreamIsReadable'
  <2>1. StreamIsReadable'
    BY <1>10, ReadableNext
  <2>. QED  BY <1>1, <1>5, <1>10, <1>11, <2>1 DEF SessionInv, Confirms
<1>. QED  BY <1>11, <1>13, <1>14, <1>15, <1>16 DEF SessionInv

\* The result of the last take goes first, and its window stays.
LEMMA ConfirmStep ==
    ASSUME SessionInv, Confirm
    PROVE  SessionInv'
<1> DEFINE keep == TRUE
           done == ~session'.open \/ take.closeAtEnd
<1>1. /\ pc = "confirm" /\ Finish(keep) /\ pc' \in {"over", "poll"}
      /\ flags' = [flags EXCEPT !.confirmed = TRUE, !.done = done]
      /\ UNCHANGED <<take, ctl, ring, health, events, heard>>
  BY DEF Confirm, NextPc
<1>2. keep \in BOOLEAN /\ done \in BOOLEAN
  BY DEF SessionInv, Typed
<1> HIDE DEF keep, done
<1>3. /\ Typed /\ ~flags.confirmed /\ Carries(wire, flags, terminals, events) /\ ctl.ended
      /\ flags.post = 0
  BY <1>1 DEF SessionInv, Confirms, Carries
<1>4. /\ SameEngine(session', session)
      /\ wire' \in Wires /\ wire'.mode \in {"paused", "done"} /\ wire'.stopped
      /\ wire'.mode = "paused" => wire'.ahead = 0 /\ wire'.post = "none" /\ wire'.facts = 0
      /\ bounds' \in Bounds
  BY <1>1, <1>2, <1>3, FinishedTake DEF Bounds, TakeFinished
<1>5. PICK m : /\ Adds(terminals, terminals', m)
               /\ m.linear => session.completed = Frames /\ ~ctl.inspected
               /\ m.paused <=> wire'.mode = "paused"
               /\ m.after = Len(events)
  BY <1>1, <1>2, <1>3, FinishedTake DEF TakeFinished
<1>6. flags' \in Flags /\ flags'.confirmed /\ flags'.post = 0
  <2>1. flags' \in Flags
    BY <1>1, <1>2, InvParts, Zenon DEF Flags
  <2>. QED  BY <1>1, <1>3, <2>1 DEF Flags
<1>7. Typed'
  <2>1. TypeOK'
    BY <1>1, <1>4, SessionFields, WireFields, InvParts
    DEF SessionInv, Typed, TypeOK, Healths, Bounds, Wires, SameEngine
  <2>2. IsSequence(terminals')
    BY <1>5 DEF Adds
  <2>. QED  BY <1>1, <1>4, <1>6, <2>1, <2>2 DEF SessionInv, Typed, Bounds, SameEngine
<1>8. Holds(ctl, session)' /\ PlaysInOrder'
  BY <1>1, <1>4 DEF SessionInv, Holds, PlaysInOrder, HeardFirst, SameEngine
<1>9. LinearIsOver'
  <2>1. SUFFICES ASSUME NEW i \in 1..Len(terminals'), terminals'[i].linear
                 PROVE  HeardFirst(Frames)
    BY <1>1, <1>3 DEF LinearIsOver, HeardFirst
  <2>2. CASE i = Len(terminals) + 1
    <3>1. LinearIsWhole(m)
      BY <1>1, <1>5, CompletedIsHeard
    <3>. QED  BY <1>5, <2>1, <2>2, <3>1 DEF Adds, LinearIsWhole
  <2>3. CASE i # Len(terminals) + 1
    <3>1. i \in 1..Len(terminals) /\ terminals'[i] = terminals[i]
      BY <1>5, <2>1, <2>3 DEF Adds
    <3>. QED  BY <2>1, <3>1 DEF SessionInv, LinearIsOver
  <2>. QED  BY <2>2, <2>3
<1>10. Carries(wire', flags', terminals', events')
  <2>1. /\ terminals'[1] = m /\ Len(terminals') > 0 /\ terminals'[1].after \in Nat
        /\ Len(events) \in Nat
    BY <1>3, <1>5, InTake, FirstResult
  <2>2. CASE wire'.mode = "done"
    BY <1>4, <1>5, <1>6, <2>1, <2>2 DEF Carries
  <2>3. CASE wire'.mode = "paused"
    <3>1. Len(events') = terminals'[1].after + wire'.facts
      BY <1>1, <1>4, <1>5, <2>1, <2>3
    <3>. QED  BY <1>4, <1>5, <1>6, <2>1, <2>3, <3>1 DEF Carries
  <2>. QED  BY <1>4, <2>2, <2>3
<1>11. Confirms' /\ StreamIsReadable'
  BY <1>1, <1>3, <1>4, <1>6, <1>10, ReadableNext DEF Confirms
<1>. QED  BY <1>1, <1>7, <1>8, <1>9, <1>11 DEF SessionInv

\* The end of a take whose result was not sent before.
LEMMA ConcludeStep ==
    ASSUME SessionInv, Conclude
    PROVE  SessionInv'
<1> DEFINE keep == FALSE
<1>1. /\ pc = "over" /\ ~flags.confirmed /\ Finish(keep) /\ pc' = "ended"
      /\ ctl' = Cancel(ctl).ctl
      /\ UNCHANGED <<take, ring, health, flags, events, heard>>
  BY DEF Conclude
<1>2. keep \in BOOLEAN
  OBVIOUS
<1> HIDE DEF keep
<1>3. Typed /\ Carries(wire, flags, terminals, events)
  BY <1>1 DEF SessionInv, Confirms
<1>4. /\ SameEngine(session', session)
      /\ wire' \in Wires /\ wire'.mode \in {"paused", "done"}
      /\ bounds' \in Bounds
  BY <1>1, <1>2, <1>3, FinishedTake DEF Bounds, TakeFinished
<1>5. PICK m : /\ Adds(terminals, terminals', m)
               /\ m.linear => session.completed = Frames /\ ~ctl.inspected
               /\ m.after = Len(events)
  BY <1>1, <1>2, <1>3, FinishedTake DEF TakeFinished
<1>6. Keeps(ctl, ctl') /\ ctl'.phase = "closing"
  BY <1>1, InvParts, CancelKeeps
<1>7. ~Fills(terminals', events')
  BY <1>1, <1>3, <1>5, InTake, FirstResult
<1>8. Over
  BY <1>1, <1>4, <1>6, <1>7, InvParts DEF Over, Keeps, Holds, Engaged, SameEngine, Live
<1>. QED  BY <1>1, <1>5, <1>8, CompletedIsHeard, OverStep

\* The post-end run closes with its own terminal, which never is a linear one.
LEMMA ClosedChannel ==
    ASSUME NEW w \in Wires,
           \/ w.mode \in {"done", "invalid"}
           \/ w.mode = "paused" /\ w.ahead = 0 /\ w.post \in {"open", "spoiled"},
           NEW m, m.type = "terminal", m.run = "post"
    PROVE  Sent(Flushed(w), m) \in Wires /\ Sent(Flushed(w), m).mode = w.mode
<1> DEFINE facts == [type |-> "facts", runs |-> w.pending]
           v == Flushed(w)
<1> DEFINE sent(x) == [x EXCEPT !.pending = {}, !.facts = 0]
           closed(x) == [x EXCEPT !.post = "closed"]
<1>1. \A x \in Wires : /\ sent(x) \in Wires /\ sent(x).mode = x.mode
                       /\ sent(x).ahead = x.ahead /\ sent(x).post = x.post
                       /\ closed(x) \in Wires /\ closed(x).mode = x.mode
                       /\ [x EXCEPT !.post = x.post] = x
  <2>1. SUFFICES ASSUME NEW x \in Wires
                 PROVE  /\ sent(x) \in Wires /\ sent(x).mode = x.mode
                        /\ sent(x).ahead = x.ahead /\ sent(x).post = x.post
                        /\ closed(x) \in Wires /\ closed(x).mode = x.mode
                        /\ [x EXCEPT !.post = x.post] = x
    BY Zenon
  <2>2. 0 \in 0..(BatchCapacity - 1)
    BY SessionAssumption
  <2>3. sent(x) \in Wires /\ closed(x) \in Wires
    BY <2>2, Zenon DEF Wires
  <2>4. sent(x).mode = x.mode /\ sent(x).ahead = x.ahead /\ sent(x).post = x.post
    BY DEF Wires
  <2>5. closed(x).mode = x.mode
    BY DEF Wires
  <2>6. [x EXCEPT !.post = x.post] = x
    BY DEF Wires
  <2>. QED  BY <2>3, <2>4, <2>5, <2>6
<1>2. /\ v.mode = w.mode /\ v \in Wires
      /\ v.mode = "paused" => v.ahead = 0 /\ v.post \in {"open", "spoiled"}
  <2>1. CASE w.mode \in {"done", "invalid"}
    <3>1. Sent(w, facts) = w
      BY <2>1 DEF Sent, Received, Reading
    <3>2. v = w \/ v = sent(w)
      BY <3>1 DEF Flushed
    <3> HIDE DEF v, sent, closed
    <3>. QED  BY <1>1, <2>1, <3>2
  <2>2. CASE w.mode = "paused" /\ w.ahead = 0 /\ w.post \in {"open", "spoiled"}
    <3> DEFINE post == IF w.pending = {"post"} THEN w.post ELSE "spoiled"
               read == [w EXCEPT !.post = post]
    <3>1. Sent(w, facts) = read
      BY <2>2 DEF Sent, Received, Reading
    <3>2. post \in {"open", "spoiled"}
      BY <2>2
    <3> HIDE DEF post
    <3>3. read \in Wires
      <4>1. post \in {"none", "open", "closed", "spoiled"}
        BY <3>2
      <4>. QED  BY <4>1, Zenon DEF Wires
    <3>4. read.mode = "paused" /\ read.ahead = 0 /\ read.post \in {"open", "spoiled"}
      BY <2>2, <3>2 DEF Wires
    <3> HIDE DEF read
    <3>5. v = w \/ v = sent(read)
      BY <3>1 DEF Flushed
    <3> HIDE DEF v, sent, closed
    <3>. QED  BY <1>1, <2>2, <3>3, <3>4, <3>5
  <2>. QED  BY <2>1, <2>2
<1> HIDE DEF v
<1>3. CASE v.mode \in {"done", "invalid"}
  <2>1. Sent(v, m) = v
    BY <1>3 DEF Sent, Received, Reading
  <2>. QED  BY <1>2, <1>3, <2>1 DEF v
<1>4. CASE v.mode = "paused" /\ v.ahead = 0 /\ v.post \in {"open", "spoiled"} /\ v \in Wires
  <2>1. \/ Sent(v, m) = closed(v)
        \/ Sent(v, m) = [v EXCEPT !.post = v.post]
    BY <1>4 DEF Sent, Received, Reading
  <2> HIDE DEF sent, closed
  <2>2. Sent(v, m) \in Wires /\ Sent(v, m).mode = v.mode
    BY <1>1, <1>4, <2>1
  <2>. QED  BY <1>2, <1>4, <2>2 DEF v
<1>. QED  BY <1>2, <1>3, <1>4

LEMMA CloseConfirmedStep ==
    ASSUME SessionInv, CloseConfirmed
    PROVE  SessionInv'
<1> DEFINE m == Terminal("post", "natural_end", FALSE, FALSE, ctl.position = Frames - 1)
<1>1. /\ pc = "over" /\ flags.confirmed /\ pc' = "ended"
      /\ session' = IF wire.stopped THEN session ELSE [session EXCEPT !.open = FALSE]
      /\ ctl' = Cancel(ctl).ctl
      /\ UNCHANGED <<take, ring, health, flags, events, heard, bounds>>
  BY DEF CloseConfirmed
<1>2. SameEngine(session', session)
  <2>1. [session EXCEPT !.open = FALSE] \in Sessions
    BY InvParts, Zenon DEF Sessions
  <2>. QED  BY <1>1, <2>1, InvParts DEF SameEngine, Sessions
<1>3. Keeps(ctl, ctl') /\ ctl'.phase = "closing"
  BY <1>1, InvParts, CancelKeeps
<1>4. /\ Carries(wire, flags, terminals, events) /\ Status(wire) = wire
      /\ wire.mode = "invalid" <=> Fills(terminals, events)
  BY <1>1, InvParts, CarriesReadable
<1>5. CASE flags.post = 0
  <2>1. wire' = wire /\ UNCHANGED terminals
    BY <1>4, <1>5 DEF CloseConfirmed
  <2>2. Over
    BY <1>1, <1>2, <1>3, <1>4, <2>1, InvParts
    DEF Over, Keeps, Holds, Engaged, SameEngine, Live
  <2>. QED  BY <2>1, <2>2, OverStep
<1>6. CASE flags.post # 0
  <2>1. wire' = Sent(Flushed(wire), m) /\ terminals' = Append(terminals, m)
    BY <1>4, <1>6 DEF CloseConfirmed
  <2>2. m.type = "terminal" /\ m.run = "post" /\ ~m.linear
    BY DEF Terminal
  <2> HIDE DEF m
  <2>3. \/ wire.mode \in {"done", "invalid"}
        \/ wire.mode = "paused" /\ wire.ahead = 0 /\ wire.post \in {"open", "spoiled"}
    BY <1>1, <1>4, <1>6 DEF Carries
  <2>4. wire' \in Wires /\ wire'.mode = wire.mode
    BY <2>1, <2>2, <2>3, InvParts, ClosedChannel
  <2>5. Adds(terminals, terminals', m) /\ LinearIsWhole(m)
    BY <2>1, <2>2, AppendAdds DEF SessionInv, Typed, LinearIsWhole
  <2>6. Fills(terminals', events') <=> Fills(terminals, events)
    <3>1. Len(terminals) > 0
      BY <1>1, <1>4 DEF Carries
    <3>2. terminals'[1] = terminals[1] /\ Len(terminals') > 0
      BY <2>5, <3>1 DEF Adds
    <3>. QED  BY <1>1, <3>1, <3>2 DEF Fills, PausedBy
  <2>7. Over
    BY <1>1, <1>2, <1>3, <1>4, <2>4, <2>6, InvParts
    DEF Over, Keeps, Holds, Engaged, SameEngine, Live
  <2>. QED  BY <2>5, <2>7, OverStep
<1>. QED  BY <1>5, <1>6

-----------------------------------------------------------------------------
\* The invariant holds, and with it the properties.

LEMMA InvInit == Init => SessionInv
<1> SUFFICES ASSUME Init  PROVE SessionInv
  OBVIOUS
<1>1. /\ pc = "admit" /\ ring = {} /\ terminals = << >> /\ heard = << >> /\ events = << >>
      /\ take \in [last : BOOLEAN, closeAtEnd : BOOLEAN]
      /\ ctl = NewController(take.last)
      /\ session = [open |-> FALSE, engine |-> -1, held |-> None, completed |-> 0,
                    loopFailed |-> FALSE, finished |-> FALSE, audible |-> TRUE]
      /\ health = [state |-> "healthy", minimized |-> FALSE, video |-> FALSE, audio |-> FALSE]
      /\ flags = [cancelled |-> FALSE, failed |-> FALSE, done |-> FALSE, confirmed |-> FALSE,
                  pausedAtEnd |-> FALSE, interrupted |-> FALSE, post |-> 0]
      /\ wire = [ahead |-> 0, mode |-> "take", post |-> "none", pending |-> {},
                 facts |-> 0, stopped |-> FALSE]
      /\ bounds = [inputs |-> 0, faults |-> 0]
  BY DEF Init
<1>2. ctl \in Controllers /\ ctl.phase = "preparing" /\ ctl.position = None /\ ~ctl.ended
      /\ ~ctl.endPending /\ ~ctl.inspected
  <2>1. take.last \in BOOLEAN /\ None \in None..(Frames - 1)
    BY <1>1, FramesAssumption DEF None
  <2>. QED  BY <1>1, <2>1 DEF NewController, Controllers, Phases
<1>3. session \in Sessions
  BY <1>1, FramesAssumption DEF Sessions, Lost, None
<1>4. flags \in Flags /\ health \in Healths /\ wire \in Wires
  BY <1>1, SessionAssumption DEF Flags, Healths, Wires, Reading
<1>5. bounds \in [inputs : 0..MaxInputs, faults : 0..MaxFaults]
  BY <1>1, SessionAssumption
<1>6. IsSequence(<< >>)
  BY Tuples
<1>7. Typed
  <2>1. TypeOK
    BY <1>1, <1>2, <1>3, SessionFields, SessionAssumption DEF TypeOK, Reading
  <2>. QED  BY <1>1, <1>3, <1>4, <1>5, <1>6, <2>1 DEF Typed
<1>8. Steered(ctl) /\ Holds(ctl, session) /\ PlaysInOrder /\ LinearIsOver
  <2>1. Len(heard) = 0 /\ Len(terminals) = 0
    BY <1>1
  <2>. QED
    BY <1>1, <1>2, <2>1
    DEF Steered, Holds, PlaysInOrder, LinearIsOver, HeardFirst, None, Lost, Live
<1>9. Confirms /\ StreamIsReadable
  <2>1. Len(terminals) = 0
    BY <1>1
  <2>. QED  BY <1>1, <1>2, <2>1 DEF Confirms, Carries, StreamIsReadable, Overfull
<1>. QED  BY <1>7, <1>8, <1>9 DEF SessionInv

LEMMA InvStep == SessionInv /\ [Next]_vars => SessionInv'
<1> SUFFICES ASSUME SessionInv, [Next]_vars  PROVE SessionInv'
  OBVIOUS
<1>1. CASE Loop
  <2>1. CASE Admit
    BY <2>1, BeforeTheLoop
  <2>2. CASE ReadMaterial \/ PrepareEngine
    BY <2>2, FailedBefore
  <2>3. CASE Poll
    BY <2>3, PolledStep
  <2>4. CASE EndWindow \/ WaitTurn \/ ReachSlot \/ ShowStill
    BY <2>4, PhaseSteps
  <2>5. CASE AttendHealth
    BY <2>5, HealthStep
  <2>6. CASE PlayFrame
    BY <2>6, PlayFrameStep
  <2>7. CASE FrameFails
    BY <2>7, FrameFailsStep
  <2>8. CASE Recover
    BY <2>8, RecoverStep
  <2>9. CASE Confirm
    BY <2>9, ConfirmStep
  <2>10. CASE Conclude
    BY <2>10, ConcludeStep
  <2>11. CASE CloseConfirmed
    BY <2>11, CloseConfirmedStep
  <2>. QED
    BY <1>1, <2>1, <2>2, <2>3, <2>4, <2>5, <2>6, <2>7, <2>8, <2>9, <2>10, <2>11 DEF Loop
<1>2. CASE User
  BY <1>2, UserStep
<1>3. CASE SupervisorCancels \/ UNCHANGED vars
  <2>1. UNCHANGED <<pc, take, ctl, session, ring, health, flags, wire, terminals, events,
                    heard, bounds>>
    BY <1>3 DEF SupervisorCancels, vars
  <2>. QED
    BY <2>1
    DEF SessionInv, Typed, TypeOK, Holds, PlaysInOrder, LinearIsOver, HeardFirst, Confirms,
        StreamIsReadable, Overfull
<1>4. CASE EngineFacts
  BY <1>4, EngineStep
<1>. QED  BY <1>1, <1>2, <1>3, <1>4 DEF Next

LEMMA SessionSafe == Spec => []SessionInv
BY InvInit, InvStep, PTL DEF Spec

\* A take whose result says it was played to its end without navigation (describe_terminal's
\* linear traversal) was heard whole, once and in order: a step taken back, a recovery that
\* failed, a frame that broke off or a result sent by fail_session never counts as linear.
THEOREM LinearWasHeard == Spec => []LinearMeansHeardInOrder
<1>1. SessionInv => LinearMeansHeardInOrder
  <2>1. SUFFICES ASSUME SessionInv, NEW i \in 1..Len(terminals), terminals[i].linear
                 PROVE  [k \in 1..Len(heard) |-> heard[k].frame] = [k \in 1..Frames |-> k - 1]
    BY DEF LinearMeansHeardInOrder
  <2>2. Len(heard) = Frames /\ \A k \in 1..Frames : heard[k].frame = k - 1
    BY <2>1 DEF SessionInv, LinearIsOver, HeardFirst
  <2>. QED  BY <2>2
<1>. QED  BY <1>1, SessionSafe, PTL

\* Whatever the user presses, the window loses or the Engine fails at, the frame shown in
\* pause is the one the session holds and the Engine is at (apply, recover), and the
\* supervisor can read every message of the channel (send_result, reopen after the result)
\* but one: the batch that the events of the pause after the confirmed result fill before a
\* post-end run is opened (push_fact).
THEOREM SessionCoherent == Spec => []SessionIsCoherent
<1>1. SessionInv => SessionIsCoherent
  <2>1. SUFFICES ASSUME SessionInv  PROVE SessionIsCoherent
    OBVIOUS
  <2>2. PositionIsHeld
    BY <2>1 DEF SessionInv, Holds, Live, PositionIsHeld
  <2>. QED  BY <2>1, <2>2 DEF SessionInv, Typed, SessionIsCoherent
<1>. QED  BY <1>1, SessionSafe, PTL
==============================================================================
