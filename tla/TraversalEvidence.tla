-------------------------- MODULE TraversalEvidence --------------------------
(***************************************************************************)
(* The traversal of a take (tools/audio_qa/inspection_evidence.cpp).  The  *)
(* supervisor never sees a frame: it rebuilds which frames were played,    *)
(* visited and heard in which stretch of audio from the inspection events, *)
(* the audio segments and the terminal the Runtime sent, and writes the    *)
(* traversal document.  The Runtime here is InspectionController's, with   *)
(* recoveries that always succeed (ReplaySession has the others).          *)
(***************************************************************************)
EXTENDS InspectionController, FiniteSets, FiniteSetsExt

CONSTANTS MaxVisits,     \* max_traversal_visits
          MaxKeys,       \* bound on keys pressed
          MaxLosses      \* bound on losses of the presentation

VARIABLES ctl,           \* the Runtime's controller
          consumed,      \* inputs its linear playback consumed
          events,        \* inspection events sent: control, frame before and after
          resumes,       \* segments opened: one at each resume
          heard,         \* frames played with sound, by segment
          keys, losses,
          over           \* how the take ended, or none
vars == <<ctl, consumed, events, resumes, heard, keys, losses, over>>

----------------------------------------------------------------------------
(***************************************************************************)
(* The Runtime: what it plays and what it sends.                           *)
(***************************************************************************)
Emitted(c, command) ==
    [control |-> command.control, after |-> command.frame,
     before |-> IF command.control \in {"step_back", "step_forward"} THEN Shown(c)
                ELSE command.frame]
EventsOf(c, commands) ==
    LET kept == SelectSeq(commands, LAMBDA k : k.kind \in {"inspection_event", "toggle_debug"}) IN
    [i \in DOMAIN kept |->
        IF kept[i].kind = "toggle_debug"
        THEN [control |-> "overlay_toggle", before |-> Shown(c), after |-> Shown(c)]
        ELSE Emitted(c, kept[i])]
Resumed(commands) == \E i \in DOMAIN commands : commands[i].kind = "resume_audio"

Init ==
    /\ ctl \in {Prepared(NewController(last)).ctl : last \in BOOLEAN}
    /\ consumed = 0 /\ events = << >> /\ resumes = 0 /\ heard = {}
    /\ keys = 0 /\ losses = 0 /\ over = "no"

PlayFrame ==
    /\ over = "no" /\ ctl.phase \in {"playing", "pausing"} /\ ~TakeEndPending(ctl)
    /\ LET frame == NextFrame(ctl)
           answer == FrameCompleted(ctl, frame) IN
         /\ ctl' = answer.ctl
         /\ consumed' = Max({consumed, frame + 1})
         /\ heard' = heard \cup {<<frame, resumes>>}
         /\ events' = events \o EventsOf(answer.ctl, answer.commands)
         /\ over' = IF answer.ctl.ended /\ ctl.last /\ ctl.phase = "playing" THEN "natural" ELSE over
    /\ UNCHANGED <<resumes, keys, losses>>

PressKey ==
    /\ over = "no" /\ keys < MaxKeys /\ keys' = keys + 1
    /\ \E action \in KeyActions :
         LET answer == Key(ctl, action)
             there == IF answer.ctl.phase = "recovering"
                      THEN RecoveryFinished(answer.ctl, "presented").ctl ELSE answer.ctl IN
         /\ ctl' = there
         /\ consumed' = IF answer.ctl.phase = "recovering"
                        THEN Max({consumed, answer.ctl.target + 1}) ELSE consumed
         /\ events' = events \o EventsOf(ctl, answer.commands)
         /\ resumes' = IF Resumed(answer.commands) THEN resumes + 1 ELSE resumes
         /\ over' = IF there.phase # "closing" THEN over
                    ELSE IF there.ended THEN "natural" ELSE "stopped"
    /\ UNCHANGED <<heard, losses>>

\* A loss of the presentation, and its recovery, which leaves the take paused.
Lose ==
    /\ over = "no" /\ losses < MaxLosses /\ losses' = losses + 1
    /\ ctl.phase \in {"playing", "paused"}
    /\ LET lost == PresentationInterrupted(ctl)
           back == PresentationRecovered(lost.ctl) IN
         /\ ctl' = back.ctl
         /\ events' = events \o EventsOf(ctl, lost.commands \o back.commands)
    /\ UNCHANGED <<consumed, resumes, heard, keys, over>>

ReachSlot ==
    /\ over = "no" /\ TakeEndPending(ctl)
    /\ ctl' = TakeSlotReached(ctl).ctl /\ over' = "natural"
    /\ UNCHANGED <<consumed, events, resumes, heard, keys, losses>>

\* The window is closed or the supervisor cancels.
Stop ==
    /\ over = "no"
    /\ ctl' = Cancel(ctl).ctl
    /\ over' = IF ctl.ended THEN "natural" ELSE "stopped"
    /\ UNCHANGED <<consumed, events, resumes, heard, keys, losses>>

Next == PlayFrame \/ PressKey \/ Lose \/ ReachSlot \/ Stop
Spec == Init /\ [][Next]_vars
----------------------------------------------------------------------------
(***************************************************************************)
(* The supervisor: TraversalRecorder, traversal_of_take.                   *)
(***************************************************************************)
NoDocument(total) ==
    [kind |-> "linear", total |-> total, segments |-> << >>, visits |-> << >>,
     resumeAfter |-> << >>, interruptions |-> << >>, last |-> None, exceeded |-> FALSE]

FramePlayed(d, frame) ==
    LET played == [d EXCEPT !.last = frame]
        n == Len(d.resumeAfter) IN
    IF d.visits # << >>
    THEN LET seq == d.visits[Len(d.visits)].seq IN
         IF n = 0 \/ (n > 0 /\ d.resumeAfter[n].seq # seq)
         THEN [played EXCEPT !.resumeAfter =
                                Append(@, [seq |-> seq, from |-> frame, to |-> frame])]
         ELSE [played EXCEPT !.resumeAfter[n].to = frame]
    ELSE IF d.segments = << >>
    THEN [played EXCEPT !.segments = <<[from |-> frame, to |-> frame]>>]
    ELSE [played EXCEPT !.segments[Len(d.segments)].to = frame]
Played(d, from, to) == IF from <= to THEN FramePlayed(FramePlayed(d, from), to) ELSE d

Inspection(d, seq) ==
    LET e == events[seq] IN
    IF e.control = "interrupted"
    THEN [d EXCEPT !.interruptions = Append(@, [seq |-> seq, frame |-> e.before])]
    ELSE IF d.exceeded \/ Len(d.visits) >= MaxVisits THEN [d EXCEPT !.exceeded = TRUE]
    ELSE [d EXCEPT !.visits = Append(@, [seq |-> seq, frame |-> e.after, control |-> e.control]),
                   !.kind = IF e.control \in {"step_back", "step_forward"}
                            THEN "inspection" ELSE @]

\* The stretch after event i ends where the next event happened, or with the take.
Until(i) ==
    IF i < Len(events) THEN Min({events[i + 1].before, consumed - 1}) ELSE consumed - 1
TraversalOfTake ==
    LET start == IF consumed = 0 THEN NoDocument(Frames)
                 ELSE Played(NoDocument(Frames), 0, Until(0))
        after[i \in 0..Len(events)] ==
            IF i = 0 THEN start
            ELSE LET seen == Inspection(after[i - 1], i) IN
                 IF consumed = 0 THEN seen
                 ELSE Played(seen, events[i].after + 1, Until(i))
    IN after[Len(events)]
LinearCompleted(d) ==
    d.kind = "linear" /\ d.last # None /\ d.total > 0 /\ d.last + 1 = d.total
ExceedsVisitLimit ==
    Cardinality({i \in DOMAIN events : events[i].control # "interrupted"}) > MaxVisits

(***************************************************************************)
(* audio_segments_of_take: the Runtime opens segment n at its n-th resume. *)
(***************************************************************************)

SegmentOf(seq) == Cardinality({i \in DOMAIN events : events[i].control = "resume" /\ i <= seq})

Stretches(d) ==
    {<<0, d.segments[i].from, d.segments[i].to>> : i \in DOMAIN d.segments} \cup
    {<<SegmentOf(d.resumeAfter[i].seq), d.resumeAfter[i].from, d.resumeAfter[i].to>> :
        i \in DOMAIN d.resumeAfter}
Kept == {h[2] : h \in heard}                 \* the segments with PCM
Framed(d) == {s[1] : s \in Stretches(d)}
Interval(d, n) ==
    LET mine == {s \in Stretches(d) : s[1] = n} IN
    Min({s[2] : s \in mine})..Max({s[3] : s \in mine})
AudioSegments(d) ==
    CASE Kept \ Framed(d) # {} -> "pcm_without_frames"
      [] Framed(d) \ Kept # {} -> "frames_without_pcm"
      [] OTHER -> "placed"

(***************************************************************************)
(* traversal.toml, as the table of its keys.  The audio segments are there *)
(* when they were placed; an earlier document (schema 1.1) has no such key.*)
(* check_runner reads the document back before it reports the take.        *)
(***************************************************************************)
DocumentKeys == {"kind", "linear", "total", "segments", "visits", "resumeAfter", "interruptions"}
AudioRows(d) ==
    {[segment |-> n, from |-> Min(Interval(d, n)), to |-> Max(Interval(d, n))] : n \in Kept}

FormatTraversal(d, audio) ==
    [k \in DocumentKeys \cup (IF audio THEN {"audio"} ELSE {}) |->
        CASE k = "linear" -> LinearCompleted(d)
          [] k = "audio" -> AudioRows(d)
          [] OTHER -> d[k]]
\* << >>: invalid; a document without audio says that it does not know it, not that it has none.
ParseTraversal(table) ==
    IF /\ DocumentKeys \subseteq DOMAIN table
       /\ "audio" \in DOMAIN table => \A row \in table.audio : row.from <= row.to
    THEN <<[k \in DocumentKeys \cup {"audio"} |->
                IF k = "audio" THEN IF k \in DOMAIN table THEN <<table[k]>> ELSE << >>
                ELSE table[k]]>>
    ELSE << >>
Published == FormatTraversal(TraversalOfTake, AudioSegments(TraversalOfTake) = "placed")
----------------------------------------------------------------------------
\* The supervisor's document, as it is read back, and the Runtime's terminal agree on whether the take was played
\* linearly to its end: one is rebuilt from events, the other from the controller, and neither
\* is sent the other.  A traversal with more visits than are kept is declared incomplete.
DocumentAgreesWithTerminal ==
    over # "no" =>
        LET d == TraversalOfTake
            read == ParseTraversal(Published) IN
        /\ read # << >>
        /\ d.exceeded = ExceedsVisitLimit
        /\ ~d.exceeded => (read[1].linear <=> (over = "natural" /\ ~ctl.inspected))

\* The audio of a take that was played from its first frame and reached its end has a place:
\* each segment of it is given frames of the traversal, and every frame heard in it is among
\* them, however often the take was paused, resumed, inspected and lost on the way.
HeardIsPlaced ==
    (over = "natural" /\ <<0, 0>> \in heard /\ ~ExceedsVisitLimit) =>
        LET audio == ParseTraversal(Published)[1].audio IN
        /\ audio # << >>
        /\ \A h \in heard : \E row \in audio[1] : row.segment = h[2] /\ h[1] \in row.from..row.to
=============================================================================
