------------------------------- MODULE Coexistence ------------------------------
(***************************************************************************)
(* Which voices sounded during a transition: the spans of the mix list     *)
(* their participants with the stretch each had, the occurrences say how   *)
(* each voice started.  Spans and occurrences arrive in any order, and the *)
(* question is asked of what arrived.                                      *)
(***************************************************************************)
EXTENDS Naturals, Sequences, FiniteSets
LOCAL INSTANCE SequencesExt

CONSTANTS Occurrences,   \* records: id (with its run), causes
          MixSpans,      \* well-formed spans: run, timeline, participants (id, begin, end)
          Markers,       \* transitions: run, timeline, begin, end
          MaxOccurrences, MaxSpans    \* bounds on what arrives
VARIABLES occurrences, spans, asked, answer

vars == <<occurrences, spans, asked, answer>>

Answer(status, voices) == [status |-> status, voices |-> voices]

\* How a voice started, by the kinds of its causes.
Provenance(causes) ==
    IF causes = {"fact", "context"} THEN "mixed" ELSE IF causes = {"fact"} THEN "explicit_fact"
    ELSE IF causes = {"context"} THEN "preexisting_context" ELSE "unknown"

Larger(n, m) == IF n > m THEN n ELSE m
Smaller(n, m) == IF n < m THEN n ELSE m
Shared(participant, marker) ==
    [begin |-> Larger(participant.begin, marker.begin), end |-> Smaller(participant.end, marker.end)]

Heard(span, marker) ==
    IF span.run # marker.run \/ span.timeline # marker.timeline THEN << >>
    ELSE SelectSeq(span.participants, LAMBDA p : Shared(p, marker).begin < Shared(p, marker).end)

\* A participant that is heard adds its stretch to its voice, or the voice.
\* Fault: a voice that is there keeps the stretch it had.
OneStretch(voices, participant, marker) ==
    LET at == SelectInSeq(voices, LAMBDA voice : voice.id = participant.id)
        known == occurrences[SelectInSeq(occurrences, LAMBDA o : o.id = participant.id)]
    IN  IF at # 0 THEN voices
        ELSE Append(voices, [id |-> known.id, start |-> Provenance(known.causes),
                             stretches |-> <<Shared(participant, marker)>>])
AddStretch(voices, participant, marker) ==
    LET at == SelectInSeq(voices, LAMBDA voice : voice.id = participant.id)
        known == occurrences[SelectInSeq(occurrences, LAMBDA o : o.id = participant.id)]
    IN  IF at # 0 THEN [voices EXCEPT ![at].stretches = Append(@, Shared(participant, marker))]
        ELSE Append(voices, [id |-> known.id, start |-> Provenance(known.causes),
                             stretches |-> <<Shared(participant, marker)>>])

\* query_coexistence
QueryCoexistence(marker) ==
    LET heard == FlattenSeq([n \in DOMAIN spans |-> Heard(spans[n], marker)])
        ids == [n \in DOMAIN occurrences |-> occurrences[n].id]
        voices == FoldLeft(LAMBDA v, p : AddStretch(v, p, marker), << >>, heard)
    IN  IF marker.begin >= marker.end THEN Answer("invalid_marker", << >>)
        ELSE IF Cardinality(ToSet(ids)) # Len(ids) THEN Answer("invalid_occurrence", << >>)
        ELSE IF \E p \in ToSet(heard) : p.id \notin ToSet(ids) THEN Answer("missing_occurrence", << >>)
        ELSE Answer(IF Len(voices) > 1 THEN "found" ELSE "no_coexistence", voices)

Init == occurrences = << >> /\ spans = << >> /\ asked = << >> /\ answer = Answer("no_coexistence", << >>)

AddOccurrence(o) ==
    /\ asked = << >> /\ Len(occurrences) < MaxOccurrences
    /\ occurrences' = Append(occurrences, o) /\ UNCHANGED <<spans, asked, answer>>

AddSpan(span) ==
    /\ asked = << >> /\ Len(spans) < MaxSpans
    /\ spans' = Append(spans, span) /\ UNCHANGED <<occurrences, asked, answer>>

Ask(marker) ==
    /\ asked = << >> /\ asked' = <<marker>>
    /\ answer' = QueryCoexistence(marker)
    /\ UNCHANGED <<occurrences, spans>>

Next ==
    \/ \E o \in Occurrences : AddOccurrence(o)
    \/ \E span \in MixSpans : AddSpan(span)
    \/ \E marker \in Markers : Ask(marker)

Spec == Init /\ [][Next]_vars

-----------------------------------------------------------------------------
(***************************************************************************)
(* What is listed for a voice is, instant by instant, when the marker and  *)
(* a participant of that voice sound together, as often as spans say it:   *)
(* nothing is listed twice, left out or taken from another timeline or run *)
(* (query_coexistence).                                                    *)
(***************************************************************************)
VoicesAreHeard ==
    asked # << >> /\ answer.status \in {"found", "no_coexistence"} =>
        LET marker == asked[1]
            Sounds(p, t) == t >= p.begin /\ t < p.end
            Listed(id, t) == {<<n, k>> \in (DOMAIN answer.voices) \X (1..MaxSpans) :
                                 /\ answer.voices[n].id = id /\ k <= Len(answer.voices[n].stretches)
                                 /\ Sounds(answer.voices[n].stretches[k], t)}
            Recorded(id, t) == {n \in DOMAIN spans :
                                   /\ spans[n].run = marker.run /\ spans[n].timeline = marker.timeline
                                   /\ \E p \in ToSet(spans[n].participants) : p.id = id /\ Sounds(p, t)}
        IN  /\ \A id \in {o.id : o \in Occurrences} : \A t \in marker.begin..(marker.end - 1) :
                  Cardinality(Listed(id, t)) = Cardinality(Recorded(id, t))
            /\ \A voice \in ToSet(answer.voices) : \A stretch \in ToSet(voice.stretches) :
                  marker.begin <= stretch.begin /\ stretch.end <= marker.end
            /\ \A n, m \in DOMAIN answer.voices : answer.voices[n].id = answer.voices[m].id => n = m
================================================================================
