------------------------------ MODULE MCTools ------------------------------
(***************************************************************************)
(* The components around the supervisor and the Runtime's session, checked *)
(* in one run.  They do not share state, so a behaviour exercises one of   *)
(* them: `part' says which, and its variables are the first ones of the    *)
(* pool v1, v2, ...; the variables it does not use keep the value 0.  The  *)
(* supervision of the runs has its own variables, which stay as they begin *)
(* in the other parts.  Values and bounds are given where each component   *)
(* is instantiated, those of the supervision in the configuration.         *)
(***************************************************************************)
EXTENDS RunSupervision

VARIABLES part, v1, v2, v3, v4, v5, v6, v7, v8, v9, v10, v11, v12, v13, v14, v15

After8 == <<v9, v10, v11, v12, v13, v14, v15>>
After7 == <<v8, After8>>
After5 == <<v6, v7, After7>>
After4 == <<v5, After5>>
pool == <<v1, v2, v3, v4, After4>>

Zero8 == v9 = 0 /\ v10 = 0 /\ v11 = 0 /\ v12 = 0 /\ v13 = 0 /\ v14 = 0 /\ v15 = 0
Zero7 == v8 = 0 /\ Zero8
Zero5 == v6 = 0 /\ v7 = 0 /\ Zero7
Zero4 == v5 = 0 /\ Zero5

\* Facts for module FactMessages, with its representation of their fields.
Known == 0
DefaultField == [availability |-> 1, value |-> << >>, reason |-> <<9>>]
NoId == [run |-> << >>, producer |-> << >>, sequence |-> 0]
Id(n) == [run |-> <<1>>, producer |-> <<2>>, sequence |-> n]
Unknown == [availability |-> 2, value |-> << >>, reason |-> <<3>>]
Value(v) == [availability |-> Known, value |-> <<v>>, reason |-> << >>]
PlainFact == [id |-> Id(1), kind |-> <<1>>, frame |-> Value(0), causes |-> << >>,
    strings |-> [k \in 1..4 |-> DefaultField], order |-> DefaultField, fields |-> << >>]
Observed(type, number, text, id) ==
    [name |-> <<1>>, availability |-> IF type = 0 THEN 2 ELSE Known, unit |-> 1, type |-> type,
     reason |-> IF type = 0 THEN <<1>> ELSE << >>, number |-> number, text |-> text, id |-> id]
\* One fact for every form and every kind of value.
Variants == {PlainFact,
    [PlainFact EXCEPT !.frame = Unknown],
    [PlainFact EXCEPT !.causes = <<[context |-> << >>, id |-> Id(2)], [context |-> <<1>>, id |-> NoId]>>],
    [PlainFact EXCEPT !.order = Value(<<[state |-> <<1>>, sequence |-> 2]>>)],
    [PlainFact EXCEPT !.strings = [k \in 1..4 |-> IF k = 2 THEN Value(<<1, 2>>) ELSE Unknown]],
    [PlainFact EXCEPT !.order = Value(<<[state |-> <<1>>, sequence |-> 2]>>),
                  !.fields = <<Observed(3, -1, << >>, NoId)>>],
    [PlainFact EXCEPT !.fields = <<Observed(0, 0, << >>, NoId)>>, !.frame = Unknown],
    [PlainFact EXCEPT !.fields = <<Observed(1, 1, << >>, NoId)>>,
                  !.causes = <<[context |-> << >>, id |-> Id(2)]>>],
    [PlainFact EXCEPT !.fields = <<Observed(5, 0, <<1>>, NoId)>>],
    [PlainFact EXCEPT !.fields = <<Observed(6, 0, << >>, Id(3))>>,
                  !.causes = <<[context |-> <<1>>, id |-> NoId]>>]}
MCBatches == {<<f>> : f \in Variants} \cup {<<PlainFact, [PlainFact EXCEPT !.id = Id(2), !.frame = Unknown]>>}

\* Messages for module SessionMessages, with its representation of their keys.
With(table, key, value) == [k \in DOMAIN table \cup {key} |-> IF k = key THEN value ELSE table[k]]
Hash(bytes) == [of |-> bytes]
MCIdentities == {"a", "b"}
Request(takes) == [schema_version |-> 1, schema_minor |-> 0, kind |-> "request", request_id |-> "a",
    session_id |-> "b", conditions_id |-> "a", take_ids |-> takes, admission |-> "pending"]
Needs == [timeline : BOOLEAN, close_at_end : BOOLEAN, take_version : {9, 10}, visible : BOOLEAN]
\* check_runner.cpp: a timeline names its kind, a take keeps the shape it had.
RequestNeeding(needs) == IF needs.timeline THEN With(Request(<<"a">>), "material_kind", "timeline")
                ELSE Request(<<"a">>)
Requests == {[kind |-> "request", release |-> r, needs |-> n, value |-> RequestNeeding(n)] :
                r \in {"current", "visible", "first"}, n \in Needs}
NoNeeds == [timeline |-> FALSE, close_at_end |-> FALSE, take_version |-> 9, visible |-> FALSE]
Sending(kind, value) == [kind |-> kind, release |-> "current", needs |-> NoNeeds, value |-> value]
Cancellations ==
    {[request_id |-> "a", run_id |-> "b", stage |-> s, frames_completed |-> 0] :
        s \in {"requested", "acknowledged", "applied"}} \cup
    {[request_id |-> "a", run_id |-> "b", stage |-> s, frames_completed |-> 2, last_engine_frame |-> 1] :
        s \in {"applied", "cessation_confirmed"}}
State(phase) == [status |-> "replay_state", run_id |-> "a", take_position |-> 0, phase |-> phase,
    frames_total |-> 2, overlay_visible |-> TRUE]
Statuses == {State("preparing"), With(State("paused"), "frame", 1),
    With(State("interrupted"), "interruption_cause", "b"),
    [status |-> "run_opened", run_id |-> "b", take_position |-> 1, traversal |-> "post_end_inspection"]}
Run(phase) == [schema_version |-> 1, schema_minor |-> 0, kind |-> "run", run_id |-> "a",
    request_id |-> "b", take_id |-> "a", phase |-> phase, playback_result |-> "natural_end",
    evidence_result |-> "complete", equivalence_result |-> "unknown", cessation_confirmed |-> TRUE]
Runs == {Run("closed"), With(Run("playing"), "last_executed_frame", 2)}
Range(begin, end) == [timeline |-> "a", rate |-> 44100, begin |-> begin, end |-> end]
Cause == [run |-> "a", producer |-> "b", sequence |-> 1]
Chunk == [run_id |-> "a", capture_point |-> "b", producer_sequence |-> 1, pcm_format |-> "s16le",
    sample_rate |-> 44100, channels |-> 1, timeline |-> "a", begin |-> 1, end |-> 3,
    bytes |-> <<1, 2, 3, 4>>, hash |-> Hash(<<1, 2, 3, 4>>), durability |-> "pending",
    checkpoint |-> << >>, causes |-> << >>, discontinuities |-> << >>, segment |-> 0]
Chunks == {Chunk, [Chunk EXCEPT !.causes = <<Cause>>], [Chunk EXCEPT !.segment = 2],
    [Chunk EXCEPT !.segment = 1, !.causes = <<Cause>>, !.durability = "confirmed", !.checkpoint = <<"a">>],
    [Chunk EXCEPT !.channels = 2, !.end = 2,
        !.discontinuities = <<[kind |-> "inserted_silence", affected |-> Range(0, 1),
                               output |-> <<Range(0, 1)>>, causes |-> <<Cause>>]>>]}
MCSendings == Requests
    \cup {Sending("admission", [Request(<<"a", "b">>) EXCEPT !.admission = a]) : a \in {"accepted", "rejected"}}
    \cup {Sending("cancellation", c) : c \in Cancellations} \cup {Sending("status", s) : s \in Statuses}
    \cup {Sending("run", r) : r \in Runs} \cup {Sending("chunk", c) : c \in Chunks}

\* Two prefilled forms of the launcher; an empty one takes more edits than the bound.
MCForms ==
    {[rom |-> "md", core |-> "", slots |-> <<"take", "timeline">>, pack |-> "trusted",
      manifest |-> "same", patch |-> TRUE],
     [rom |-> "md", core |-> "own", slots |-> <<"timeline">>, pack |-> "original",
      manifest |-> "other", patch |-> FALSE]}

Launch == INSTANCE Launcher WITH
    disk <- v1, changes <- v2, form <- v3, edits <- v4, env <- v5, dirty <- v6, issues <- v7,
    active <- v8, results <- v9, open <- v10, dialogs <- v11, ui <- v12, worker <- v13,
    running <- v14, queue <- v15,
    Forms <- MCForms, MaxChanges <- 1, MaxEdits <- 1, MaxStarts <- 2

Kept == INSTANCE Evidence WITH
    writer <- v1, task <- v2, directory <- v3, fragments <- v4, blocks <- v5, faults <- v6,
    result <- v7,
    MaxBatches <- 4, MaxPending <- 2, MaxBlocks <- 2, MaxSample <- 2, MaxFaults <- 1

Saved == INSTANCE Checkpoints WITH
    now <- v1, threshold <- v2, arrival <- v3, usage <- v4, artifacts <- v5, current <- v6,
    asked <- v7,
    Interval <- 2, ByteLimit <- 3, MaxRegular <- 4, Reserve <- 1, MaxTime <- 5, MaxDamage <- 1

Facts == INSTANCE FactMessages WITH
    sent <- v1, wire <- v2, result <- v3, damage <- v4,
    Batches <- MCBatches, MaxPayload <- 90, MaxRecords <- 2, MaxFact <- 80,
    MaxIdentity <- 2, MaxCauses <- 2, MaxOrders <- 1, MaxFields <- 1, MaxDamage <- 1

Said == INSTANCE SessionMessages WITH
    sent <- v1, wire <- v2, result <- v3, damage <- v4,
    Sendings <- MCSendings, Identities <- MCIdentities,
    MaxPayload <- 12, MaxTakes <- 2, MaxCauses <- 1, MaxGaps <- 1, MaxSample <- 4,
    MaxAudio <- 6, MaxDamage <- 1

Traversal == INSTANCE TraversalEvidence WITH
    ctl <- v1, consumed <- v2, events <- v3, resumes <- v4, heard <- v5, keys <- v6,
    losses <- v7, over <- v8,
    Frames <- 4, MaxVisits <- 5, MaxKeys <- 5, MaxLosses <- 1

\* Facts of one run; a span without range, one with a rate out of bounds, one of another run.
MCIds == {[run |-> "a", n |-> n] : n \in 1..3}
MCSpan(run, id, output, ns) ==
    [run |-> run, id |-> id, output |-> output, facts |-> [k \in DOMAIN ns |-> [run |-> run, n |-> ns[k]]]]
MCAudio(rate) == <<[rate |-> rate, begin |-> 0, end |-> 1]>>
MCSpans == {MCSpan("a", "first", MCAudio(1), <<3, 2>>), MCSpan("a", "silent", << >>, <<1>>),
            MCSpan("a", "fast", MCAudio(2), <<3>>), MCSpan("b", "first", MCAudio(1), << >>)}
MCLink(n, span, reason) == [event |-> [run |-> "a", n |-> n], span |-> span, reason |-> reason]
MCLinks == {MCLink(1, "first", "near"), MCLink(1, "silent", "near"), MCLink(1, "first", "control"),
            MCLink(2, "first", "")}

Asked == INSTANCE TraceQueries WITH
    facts <- v1, spans <- v2, links <- v3, asked <- v4, answer <- v5, file <- v6, found <- v7,
    Ids <- MCIds, Events <- {[run |-> "a", n |-> 1]}, Spans <- MCSpans, Links <- MCLinks,
    MaxFacts <- 3, MaxRelated <- 2,
    MaxEntries <- 2, MaxSize <- 5, MaxPath <- 2, MaxRate <- 1

MCVoice(n) == [run |-> "a", n |-> n]
MCPart(n, begin, end) == [id |-> MCVoice(n), begin |-> begin, end |-> end]
MCMix(run, timeline, participants) == [run |-> run, timeline |-> timeline, participants |-> participants]
Voices == INSTANCE Coexistence WITH
    occurrences <- v1, spans <- v2, asked <- v3, answer <- v4,
    Occurrences <- {[id |-> MCVoice(n), causes |-> c] :
                       n \in 1..2, c \in {{}, {"fact", "context"}}},
    MixSpans <- {MCMix("a", "t", <<MCPart(1, 0, 2)>>), MCMix("a", "t", <<MCPart(2, 1, 3), MCPart(1, 2, 4)>>),
                 MCMix("a", "u", <<MCPart(2, 0, 4)>>), MCMix("b", "t", <<[id |-> [run |-> "b", n |-> 1], begin |-> 0, end |-> 4]>>)},
    Markers <- {[run |-> "a", timeline |-> "t", begin |-> b, end |-> e] : b \in 0..2, e \in 1..4},
    MaxOccurrences <- 2, MaxSpans <- 2

\* Assignments of one pack, one of another, one that was refused without a reason.
MCId(pack, n) == [pack |-> pack, n |-> n]
MCRow(run, n, stage, observed) ==
    [run |-> run, id |-> MCId("p", n),
     stages |-> [s \in {"load", "candidates", "selections", "playback_starts", "playback_advances",
                        "playback_ends", "preexisting_occurrences"} |->
                    IF s = stage THEN observed
                    ELSE [extent |-> "complete", count |-> <<0>>, fact |-> <<run>>]]]
MCPartial(count) == [extent |-> "partial", count |-> count, fact |-> << >>]
Assigned == INSTANCE AssignmentCoverage WITH
    inventory <- v1, rows <- v2, summary <- v3, report <- v4, aggregation <- v5,
    Observations <- {[id |-> MCId("p", 1), load |-> l, reason |-> << >>] : l \in {"loaded", "pending", "rejected"}}
                    \cup {[id |-> MCId("p", 2), load |-> "rejected", reason |-> <<"size">>],
                          [id |-> MCId("q", 1), load |-> "loaded", reason |-> << >>]},
    Rows <- {MCRow("a", 1, "candidates", MCPartial(<<1>>)), MCRow("a", 1, "selections", MCPartial(<< >>)),
             MCRow("a", 2, "playback_ends", [extent |-> "complete", count |-> <<2>>, fact |-> <<"a">>]),
             MCRow("a", 2, "load", [extent |-> "complete", count |-> <<1>>, fact |-> <<"b">>]),
             MCRow("b", 1, "load", MCPartial(<<1>>)), MCRow("b", 2, "preexisting_occurrences", MCPartial(<<1>>))},
    References <- {[pack |-> "p", fixed |-> f, extent |-> e] :
                      f \in {<< >>, <<2>>}, e \in {"not_observed", "partial", "complete"}},
    Requests <- {[run |-> "a", extent |-> e] : e \in {"not_observed", "partial", "complete"}},
    MaxObservations <- 3, MaxRows <- 2

MCInit ==
    /\ RunInit
    /\ \/ part = "launcher" /\ Launch!Init
       \/ part = "evidence" /\ Kept!Init /\ Zero7
       \/ part = "checkpoints" /\ Saved!Init /\ Zero7
       \/ part = "queries" /\ Asked!Init /\ Zero7
       \/ part = "coexistence" /\ Voices!Init /\ Zero4
       \/ part = "coverage" /\ Assigned!Init /\ Zero5
       \/ part = "facts" /\ Facts!Init /\ Zero4
       \/ part = "messages" /\ Said!Init /\ Zero4
       \/ part = "traversal" /\ Traversal!Init /\ Zero8
       \/ part = "supervision" /\ v1 = 0 /\ v2 = 0 /\ v3 = 0 /\ v4 = 0 /\ Zero4

Component ==
    \/ part = "launcher" /\ Launch!Next
    \/ part = "evidence" /\ Kept!Next /\ UNCHANGED After7
    \/ part = "checkpoints" /\ Saved!Next /\ UNCHANGED After7
    \/ part = "queries" /\ Asked!Next /\ UNCHANGED After7
    \/ part = "coexistence" /\ Voices!Next /\ UNCHANGED After4
    \/ part = "coverage" /\ Assigned!Next /\ UNCHANGED After5
    \/ part = "facts" /\ Facts!Next /\ UNCHANGED After4
    \/ part = "messages" /\ Said!Next /\ UNCHANGED After4
    \/ part = "traversal" /\ Traversal!Next /\ UNCHANGED After8
MCNext ==
    /\ \/ Component /\ UNCHANGED runVars
       \/ part = "supervision" /\ RunNext /\ UNCHANGED pool
    /\ UNCHANGED part

MCSpec == MCInit /\ [][MCNext]_<<part, runVars, pool>>

-----------------------------------------------------------------------------
(***************************************************************************)
(* What the launcher runs is what it checked: the files the Runtime opens  *)
(* are the ones the request validated, but for its soft patch and for a    *)
(* side car that was not there, which nothing pins; and a request passes   *)
(* without issues only if everything it goes on to use was found, while    *)
(* files change (request_preflight.cpp, material_preflight.cpp,            *)
(* check_runner.cpp: hold_materials).                                      *)
(***************************************************************************)
ConsumedIsValidated ==
    part = "launcher" => Launch!ConsumedIsValidated /\ Launch!NothingAbsentIsUsed

(***************************************************************************)
(* Two threads and two requests later the window shows the outcome of the  *)
(* last one (launcher_runner.cpp, launcher_model.cpp).                     *)
(***************************************************************************)
ShownIsTheLastRequest == part = "launcher" => Launch!ShownIsTheLastRequest

(***************************************************************************)
(* Evidence that was summarised is whole on disk and can be audited, its   *)
(* segments are the exact stretches of the stored blocks, a checkpoint     *)
(* names what counts as durable, no datum waits unseen for a checkpoint,   *)
(* the traversal document agrees with the terminal and gives a place to    *)
(* every frame heard, and what queries and summaries answer is what the    *)
(* facts say (incremental_evidence.cpp, checkpoint_threshold.cpp,          *)
(* checkpoint_store.cpp, inspection_evidence.cpp, trace_query.cpp,         *)
(* evidence_query_index.cpp, coexistence_query.cpp, coverage_model.cpp).   *)
(***************************************************************************)
EvidenceIsExact ==
    /\ part = "evidence" =>
        Kept!SummaryIsAuditable /\ Kept!SegmentsAreExact /\ Kept!OnlyTheDiskFailsAFragment
    /\ part = "checkpoints" => Saved!NothingWaitsUnseen /\ Saved!DurableIsCheckpointed
    /\ part = "traversal" => Traversal!DocumentAgreesWithTerminal /\ Traversal!HeardIsPlaced
    /\ part = "queries" => Asked!RoutesExplainAudio /\ Asked!IndexKeepsTheAnswer
    /\ part = "coexistence" => Voices!VoicesAreHeard
    /\ part = "coverage" => Assigned!InventoryAddsUp /\ Assigned!EveryAssignmentIsPlaced

(***************************************************************************)
(* Messages arrive as they were sent, also between releases, and of a      *)
(* damaged one only what a sender could have said is accepted              *)
(* (fact_batch.cpp, control_message.cpp, pcm_message.cpp,                  *)
(* runtime_protocol_v11.cpp).                                              *)
(***************************************************************************)
MessagesAreTrue ==
    /\ part = "facts" => Facts!FactsArriveAsSent /\ Facts!AcceptedReadsBack
    /\ part = "messages" => Said!MessagesArriveAsSent /\ Said!AcceptedCouldBeSent
=============================================================================
