--------------------------- MODULE SessionMessages ---------------------------
(****************************************************************************)
(* What the supervisor and the Runtime say to each other: what the Runtime   *)
(* offers and what is negotiated of it, the request and its admission, the   *)
(* states of a visible replay, the audio and the cancellation.  The channel  *)
(* may cut a message short or alter it, and the Runtime may be of an earlier *)
(* release, whose offer and whose request have fewer keys.                   *)
(*                                                                           *)
(* A text is a string, a decimal a number, a missing optional value an       *)
(* absent key; a hash has no collisions.                                     *)
(****************************************************************************)
EXTENDS ProtocolHeader, FiniteSets

CONSTANTS
    Sendings,       \* what is sent: [kind, release, needs, value]
    Identities,     \* the identities that are neither empty nor too long
    MaxTakes, MaxCauses, MaxGaps,   \* max_request_takes, max_fact_causes, max_audio_discontinuities
    MaxSample,      \* the largest sample position (2^64 - 1)
    MaxAudio,       \* max_audio_payload_bytes
    MaxDamage       \* bound on the alterations of one message

VARIABLES sent, wire, result, damage
vars == <<sent, wire, result, damage>>

Has(table, key) == key \in DOMAIN table
Identity(table, key) == Has(table, key) /\ table[key] \in Identities
OneOf(table, key, values) == Has(table, key) /\ table[key] \in values
Natural(table, key) == Has(table, key) /\ table[key] >= 0
With(table, key, value) == [k \in DOMAIN table \cup {key} |-> IF k = key THEN value ELSE table[k]]
Distinct(s) == \A i, j \in DOMAIN s : s[i] = s[j] => i = j

Accepted(value) == <<value>>
Refused == << >>
Checked(value, valid) == IF valid THEN Accepted(value) ELSE Refused

\* A document ends with a cell of its own: cut short, it does not parse.
DocumentCells(table) == <<Document(table), Cell(0)>>
Parses(cells) == Len(cells) = 2 /\ cells[1].n = -1 /\ cells[2] = Cell(0)

DecodeDocument(message, type, channel, sequence, Read(_)) ==
    IF EnvelopeError(message, type, channel, sequence) # "none" \/ ~Parses(Payload(message)) THEN Refused
    ELSE Read(Payload(message)[1].doc)

(****************************************************************************)
(* Capabilities                                                              *)
(****************************************************************************)
Required == {"take_replay", "bounded_cancel"}       \* stands for required_capabilities
Visible == {"visible_replay_v1", "inspection_v1"}

\* qa_capabilities_report; the offers of earlier releases are external.
Offer(release) ==
    CASE release = "current" -> [versions |-> {10, 11}, capabilities |->
             Required \cup Visible \cup {"timeline_replay_v1", "close_at_end_v1", "take_format_v10"}]
      [] release = "visible" -> [versions |-> {10, 11}, capabilities |-> Required \cup Visible]
      [] release = "first" -> [versions |-> {10}, capabilities |-> Required]

ValidOffer(offer) == 10 \in offer.versions /\ Required \subseteq offer.capabilities

\* negotiate_runtime_protocol: the version, or 0.
Negotiate(offer, needs) ==
    LET asked == (IF needs.timeline THEN {"timeline_replay_v1"} ELSE {})
                     \cup (IF needs.close_at_end THEN {"close_at_end_v1"} ELSE {})
                     \cup (IF needs.take_version >= 10 THEN {"take_format_v10"} ELSE {})
                     \cup (IF needs.visible THEN Visible ELSE {})
    IN  IF ~ValidOffer(offer) \/ ~(asked \subseteq offer.capabilities) THEN 0
        ELSE IF 11 \in offer.versions THEN 11
        ELSE IF needs.visible \/ 10 \notin offer.versions THEN 0 ELSE 10

(****************************************************************************)
(* Request and admission                                                     *)
(****************************************************************************)
RequestKeys == {"schema_version", "schema_minor", "kind", "request_id", "session_id", "conditions_id",
                "take_ids", "admission", "language", "material_kind"}
KnownKeys(release) ==
    CASE release = "current" -> RequestKeys
      [] release = "visible" -> RequestKeys \ {"material_kind"}
      [] release = "first" -> RequestKeys \ {"language", "material_kind"}

\* Fault: every request carries its language.
AlwaysInLanguage(request, version, language) == With(request, "language", language)

\* execute_check: only a request of protocol 1.1 carries its language.
DeliveredRequest(request, version, language) ==
    IF version = 11 THEN With(request, "language", language) ELSE request

ValidRequest(table) ==
    /\ Identity(table, "request_id") /\ Identity(table, "session_id") /\ Identity(table, "conditions_id")
    /\ Has(table, "take_ids") /\ Len(table.take_ids) \in 1..MaxTakes
    /\ \A i \in DOMAIN table.take_ids : table.take_ids[i] \in Identities
    /\ OneOf(table, "admission", {"pending", "accepted", "rejected"})
    /\ Has(table, "language") => table.language \in {"es", "en"}
    /\ Has(table, "material_kind") => table.material_kind \in {"take", "timeline"}

\* document: its version, its kind and no key it does not know
ReadHeading(table, kind, known) ==
    /\ OneOf(table, "schema_version", {1}) /\ OneOf(table, "schema_minor", {0})
    /\ OneOf(table, "kind", {kind}) /\ DOMAIN table \subseteq known

AdmissionFits(request, type) == (type = MessageTypes.request) <=> (request.admission = "pending")

EncodeRequest(request, type, sequence) ==
    IF ~ValidRequest(request) \/ ~AdmissionFits(request, type) THEN Refused
    ELSE Accepted(Framed(type, ChannelFor(type), sequence, DocumentCells(request)))

DecodeRequest(message, type, sequence, release) ==
    LET read(table) == Checked(table, /\ ReadHeading(table, "request", KnownKeys(release))
                                      /\ ValidRequest(table) /\ AdmissionFits(table, type))
    IN  DecodeDocument(message, type, ChannelFor(type), sequence, read)

(****************************************************************************)
(* The run of the ledger, kept as a document of the same form                *)
(****************************************************************************)
Phases == {"preparing", "ready", "playing", "closing", "closed"}
RunKeys == {"schema_version", "schema_minor", "kind", "run_id", "request_id", "take_id", "phase",
            "playback_result", "evidence_result", "equivalence_result", "last_executed_frame",
            "last_durable_sample", "cessation_confirmed"}
ValidRun(table) ==
    /\ Identity(table, "run_id") /\ Identity(table, "request_id") /\ Identity(table, "take_id")
    /\ OneOf(table, "phase", Phases)
    /\ OneOf(table, "playback_result", {"not_started", "in_progress", "natural_end", "cancelled", "error"})
    /\ OneOf(table, "evidence_result", {"pending", "in_progress", "complete", "incomplete"})
    /\ OneOf(table, "equivalence_result", {"unknown", "verified", "incomplete"})
    /\ \A key \in {"last_executed_frame", "last_durable_sample"} : Has(table, key) => Natural(table, key)
    /\ OneOf(table, "cessation_confirmed", BOOLEAN)

EncodeRun(run) == Checked(DocumentCells(run), ValidRun(run))
DecodeRun(cells) ==
    IF ~Parses(cells) THEN Refused
    ELSE Checked(cells[1].doc, ReadHeading(cells[1].doc, "run", RunKeys) /\ ValidRun(cells[1].doc))

(****************************************************************************)
(* Cancellation                                                              *)
(****************************************************************************)
StageTypes == [requested |-> MessageTypes.cancel, acknowledged |-> MessageTypes.acknowledgement,
               applied |-> MessageTypes.session_status, cessation_confirmed |-> MessageTypes.terminal]
StageChannel(stage) == IF stage \in {"requested", "acknowledged"} THEN 1 ELSE 2

ValidCancellation(table) ==
    /\ Identity(table, "request_id") /\ Identity(table, "run_id")
    /\ (table.frames_completed = 0) <=> ~Has(table, "last_engine_frame")
    /\ table.stage \in {"requested", "acknowledged"} => table.frames_completed = 0

EncodeCancellation(message, sequence) ==
    IF ~ValidCancellation(message) THEN Refused
    ELSE Accepted(Framed(StageTypes[message.stage], StageChannel(message.stage), sequence,
                         DocumentCells(message)))

DecodeCancellation(message, stage, sequence) ==
    LET keys == {"request_id", "run_id", "stage", "frames_completed"}
        read(table) == Checked(table,
            /\ keys \subseteq DOMAIN table
            /\ Cardinality(DOMAIN table) = IF Has(table, "last_engine_frame") THEN 5 ELSE 4
            /\ Natural(table, "frames_completed")
            /\ Has(table, "last_engine_frame") => Natural(table, "last_engine_frame")
            /\ table.stage = stage /\ ValidCancellation(table))
    IN  DecodeDocument(message, StageTypes[stage], StageChannel(stage), sequence, read)

(****************************************************************************)
(* Session status                                                            *)
(****************************************************************************)
ReplayPhases == {"preparing", "playing", "pausing", "paused", "recovering", "interrupted",
                 "ended_paused", "closing"}

ValidReplayState(table) ==
    /\ Identity(table, "run_id") /\ OneOf(table, "phase", ReplayPhases)
    /\ Natural(table, "take_position") /\ Natural(table, "frames_total")
    /\ OneOf(table, "overlay_visible", BOOLEAN)
    /\ Has(table, "frame") => table.frame \in 0..table.frames_total - 1

\* The cause exists only with the interrupted phase (C1-3).
CauseFits(table) ==
    /\ Has(table, "interruption_cause") <=> (table.phase = "interrupted")
    /\ Has(table, "interruption_cause") => Identity(table, "interruption_cause")

ReplayStateFits(table) ==
    /\ (table.phase = "interrupted") <=> Has(table, "interruption_cause")
    /\ table.phase = "interrupted" => Identity(table, "interruption_cause")

ValidRunOpened(table) == Identity(table, "run_id") /\ Natural(table, "take_position")

EncodeStatus(status, sequence) ==
    IF IF status.status = "run_opened" THEN ValidRunOpened(status)
       ELSE ValidReplayState(status) /\ ReplayStateFits(status)
    THEN Accepted(Framed(MessageTypes.session_status, 2, sequence, DocumentCells(status)))
    ELSE Refused

\* decode_session_status keeps the keys it reads and ignores the others.
DecodeStatus(message, sequence) ==
    LET kept(table, keys) == [key \in DOMAIN table \cap keys |-> table[key]]
        replay == {"status", "run_id", "take_position", "phase", "frames_total", "overlay_visible",
                   "frame", "interruption_cause"}
        opened == {"status", "run_id", "take_position", "traversal"}
        read(table) ==
            IF OneOf(table, "status", {"run_opened"})
            THEN Checked(kept(table, opened),
                         ValidRunOpened(table) /\ OneOf(table, "traversal", {"post_end_inspection"}))
            ELSE Checked(kept(table, replay), /\ OneOf(table, "status", {"replay_state"})
                                              /\ ValidReplayState(table) /\ CauseFits(table))
    IN  DecodeDocument(message, MessageTypes.session_status, 2, sequence, read)

(****************************************************************************)
(* Audio                                                                     *)
(****************************************************************************)
Hash(bytes) == [of |-> bytes]       \* pcm_sha256
Widths == [s16le |-> 2, s24le |-> 3, s32le |-> 4, f32le |-> 4]

\* expected_payload_bytes, or -1
ExpectedBytes(chunk) ==
    LET frame == Widths[chunk.pcm_format] * chunk.channels
        count == chunk.end - chunk.begin
    IN  IF chunk.sample_rate \notin 1..192000 \/ chunk.channels \notin 1..8 \/ count > MaxAudio \div frame
        THEN -1 ELSE count * frame

WellFormedRange(range) == range.timeline \in Identities /\ range.rate > 0 /\ range.begin <= range.end
CausesFit(causes, run) ==
    \A i \in DOMAIN causes : causes[i].run = run /\ causes[i].producer \in Identities /\ causes[i].sequence # 0

WellFormedGap(gap, run) ==
    /\ WellFormedRange(gap.affected) /\ \A i \in DOMAIN gap.output : WellFormedRange(gap.output[i])
    /\ Len(gap.causes) <= MaxCauses /\ CausesFit(gap.causes, run)

\* well_formed(AudioChunk)
WellFormedChunk(chunk) ==
    /\ chunk.run_id \in Identities /\ chunk.capture_point \in Identities /\ chunk.timeline \in Identities
    /\ chunk.producer_sequence # 0 /\ chunk.sample_rate > 0 /\ chunk.begin <= chunk.end
    /\ ExpectedBytes(chunk) = Len(chunk.bytes)
    /\ \A i \in DOMAIN chunk.checkpoint : chunk.checkpoint[i] \in Identities
    /\ chunk.durability = "confirmed" => chunk.checkpoint # << >>
    /\ Len(chunk.causes) <= MaxCauses /\ CausesFit(chunk.causes, chunk.run_id) /\ Distinct(chunk.causes)
    /\ Len(chunk.discontinuities) <= MaxGaps
    /\ \A i \in DOMAIN chunk.discontinuities : WellFormedGap(chunk.discontinuities[i], chunk.run_id)

\* metadata: minor 1 adds the causes, minor 2 the segment of the traversal.
Metadata(chunk) ==
    LET minor == IF chunk.segment # 0 THEN 2 ELSE IF chunk.causes = << >> THEN 0 ELSE 1
        table == [schema_version |-> 1, schema_minor |-> minor, run_id |-> chunk.run_id,
            capture_point |-> chunk.capture_point, producer_sequence |-> chunk.producer_sequence,
            pcm_format |-> chunk.pcm_format, sample_rate |-> chunk.sample_rate,
            channels |-> chunk.channels, timeline |-> chunk.timeline, sample_begin |-> chunk.begin,
            sample_count |-> chunk.end - chunk.begin, sha256 |-> chunk.hash,
            durability |-> chunk.durability, checkpoint |-> chunk.checkpoint,
            causes |-> chunk.causes, discontinuities |-> chunk.discontinuities]
    IN  IF chunk.segment = 0 THEN table ELSE With(table, "segment", chunk.segment)

ParsesCauses(causes) == Len(causes) <= MaxCauses
ParsesGaps(gaps) ==
    /\ Len(gaps) <= MaxGaps
    /\ \A i \in DOMAIN gaps :
        gaps[i].kind \in {"inserted_silence", "discarded_audio"} /\ ParsesCauses(gaps[i].causes)

\* parse_metadata: the chunk without its bytes.
ParseMetadata(table) ==
    LET required == {"schema_version", "schema_minor", "run_id", "capture_point", "producer_sequence",
            "pcm_format", "sample_rate", "channels", "timeline", "sample_begin", "sample_count",
            "sha256", "durability", "checkpoint", "discontinuities"}
        optional(key, default) == IF Has(table, key) THEN table[key] ELSE default
    IN  IF \/ ~(required \subseteq DOMAIN table)
           \/ table.schema_version # 1 \/ table.schema_minor \notin 0..2
           \/ table.pcm_format \notin DOMAIN Widths \/ table.durability \notin {"pending", "confirmed"}
           \/ \E key \in {"producer_sequence", "sample_rate", "channels", "sample_begin"} : table[key] < 0
           \/ table.sample_count <= 0 \/ table.sample_begin > MaxSample - table.sample_count
           \/ ~ParsesGaps(table.discontinuities)
           \/ table.schema_minor >= 1 /\ ~Has(table, "causes")
           \/ ~ParsesCauses(optional("causes", << >>))
           \/ (table.schema_minor = 2) # Has(table, "segment") \/ optional("segment", 1) <= 0
        THEN Refused
        ELSE Accepted([run_id |-> table.run_id, capture_point |-> table.capture_point,
            producer_sequence |-> table.producer_sequence, pcm_format |-> table.pcm_format,
            sample_rate |-> table.sample_rate, channels |-> table.channels, timeline |-> table.timeline,
            begin |-> table.sample_begin, end |-> table.sample_begin + table.sample_count,
            hash |-> table.sha256, durability |-> table.durability, checkpoint |-> table.checkpoint,
            causes |-> optional("causes", << >>), discontinuities |-> table.discontinuities,
            segment |-> optional("segment", 0)])

EncodeChunk(chunk, sequence) ==
    LET table == DocumentCells(Metadata(chunk))
        payload == Cells(<<Len(table), Len(chunk.bytes)>>) \o table \o Cells(chunk.bytes)
    IN  IF \/ ~WellFormedChunk(chunk) \/ chunk.begin = chunk.end
           \/ chunk.hash # Hash(chunk.bytes) \/ Len(payload) > MaxPayload
        THEN Refused
        ELSE Accepted(Framed(MessageTypes.audio_chunk, 2, sequence, payload))

HashMatches(chunk) == chunk.hash = Hash(chunk.bytes)

DecodeChunk(message, sequence) ==
    LET payload == Payload(message)
        metadataSize == payload[1].n
        pcmSize == payload[2].n
        table == SubSeq(payload, 3, metadataSize + 2)
        parsed == ParseMetadata(table[1].doc)
        pcm == SubSeq(payload, metadataSize + 3, Len(payload))
        chunk == With(parsed[1], "bytes", [i \in DOMAIN pcm |-> pcm[i].n])
    IN  IF EnvelopeError(message, MessageTypes.audio_chunk, 2, sequence) # "none" \/ Len(payload) < 2
        THEN Refused
        ELSE IF metadataSize <= 0 \/ pcmSize <= 0 \/ metadataSize + pcmSize # Len(payload) - 2 THEN Refused
        ELSE IF ~Parses(table) THEN Refused
        ELSE IF parsed = Refused THEN Refused
        ELSE IF ExpectedBytes(chunk) # pcmSize THEN Refused
        ELSE Checked(chunk, HashMatches(chunk) /\ WellFormedChunk(chunk))

(****************************************************************************)
(* The channel                                                               *)
(****************************************************************************)
Version(sending) == Negotiate(Offer(sending.release), sending.needs)

\* What the sender encodes: the request as negotiated, anything else as it is.
Value(sending) ==
    IF sending.kind = "request" THEN DeliveredRequest(sending.value, Version(sending), "es")
    ELSE sending.value

\* The request and the admission are the first messages of their channels.
Encode(kind, value) ==
    CASE kind = "request" -> EncodeRequest(value, MessageTypes.request, 1)
      [] kind = "admission" -> EncodeRequest(value, MessageTypes.session_status, 1)
      [] kind = "run" -> EncodeRun(value)
      [] kind = "cancellation" -> EncodeCancellation(value, 2)
      [] kind = "status" -> EncodeStatus(value, 2)
      [] kind = "chunk" -> EncodeChunk(value, 2)

Decode(sending, message) ==
    CASE sending.kind = "request" -> DecodeRequest(message, MessageTypes.request, 1, sending.release)
      [] sending.kind = "admission" -> DecodeRequest(message, MessageTypes.session_status, 1, "current")
      [] sending.kind = "run" -> DecodeRun(message)
      [] sending.kind = "cancellation" -> DecodeCancellation(message, sending.value.stage, 2)
      [] sending.kind = "status" -> DecodeStatus(message, 2)
      [] sending.kind = "chunk" -> DecodeChunk(message, 2)

Pending == [state |-> "pending", value |-> Refused]

Init ==
    /\ sent \in Sendings
    /\ sent.kind = "request" => Version(sent) # 0
    /\ LET encoded == Encode(sent.kind, Value(sent)) IN encoded # Refused /\ wire = encoded[1]
    /\ result = Pending /\ damage = 0

Damaged ==
    damage < MaxDamage /\ result = Pending /\ damage' = damage + 1 /\ UNCHANGED <<sent, result>>

CutShort == Damaged /\ wire # << >> /\ wire' = SubSeq(wire, 1, Len(wire) - 1)
AlterCell(i, number) ==
    Damaged /\ number >= 0 /\ wire[i].n >= 0 /\ number # wire[i].n /\ wire' = [wire EXCEPT ![i] = Cell(number)]
DropKey(i, key) ==
    /\ Damaged
    /\ wire' = [wire EXCEPT ![i].doc = [k \in DOMAIN wire[i].doc \ {key} |-> wire[i].doc[k]]]
AlterKey(i, key, value) ==
    Damaged /\ Has(wire[i].doc, key) /\ wire' = [wire EXCEPT ![i].doc[key] = value]

Receive ==
    /\ result = Pending
    /\ result' = [state |-> "received", value |-> Decode(sent, wire)]
    /\ UNCHANGED <<sent, wire, damage>>

Numbers == {"schema_minor", "frames_completed", "last_engine_frame", "frame", "frames_total",
    "sample_count", "sample_begin", "channels", "segment", "last_executed_frame"}
Texts == {"phase", "stage", "admission", "durability", "run_id", "language", "kind", "status"}

Next ==
    \/ Receive \/ CutShort
    \/ \E i \in DOMAIN wire :
        \/ \E number \in {0, wire[i].n - 1, wire[i].n + 1} : AlterCell(i, number)
        \/ \E key \in DOMAIN wire[i].doc : DropKey(i, key)
        \/ \E key \in Numbers, number \in {-1, 0, 1, 3} : AlterKey(i, key, number)
        \/ \E key \in Texts, text \in {"", "interrupted", "applied", "confirmed", "run_opened"} :
              AlterKey(i, key, text)
Spec == Init /\ [][Next]_vars

--------------------------------------------------------------------------------
(* Unless it was damaged, every message is understood as it was sent: the    *)
(* request also by a Runtime of an earlier release, of which the supervisor  *)
(* only asks what it offered, and which is told of the language only where   *)
(* protocol 1.1 was negotiated.                                              *)
(* (control_message.cpp, cancellation_message.cpp, pcm_message.cpp,          *)
(* runtime_protocol_v11.cpp; check_execution.cpp: delivered_request)         *)
MessagesArriveAsSent ==
    result # Pending /\ damage = 0 => result.value = Accepted(Value(sent))

(* Whatever the channel did to a message, what is accepted of it is          *)
(* something a sender could have said: it encodes again and reads back the   *)
(* same.  Of an audio chunk, moreover, the bytes are those that were sent:   *)
(* the metadata may be wrong, the sound may not.                             *)
(* (pcm_message.cpp: decode_pcm_message; the decoders and encoders above)    *)
AcceptedCouldBeSent ==
    result.value # Refused =>
        LET encoded == Encode(sent.kind, result.value[1]) IN
        /\ encoded # Refused
        /\ Decode(sent, encoded[1]) = result.value
        /\ sent.kind = "chunk" => result.value[1].bytes = sent.value.bytes
================================================================================
