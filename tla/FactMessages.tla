---------------------------- MODULE FactMessages ----------------------------
(****************************************************************************)
(* Batches of facts on their way from the Runtime to the supervisor          *)
(* (encode_fact_batch, decode_fact_batch) over a channel that may cut a      *)
(* message short, add to it or alter it.  A record is a TOML document or, if *)
(* the fact has observation fields, the binary form of schema 1.4; earlier   *)
(* Runtimes wrote those as documents of minor 3 (arrays) or 2 (tables).      *)
(*                                                                           *)
(* A text is the sequence of its characters, an optional value a sequence of *)
(* at most one element.                                                      *)
(****************************************************************************)
EXTENDS ProtocolHeader, FiniteSets
LOCAL INSTANCE SequencesExt

CONSTANTS
    Batches,        \* the batches sent
    MaxRecords,     \* max_fact_batch_records
    MaxFact,        \* max_encoded_fact_bytes
    MaxIdentity, MaxCauses, MaxOrders, MaxFields,       \* the limits of model_limits.h
    MaxDamage       \* bound on the alterations of one message

VARIABLES
    sent,           \* the batch and the form its sender gives to observation fields
    wire,           \* the message in the channel
    result,         \* what decode_fact_batch answered: [error, facts]
    damage
vars == <<sent, wire, result, damage>>

Known == 0          \* Availability::known, not_applicable, unknown
Availabilities == 0..2
CompactDefault == <<9>>         \* compact_default_reason
DefaultField == [availability |-> 1, value |-> << >>, reason |-> CompactDefault]
StringFields == <<"decision_id", "assignment_id", "occurrence_id", "reason">>
NoId == [run |-> << >>, producer |-> << >>, sequence |-> 0]

(****************************************************************************)
(* well_formed                                                               *)
(****************************************************************************)
Identifier(text) == text # << >> /\ Len(text) <= MaxIdentity
ValidId(id) == Identifier(id.run) /\ Identifier(id.producer) /\ id.sequence # 0
Consistent(field) ==
    Len(field.reason) <= MaxIdentity /\ (field.availability = Known <=> field.value # << >>)
Distinct(s) == \A i, j \in DOMAIN s : s[i] = s[j] => i = j

ValidObservation(field, run) ==
    /\ Identifier(field.name) /\ field.unit \in 0..7
    /\ (field.availability = Known) <=> (field.type # 0)
    /\ (field.availability = Known) <=> (field.reason = << >>)
    /\ field.type = 6 => ValidId(field.id) /\ field.id.run = run

ValidCause(cause, id) ==
    IF cause.context = << >> THEN ValidId(cause.id) /\ cause.id.run = id.run /\ cause.id # id
                             ELSE Identifier(cause.context)

WellFormed(fact) ==
    /\ ValidId(fact.id) /\ Identifier(fact.kind) /\ Consistent(fact.frame)
    /\ \A k \in DOMAIN StringFields :
        LET field == fact.strings[k] IN
        Consistent(field) /\ (field.value = << >> \/ Identifier(field.value[1]))
    /\ Consistent(fact.order)
    /\ Len(fact.causes) <= MaxCauses /\ Len(fact.fields) <= MaxFields
    /\ \A i \in DOMAIN fact.fields : ValidObservation(fact.fields[i], fact.id.run)
    /\ Distinct([i \in DOMAIN fact.fields |-> fact.fields[i].name])
    /\ \A i \in DOMAIN fact.causes : ValidCause(fact.causes[i], fact.id)
    /\ Distinct(fact.causes)
    /\ fact.order.value # << >> =>
        LET orders == fact.order.value[1] IN
        /\ Len(orders) \in 1..MaxOrders
        /\ \A i \in DOMAIN orders : Identifier(orders[i].state) /\ orders[i].sequence # 0
        /\ Distinct([i \in DOMAIN orders |-> orders[i].state])

(****************************************************************************)
(* The binary form                                                           *)
(****************************************************************************)
Width == 256    \* the values of an integer of one cell; a negative one is stored modulo Width
BinaryMagic == <<65, 81, 70, 52>>

WriteText(text) == <<Len(text)>> \o text
WriteFactId(id) == WriteText(id.run) \o WriteText(id.producer) \o <<id.sequence>>
WriteStringField(field) ==
    <<field.availability>> \o WriteText(field.reason)
        \o (IF field.value = << >> THEN << >> ELSE WriteText(field.value[1]))

WriteBinaryField(field) ==
    WriteText(field.name) \o <<field.availability, field.unit, field.type>> \o WriteText(field.reason)
        \o (CASE field.type \in {1, 2, 4} -> <<field.number>>
              [] field.type = 3 -> <<field.number % Width>>
              [] field.type = 5 -> WriteText(field.text)
              [] field.type = 6 -> WriteFactId(field.id)
              [] OTHER -> << >>)

WriteCause(cause) == IF cause.context = << >> THEN <<0>> \o WriteFactId(cause.id)
                                              ELSE <<1>> \o WriteText(cause.context)

WriteOrder(order) ==
    <<order.availability>> \o WriteText(order.reason)
        \o (IF order.value = << >> THEN << >>
            ELSE <<Len(order.value[1])>> \o FlattenSeq([i \in DOMAIN order.value[1] |->
                    WriteText(order.value[1][i].state) \o <<order.value[1][i].sequence>>]))

EncodeBinaryFact(fact) ==
    BinaryMagic \o <<1, 4, 0>> \o WriteFactId(fact.id) \o WriteText(fact.kind)
        \o <<fact.frame.availability>> \o WriteText(fact.frame.reason) \o fact.frame.value
        \o <<Len(fact.causes)>> \o FlattenSeq([i \in DOMAIN fact.causes |-> WriteCause(fact.causes[i])])
        \o FlattenSeq([k \in DOMAIN StringFields |-> WriteStringField(fact.strings[k])])
        \o WriteOrder(fact.order)
        \o <<Len(fact.fields)>> \o FlattenSeq([i \in DOMAIN fact.fields |-> WriteBinaryField(fact.fields[i])])

\* A reading is what was read so far and the place after it: 0 after a failure, where every
\* further read fails too.  Every reader takes a reading and adds one value to it.
Failure == [v |-> << >>, at |-> 0]
From(place) == [v |-> << >>, at |-> place]
Got(value, place) == [v |-> value, at |-> place]
Adding(r, item) == IF item.at = 0 THEN Failure ELSE Got(Append(r.v, item.v), item.at)

ReadNumber(b, r) == IF r.at \in DOMAIN b THEN Got(Append(r.v, b[r.at]), r.at + 1) ELSE Failure

ReadUpTo(b, r, limit) ==
    IF r.at \in DOMAIN b /\ b[r.at] <= limit THEN ReadNumber(b, r) ELSE Failure

ReadText(b, r) ==
    IF r.at \notin DOMAIN b \/ b[r.at] > Len(b) - r.at THEN Failure
    ELSE Got(Append(r.v, SubSeq(b, r.at + 1, r.at + b[r.at])), r.at + 1 + b[r.at])

FactIdOf(r) == IF r.at = 0 THEN Failure
               ELSE Got([run |-> r.v[1], producer |-> r.v[2], sequence |-> r.v[3]], r.at)
ReadFactId(b, r) == Adding(r, FactIdOf(ReadNumber(b, ReadText(b, ReadText(b, From(r.at))))))

\* A field and its value, which is there exactly when it is known.
ReadValueIfKnown(b, r, ReadValue(_, _)) ==
    IF r.at # 0 /\ r.v[1] = Known THEN ReadValue(b, r) ELSE r
FieldOf(r) == IF r.at = 0 THEN Failure
              ELSE Got([availability |-> r.v[1], value |-> SubSeq(r.v, 3, Len(r.v)), reason |-> r.v[2]], r.at)
ReadField(b, r, ReadValue(_, _)) ==
    Adding(r, FieldOf(ReadValueIfKnown(b, ReadText(b, ReadUpTo(b, From(r.at), 2)), ReadValue)))

\* count items, one after the other
ReadItems(b, r, place, count, ReadItem(_, _)) ==
    Adding(r, FoldLeft(LAMBDA items, n : ReadItem(b, items), From(place), [n \in 1..count |-> n]))
ReadCounted(b, r, count, ReadItem(_, _)) ==
    IF count.at = 0 THEN Failure ELSE ReadItems(b, r, count.at, count.v[1], ReadItem)
ReadList(b, r, limit, ReadItem(_, _)) ==
    ReadCounted(b, r, ReadUpTo(b, From(r.at), limit), ReadItem)

CauseOf(r) ==
    IF r.at = 0 THEN Failure
    ELSE Got(IF r.v[1] = 0 THEN [context |-> << >>, id |-> r.v[2]]
                           ELSE [context |-> r.v[2], id |-> NoId], r.at)
ReadCauseOfType(b, r) ==
    IF r.at = 0 THEN Failure ELSE IF r.v[1] = 0 THEN ReadFactId(b, r) ELSE ReadText(b, r)
ReadCause(b, r) == Adding(r, CauseOf(ReadCauseOfType(b, ReadUpTo(b, From(r.at), 1))))

StateOrderOf(r) == IF r.at = 0 THEN Failure ELSE Got([state |-> r.v[1], sequence |-> r.v[2]], r.at)
ReadStateOrder(b, r) == Adding(r, StateOrderOf(ReadNumber(b, ReadText(b, From(r.at)))))
ReadOrders(b, r) == ReadList(b, r, MaxOrders, ReadStateOrder)

\* Name, availability, unit, type and reason; then the value the type asks for.
ReadTypedValue(b, r) ==
    IF r.at = 0 THEN Failure
    ELSE CASE r.v[4] = 1 -> ReadUpTo(b, r, 1)
           [] r.v[4] \in 2..4 -> ReadNumber(b, r)
           [] r.v[4] = 5 -> ReadText(b, r)
           [] r.v[4] = 6 -> ReadFactId(b, r)
           [] OTHER -> r
Signed(number) == IF number >= Width \div 2 THEN number - Width ELSE number
BinaryFieldOf(r) ==
    IF r.at = 0 THEN Failure
    ELSE LET field == [name |-> r.v[1], availability |-> r.v[2], unit |-> r.v[3], type |-> r.v[4],
                       reason |-> r.v[5], number |-> 0, text |-> << >>, id |-> NoId]
         IN  Got(CASE r.v[4] \in {1, 2, 4} -> [field EXCEPT !.number = r.v[6]]
                   [] r.v[4] = 3 -> [field EXCEPT !.number = Signed(r.v[6])]
                   [] r.v[4] = 5 -> [field EXCEPT !.text = r.v[6]]
                   [] r.v[4] = 6 -> [field EXCEPT !.id = r.v[6]]
                   [] OTHER -> field, r.at)
ReadBinaryHead(b, r) ==
    ReadText(b, ReadUpTo(b, ReadUpTo(b, ReadUpTo(b, ReadText(b, r), 2), 7), 6))
ReadBinaryField(b, r) ==
    Adding(r, BinaryFieldOf(ReadTypedValue(b, ReadBinaryHead(b, From(r.at)))))

BinaryHeaderMatches(b) ==
    Len(b) >= 7 /\ SubSeq(b, 1, 4) = BinaryMagic /\ b[5] = 1 /\ b[6] = 4 /\ b[7] = 0

ReadStrings(b, r) ==
    LET ReadString(c, read) == ReadField(c, read, ReadText)
    IN  ReadItems(b, r, r.at, Len(StringFields), ReadString)
FactOf(b, r) ==
    IF ~BinaryHeaderMatches(b) \/ r.at # Len(b) + 1 THEN << >>
    ELSE <<[id |-> r.v[1], kind |-> r.v[2], frame |-> r.v[3], causes |-> r.v[4],
            strings |-> r.v[5], order |-> r.v[6], fields |-> r.v[7]]>>
ReadFrameAndCauses(b, r) == ReadList(b, ReadField(b, r, ReadNumber), MaxCauses, ReadCause)
ReadOrderAndFields(b, r) == ReadList(b, ReadField(b, r, ReadOrders), MaxFields, ReadBinaryField)
DecodeBinaryFact(b) ==
    FactOf(b, ReadOrderAndFields(b,
                ReadStrings(b, ReadFrameAndCauses(b, ReadText(b, ReadFactId(b, From(8)))))))

(****************************************************************************)
(* The document form                                                         *)
(****************************************************************************)

Compactable(fact) ==
    /\ fact.fields = << >> /\ fact.causes = << >> /\ fact.order = DefaultField
    /\ \A k \in DOMAIN StringFields : fact.strings[k] = DefaultField

\* compact_observation_field: nine texts; a number is a text of one character.
CompactField(field) ==
    LET names == field.type = 6
        value == CASE field.type \in 1..4 -> <<field.number>> [] field.type = 5 -> field.text [] OTHER -> << >>
    IN  <<field.name, <<field.availability>>, <<field.unit>>, <<field.type>>, value, field.reason,
          field.id.run, field.id.producer, IF names THEN <<field.id.sequence>> ELSE << >> >>

IsNumber(text) == Len(text) = 1

\* parse_compact_observation_field
ParseCompactField(entry) ==
    LET type == entry[4][1]
        field == [name |-> entry[1], availability |-> entry[2][1], unit |-> entry[3][1], type |-> type,
                  reason |-> entry[6], number |-> 0, text |-> << >>, id |-> NoId]
    IN  IF ~(IsNumber(entry[2]) /\ IsNumber(entry[3]) /\ IsNumber(entry[4])) THEN << >>
        ELSE IF entry[2][1] \notin Availabilities \/ entry[3][1] \notin 0..7 THEN << >>
        ELSE CASE type = 0 -> <<field>>
               [] type = 1 -> IF entry[5] \in {<<0>>, <<1>>} THEN <<[field EXCEPT !.number = entry[5][1]]>> ELSE << >>
               [] type \in 2..4 -> IF IsNumber(entry[5]) THEN <<[field EXCEPT !.number = entry[5][1]]>> ELSE << >>
               [] type = 5 -> <<[field EXCEPT !.text = entry[5]]>>
               [] type = 6 -> IF IsNumber(entry[9])
                              THEN <<[field EXCEPT !.id = [run |-> entry[7], producer |-> entry[8],
                                                           sequence |-> entry[9][1]]]>> ELSE << >>
               [] OTHER -> << >>

\* An element of `fields': an array of nine texts, or a table whose value has its own type.
AsArray(field) == [array |-> <<CompactField(field)>>, table |-> << >>]
AsTable(field) == [array |-> << >>, table |-> <<field>>]

ParseField(element, minor) ==
    IF minor = 3 THEN IF element.array = << >> THEN << >> ELSE ParseCompactField(element.array[1])
    ELSE element.table

\* encode_fact: minor 1 leaves out what has its default, minor 3 adds the observation fields.
EncodeFact(fact, form) ==
    LET base(minor) == [minor |-> minor, kind |-> fact.kind, id |-> fact.id, frame |-> fact.frame]
        full(minor) == [minor |-> minor, kind |-> fact.kind, id |-> fact.id, frame |-> fact.frame,
                        causes |-> fact.causes, decision_id |-> fact.strings[1],
                        assignment_id |-> fact.strings[2], occurrence_id |-> fact.strings[3],
                        reason |-> fact.strings[4], shared_state_order |-> fact.order]
        detailed == full(IF form = "tables" THEN 2 ELSE 3)
        element(field) == IF form = "tables" THEN AsTable(field) ELSE AsArray(field)
    IN  IF Compactable(fact) THEN base(1)
        ELSE IF fact.fields = << >> THEN full(0)
        ELSE [key \in DOMAIN detailed \cup {"fields"} |->
                IF key = "fields" THEN [i \in DOMAIN fact.fields |-> element(fact.fields[i])]
                ELSE detailed[key]]

IsCompact(table) == table.minor = 1

\* decode_fact
DecodeFact(table) ==
    LET has(key) == key \in DOMAIN table
        orDefault(key, default) == IF has(key) THEN table[key] ELSE default
        optional == {StringFields[k] : k \in DOMAIN StringFields} \cup {"causes", "shared_state_order"}
        detailed == table.minor \in {2, 3}
        elements == orDefault("fields", << >>)
        fields == [i \in DOMAIN elements |-> ParseField(elements[i], table.minor)]
    IN  IF \/ ~({"minor", "kind", "id", "frame"} \subseteq DOMAIN table)
           \/ table.minor \notin 0..3
           \/ ~(IsCompact(table) \/ optional \subseteq DOMAIN table)
           \/ detailed # has("fields")
           \/ Len(elements) > MaxFields \/ \E i \in DOMAIN elements : fields[i] = << >>
        THEN << >>
        ELSE <<[id |-> table.id, kind |-> table.kind, frame |-> table.frame,
                causes |-> orDefault("causes", << >>),
                strings |-> [k \in DOMAIN StringFields |-> orDefault(StringFields[k], DefaultField)],
                order |-> orDefault("shared_state_order", DefaultField),
                fields |-> [i \in DOMAIN elements |-> fields[i][1]]]>>

(****************************************************************************)
(* Batches                                                                   *)
(****************************************************************************)
\* A document ends with a cell of its own: cut short, it does not parse.
EndOfDocument == 0
EncodeRecord(fact, form) ==
    IF fact.fields # << >> /\ form = "binary" THEN Cells(EncodeBinaryFact(fact))
    ELSE <<Document(EncodeFact(fact, form)), Cell(EndOfDocument)>>

EncodeError(facts, form) ==
    IF Len(facts) \notin 1..MaxRecords THEN "invalid_count"
    ELSE IF \E i \in DOMAIN facts : ~WellFormed(facts[i]) THEN "invalid_fact"
    ELSE IF \E i \in DOMAIN facts : Len(EncodeRecord(facts[i], form)) + 1 > MaxFact THEN "fact_too_large"
    ELSE "none"

EncodeBatch(facts, form, sequence) ==
    Framed(MessageTypes.fact_batch, 2, sequence,
        <<Cell(Len(facts))>> \o FlattenSeq([i \in DOMAIN facts |->
            LET record == EncodeRecord(facts[i], form) IN <<Cell(Len(record))>> \o record]))

IsBinaryFact(record) ==
    Len(record) >= 4 /\ [i \in 1..4 |-> record[i].n] = BinaryMagic

DecodeRecord(record) ==
    LET decoded == IF IsBinaryFact(record)
                   THEN IF \A i \in DOMAIN record : record[i].n >= 0
                        THEN DecodeBinaryFact([i \in DOMAIN record |-> record[i].n]) ELSE << >>
                   ELSE IF Len(record) = 2 /\ record[1].n = -1 /\ record[2] = Cell(EndOfDocument)
                        THEN DecodeFact(record[1].doc) ELSE << >>
    IN  IF decoded # << >> /\ WellFormed(decoded[1]) THEN decoded ELSE << >>

Refused(error) == [error |-> error, facts |-> << >>]

\* The records of a payload, from the cell after the count to the last one.
DecodeRecords(payload) ==
    LET count == payload[1].n
        read[n \in 0..count] ==
          IF n = 0 THEN [error |-> "none", facts |-> << >>, at |-> 2]
          ELSE LET before == read[n - 1]
                   length == payload[before.at].n
                   record == DecodeRecord(SubSeq(payload, before.at + 1, before.at + length))
                   fails(error) == [error |-> error, facts |-> << >>, at |-> 0]
               IN  IF before.error # "none" THEN before
                   ELSE IF before.at > Len(payload) THEN fails("truncated")
                   ELSE IF length <= 0 \/ length + 1 > MaxFact THEN fails("fact_too_large")
                   ELSE IF length > Len(payload) - before.at THEN fails("truncated")
                   ELSE IF record = << >> THEN fails("malformed_fact")
                   ELSE [error |-> "none", facts |-> Append(before.facts, record[1]),
                         at |-> before.at + 1 + length]
    IN  IF read[count].error # "none" THEN Refused(read[count].error)
        ELSE IF read[count].at # Len(payload) + 1 THEN Refused("length_mismatch")
        ELSE [error |-> "none", facts |-> read[count].facts]

DecodeBatch(message, expectedSequence) ==
    LET envelope == EnvelopeError(message, MessageTypes.fact_batch, 2, expectedSequence)
        payload == Payload(message)
    IN  IF envelope # "none" THEN Refused(envelope)
        ELSE IF payload[1].n \notin 1..MaxRecords THEN Refused("invalid_count")
        ELSE DecodeRecords(payload)

(****************************************************************************)
(* The channel                                                               *)
(****************************************************************************)
Sequence == 1
Pending == [error |-> "pending", facts |-> << >>]

Init ==
    /\ sent \in [facts : Batches, form : {"binary", "arrays", "tables"}]
    /\ EncodeError(sent.facts, sent.form) = "none"
    /\ wire = EncodeBatch(sent.facts, sent.form, Sequence)
    /\ result = Pending /\ damage = 0

Damaged == damage < MaxDamage /\ result = Pending /\ damage' = damage + 1 /\ UNCHANGED <<sent, result>>

CutShort == Damaged /\ wire # << >> /\ wire' = SubSeq(wire, 1, Len(wire) - 1)
AddCell == Damaged /\ wire' = Append(wire, Cell(0))
AlterCell(i, number) ==
    /\ Damaged /\ number \in 0..Width - 1 /\ number # wire[i].n
    /\ wire' = [wire EXCEPT ![i] = Cell(number)]
DropKey(i, key) ==
    /\ Damaged
    /\ wire' = [wire EXCEPT ![i].doc = [k \in DOMAIN wire[i].doc \ {key} |-> wire[i].doc[k]]]
AlterMinor(i, minor) ==
    /\ Damaged /\ "minor" \in DOMAIN wire[i].doc
    /\ wire' = [wire EXCEPT ![i].doc = [k \in DOMAIN wire[i].doc |->
                    IF k = "minor" THEN minor ELSE wire[i].doc[k]]]
AlterText(i, j, text) ==
    /\ Damaged /\ "fields" \in DOMAIN wire[i].doc /\ wire[i].doc.fields[1].array # << >>
    /\ wire' = [wire EXCEPT ![i].doc.fields[1].array[1][j] = text]

Receive ==
    /\ result = Pending
    /\ result' = DecodeBatch(wire, Sequence)
    /\ UNCHANGED <<sent, wire, damage>>

Next ==
    \/ Receive \/ CutShort \/ AddCell
    \/ \E i \in DOMAIN wire : \E number \in {0, 1, wire[i].n - 1, wire[i].n + 1} : AlterCell(i, number)
    \/ \E i \in DOMAIN wire : \/ \E key \in DOMAIN wire[i].doc : DropKey(i, key)
                              \/ \E minor \in 0..4 : AlterMinor(i, minor)
                              \/ \E j \in 1..9, text \in {<< >>, <<0>>, <<7>>} : AlterText(i, j, text)
Spec == Init /\ [][Next]_vars

--------------------------------------------------------------------------------
(* A batch arrives as it was sent, whichever form each of its facts takes    *)
(* and even if an earlier Runtime wrote it, unless the message was damaged.   *)
(* (fact_batch.cpp: encode_fact, encode_binary_fact and their decoders)      *)
FactsArriveAsSent ==
    result # Pending /\ damage = 0 => result = [error |-> "none", facts |-> sent.facts]

(* What is accepted of a damaged message is a well-formed batch that encodes *)
(* again: the supervisor can keep it as evidence and read it back unchanged. *)
(* A binary record says the same thing in one way only, so an accepted       *)
(* message whose records are all binary is exactly the encoding of what was  *)
(* accepted: no damage stays unnoticed in it.                                *)
(* (fact_batch.cpp: decode_fact_batch; fact_model.cpp: well_formed)          *)
AcceptedReadsBack ==
    result.error = "none" =>
        /\ EncodeError(result.facts, "binary") = "none"
        /\ DecodeBatch(EncodeBatch(result.facts, "binary", Sequence), Sequence) = result
        /\ (\A i \in DOMAIN wire : wire[i].n >= 0) =>
                wire = EncodeBatch(result.facts, "binary", Sequence)
================================================================================
