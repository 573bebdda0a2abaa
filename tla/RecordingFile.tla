----------------------------- MODULE RecordingFile -----------------------------
(***************************************************************************)
(* A recorded take (.arp) as the session reads it: the layout of its       *)
(* header, the initial state compressed in it, the FM registers of its     *)
(* tail and the inputs it plays frame by frame.  The file is a sequence of *)
(* cells; a field of 32 bits takes two of them, so that a file can end in  *)
(* the middle of a field.  Between the Engine that wrote the file and the  *)
(* session that reads it the file may be cut, extended or altered.         *)
(***************************************************************************)
EXTENDS Naturals, Sequences, FiniteSets
LOCAL INSTANCE SequencesExt
CONSTANTS Takes,        \* the takes the Engine may have written
          MaxFrames,    \* max_recording_frames
          MaxState,     \* max_recording_state_bytes
          MaxFile,      \* max_recording_bytes, and the longest file an extension makes
          MaxDamage     \* changes of the file before it is read
VARIABLES take,      \* the take the Engine recorded
          file,      \* its cells as the session finds them
          damage,    \* how many changes the file has suffered
          outcome,   \* what reading it said
          inputs,    \* the cells the input source holds
          cursor,    \* the next frame of the input source
          played     \* the inputs delivered

vars == <<take, file, damage, outcome, inputs, cursor, played>>

Base == 16
Word == 2
FixedHeader == 2 * Word
Magic == <<4, 1>>
OldestVersion == 2
CurrentVersion == 10
FmVersion == 9
TakeIdVersion == 10
FmBytes == 3            \* recording_fm_register_bytes: 0x200
TakeIdBytes == 2 * Word
InputBytes == 2         \* sizeof(uint16_t): the low and the high byte
SummaryBytes == 1       \* the per-frame summary
HashBytes == 1
CountBytes == 1

U32(n) == <<n % Base, n \div Base>>

(* The Engine's writer. *)
History(total, frames) == U32(total) \o [i \in 1..(total * HashBytes + frames * CountBytes) |-> 1]
KeyframeCells(k) == U32(k.frame) \o U32(k.raw) \o U32(Len(k.cells)) \o k.cells
TailCells(t) ==
    U32(0) \o U32(t.frames) \o [i \in 1..(t.frames * SummaryBytes) |-> 1]
      \o History(t.sprites, t.frames)
      \o U32(Len(t.keyframes)) \o FlattenSeq([i \in DOMAIN t.keyframes |-> KeyframeCells(t.keyframes[i])])
      \o History(t.sounds, t.frames) \o U32(1)
      \o (IF t.version < FmVersion THEN << >> ELSE U32(Len(t.registers)) \o t.registers)
      \o (IF t.version < TakeIdVersion THEN << >> ELSE [i \in 1..TakeIdBytes |-> 7])
Written(t) ==
    Magic \o U32(t.version) \o U32(Len(t.game)) \o t.game \o U32(Len(t.name)) \o t.name
      \o U32(t.frames) \o U32(t.raw) \o U32(Len(t.state)) \o t.state
      \o FlattenSeq(t.inputs) \o TailCells(t)

HasBytes(offset, count, limit) == offset <= limit /\ count <= limit - offset

\* A field of the file, 0 where it does not fit (never used then).
Field(f, offset) ==
    IF offset + Word <= Len(f) THEN f[offset + 1] + Base * f[offset + 2] ELSE 0

HeaderError(f) ==
    IF f = << >> THEN "empty_take"
    ELSE IF Len(f) < FixedHeader THEN "truncated_header"
    ELSE IF SubSeq(f, 1, Word) # Magic THEN "invalid_magic"
    ELSE IF Field(f, Word) \notin OldestVersion..CurrentVersion THEN "unsupported_version"
    ELSE "none"

Bytes(offset, size) == [offset |-> offset, size |-> size]
NoLayout(error) == [error |-> error]

\* decode_recording_layout: every field must fit before it is read.
Layout(f) ==
    LET total == Len(f)
        game == Bytes(FixedHeader + Word, Field(f, FixedHeader))
        nameAt == game.offset + game.size
        name == Bytes(nameAt + Word, Field(f, nameAt))
        countsAt == name.offset + name.size
        frames == Field(f, countsAt)
        raw == Field(f, countsAt + Word)
        state == Bytes(countsAt + 3 * Word, Field(f, countsAt + 2 * Word))
        ins == Bytes(state.offset + state.size, frames * InputBytes)
    IN  IF total > MaxFile THEN NoLayout("take_too_large")
        ELSE IF HeaderError(f) # "none" THEN NoLayout(HeaderError(f))
        ELSE IF \/ ~HasBytes(FixedHeader, Word, total)
                \/ ~HasBytes(game.offset, game.size, total)
                \/ ~HasBytes(nameAt, Word, total)
                \/ ~HasBytes(name.offset, name.size, total)
                \/ ~HasBytes(countsAt, 3 * Word, total) THEN NoLayout("truncated_content")
        ELSE IF frames \notin 1..MaxFrames THEN NoLayout("invalid_frame_count")
        ELSE IF raw = 0 THEN NoLayout("empty_initial_state")
        ELSE IF raw > MaxState THEN NoLayout("initial_state_too_large")
        ELSE IF state.size = 0 THEN NoLayout("empty_compressed_state")
        ELSE IF ~HasBytes(state.offset, state.size, total) THEN NoLayout("truncated_content")
        ELSE IF ~HasBytes(ins.offset, ins.size, total) THEN NoLayout("truncated_content")
        ELSE [error |-> "none", version |-> Field(f, Word), game |-> game, name |-> name,
              frames |-> frames, raw |-> raw, state |-> state, inputs |-> ins]

(* The cursor of the tail: an offset, or Past once something did not fit. *)
Past == MaxFile + 1
Skip(f, at, count) == IF at # Past /\ HasBytes(at, count, Len(f)) THEN at + count ELSE Past
SkipHistory(f, at, frames) ==
    LET hashes == Skip(f, at, Word)
    IN  Skip(f, Skip(f, hashes, Field(f, at) * HashBytes), frames * CountBytes)

\* The keyframes from `at': where they end, or why they were refused.
Keyframes(f, at, count, frames) ==
    LET after[k \in 0..count] ==
            IF k = 0 THEN [at |-> at, error |-> "none"]
            ELSE LET c == after[k - 1]
                     body == Skip(f, c.at, 3 * Word)
                 IN  IF c.error # "none" THEN c
                     ELSE IF body = Past THEN [at |-> Past, error |-> "truncated_content"]
                     ELSE IF Field(f, c.at) > frames \/ Field(f, c.at + Word) = 0
                          THEN [at |-> Past, error |-> "invalid_section"]
                     ELSE LET next == Skip(f, body, Field(f, c.at + 2 * Word))
                          IN  [at |-> next, error |-> IF next = Past THEN "truncated_content" ELSE "none"]
    IN  after[count]

AtEnd(f, at) == at = Len(f)

\* decode_recording_fm_registers
FmRegisters(f, l) ==
    LET Refused(error) == [error |-> error, registers |-> << >>]
        summary == Skip(f, Skip(f, l.inputs.offset + l.inputs.size, 2 * Word), l.frames * SummaryBytes)
        keysAt == SkipHistory(f, summary, l.frames)
        count == Field(f, keysAt)
        keys == Keyframes(f, Skip(f, keysAt, Word), count, l.frames)
        sizeAt == Skip(f, SkipHistory(f, keys.at, l.frames), Word)
        size == Field(f, sizeAt)
        begin == Skip(f, sizeAt, Word)
        end == Skip(f, Skip(f, begin, size), IF l.version >= TakeIdVersion THEN TakeIdBytes ELSE 0)
    IN  IF l.version < FmVersion THEN Refused("none")
        ELSE IF Skip(f, keysAt, Word) = Past THEN Refused("truncated_content")
        ELSE IF count > l.frames + 1 THEN Refused("invalid_section")
        ELSE IF keys.error # "none" THEN Refused(keys.error)
        ELSE IF begin = Past THEN Refused("truncated_content")
        ELSE IF size \notin {0, FmBytes} THEN Refused("invalid_size")
        ELSE IF end = Past THEN Refused("truncated_content")
        ELSE IF ~AtEnd(f, end) THEN Refused("trailing_content")
        ELSE [error |-> "none", registers |-> SubSeq(f, begin + 1, begin + size)]

\* zstd: the first cell of a frame says how long it is, the second the size it
\* declares (0: unknown), the third what it decompresses to.
ZstdLength(cells) == cells[1]
ZstdDeclared(cells) == IF Len(cells) > 1 THEN cells[2] ELSE 0
ZstdContent(cells) == IF Len(cells) > 2 THEN cells[3] ELSE 0
StateError(f, l) ==
    LET cells == SubSeq(f, l.state.offset + 1, l.state.offset + l.state.size)
    IN  IF \/ ZstdLength(cells) # l.state.size
           \/ ZstdDeclared(cells) \notin {0, l.raw}
           \/ ZstdContent(cells) # l.raw
        THEN "decompression_failed" ELSE "none"

\* make_recording_input_source
SourceError(f, l) ==
    IF l.frames \notin 1..MaxFrames THEN "invalid_frame_count"
    ELSE IF l.inputs.size # l.frames * InputBytes THEN "invalid_input_range"
    ELSE IF ~HasBytes(l.inputs.offset, l.inputs.size, Len(f)) THEN "truncated_input_range"
    ELSE "none"

\* The session's reading of a take: the layout, its tail, its state, its inputs.
Reading(f) ==
    LET l == Layout(f)
    IN  IF l.error # "none" THEN l.error
        ELSE IF FmRegisters(f, l).error # "none" THEN FmRegisters(f, l).error
        ELSE IF SourceError(f, l) # "none" THEN SourceError(f, l)
        ELSE StateError(f, l)

Init ==
    /\ take \in Takes
    /\ file = Written(take)
    /\ damage = 0
    /\ outcome = "unread" /\ inputs = << >> /\ cursor = 0 /\ played = << >>

Damaged(cells) ==
    /\ outcome = "unread" /\ damage < MaxDamage
    /\ damage' = damage + 1
    /\ file' = cells
    /\ UNCHANGED <<take, outcome, inputs, cursor, played>>

Cut == \E n \in 0..(Len(file) - 1) : Damaged(SubSeq(file, 1, n))

Extend == Len(file) <= MaxFile /\ Damaged(Append(file, 0))

Alter == \E i \in DOMAIN file, v \in {0, 1, 3, Base - 1} :
            v # file[i] /\ Damaged([file EXCEPT ![i] = v])

Read ==
    /\ outcome = "unread"
    /\ outcome' = Reading(file)
    /\ inputs' = IF outcome' = "none"
                 THEN LET r == Layout(file).inputs IN SubSeq(file, r.offset + 1, r.offset + r.size)
                 ELSE << >>
    /\ UNCHANGED <<take, file, damage, cursor, played>>

\* RecordingInputSource::next
NextInput ==
    /\ outcome = "none" /\ cursor < Layout(file).frames
    /\ played' = Append(played, <<inputs[cursor * InputBytes + 1], inputs[cursor * InputBytes + 2]>>)
    /\ cursor' = cursor + 1
    /\ UNCHANGED <<take, file, damage, outcome, inputs>>

Next == Cut \/ Extend \/ Alter \/ Read \/ NextInput
Spec == Init /\ [][Next]_vars

(***************************************************************************)
(* A take is played only if every part of it is there.  Whatever happened  *)
(* to the file, what the session accepts has its parts one after the other *)
(* and inside the file.  And when the file only lost or gained cells, an   *)
(* accepted take plays exactly the inputs the Engine recorded; from        *)
(* version 9 on, whose tail says how long it is, it is the whole file and  *)
(* the registers are the recorded ones.                                    *)
(***************************************************************************)
PlayedIsTheTake ==
    outcome = "none" =>
        LET l == Layout(file)
            kept == IsPrefix(file, Written(take)) \/ IsPrefix(Written(take), file)
        IN  /\ \A r \in {l.game, l.name, l.state, l.inputs} : r.offset + r.size <= Len(file)
            /\ l.game.offset + l.game.size < l.name.offset
            /\ l.name.offset + l.name.size < l.state.offset
            /\ l.state.offset + l.state.size = l.inputs.offset
            /\ kept => /\ l.frames = take.frames
                           /\ played = SubSeq(take.inputs, 1, cursor)
            /\ (kept /\ take.version >= FmVersion) =>
                    /\ file = Written(take)
                    /\ FmRegisters(file, l).registers = take.registers
================================================================================
