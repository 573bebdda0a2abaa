--------------------------- MODULE ProtocolHeader ---------------------------
(****************************************************************************)
(* The header every message of the two channels between the supervisor and   *)
(* the Runtime starts with.                                                  *)
(*                                                                           *)
(* A message is a sequence of cells: an integer, or a whole TOML document    *)
(* as the record of its keys.  Lengths count cells.                          *)
(****************************************************************************)
EXTENDS Integers, Sequences

CONSTANT MaxPayload     \* max_protocol_payload_bytes

NoDocument == [key \in {} |-> 0]
Cell(number) == [n |-> number, doc |-> NoDocument]
Document(table) == [n |-> -1, doc |-> table]
Cells(numbers) == [i \in DOMAIN numbers |-> Cell(numbers[i])]

Magic == 65
HeaderSize == 10

MessageTypes == [capabilities |-> 1, request |-> 2, cancel |-> 3, session_status |-> 4,
    fact_batch |-> 5, audio_chunk |-> 6, terminal |-> 7, diagnostic |-> 8, acknowledgement |-> 9]

ChannelFor(type) == IF type \in {MessageTypes.request, MessageTypes.cancel,
                                 MessageTypes.acknowledgement} THEN 1 ELSE 2

\* encode_protocol_header
EncodeHeader(type, size, channel, sequence) ==
    Cells(<<Magic, 1, 0, HeaderSize, type, 0, size, channel, sequence, 0>>)

\* A message: the header for its payload, and the payload.
Framed(type, channel, sequence, payload) ==
    EncodeHeader(type, Len(payload), channel, sequence) \o payload

\* decode_protocol_header: the first check that fails.
HeaderError(message, expectedChannel) ==
    LET h(i) == message[i].n
        refused(error, check) == IF check THEN error ELSE "none"
        first(a, b) == IF a # "none" THEN a ELSE b
    IN  IF Len(message) < HeaderSize THEN "incomplete"
        ELSE first(refused("invalid_magic", h(1) # Magic),
             first(refused("incompatible_version", h(2) # 1 \/ h(3) # 0),
             first(refused("invalid_header_size", h(4) # HeaderSize),
             first(refused("unknown_message_type", h(5) \notin 1..9),
             first(refused("unsupported_flags", h(6) # 0),
             first(refused("invalid_payload_length", h(7) \notin 1..MaxPayload),
             first(refused("invalid_channel", h(8) # expectedChannel \/ h(8) # ChannelFor(h(5))),
             first(refused("invalid_sequence", h(9) <= 0),
                   refused("nonzero_reserved", h(10) # 0)))))))))

\* What every decoder checks before it looks at the payload.
EnvelopeError(message, type, channel, expectedSequence) ==
    IF HeaderError(message, channel) # "none" THEN "header_rejected"
    ELSE IF message[5].n # type THEN "wrong_message_type"
    ELSE IF message[9].n # expectedSequence THEN "sequence_mismatch"
    ELSE IF message[7].n # Len(message) - HeaderSize THEN "length_mismatch"
    ELSE "none"

Payload(message) == SubSeq(message, HeaderSize + 1, Len(message))
================================================================================
