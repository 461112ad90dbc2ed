--------------------------- MODULE ControlProtocol ---------------------------
(***************************************************************************)
(* The wire format of crates/control-protocol/src/lib.rs.  A frame is a    *)
(* sequence of units: magic, version, message type, sequence, payload      *)
(* length, payload, checksum.  A unit stands for a field, so that integers *)
(* of 2, 4 and 8 bytes take one unit each; magic takes two and a string    *)
(* one for its length and one for each character, as in the code.  Any     *)
(* unit may happen to equal a unit of the magic.  Which of the decoding    *)
(* errors is reported is left out: no caller tells them apart.             *)
(***************************************************************************)
EXTENDS Integers, Sequences, SequencesExt

CONSTANTS
    MAX_STRING_LEN, MAX_PAYLOAD_LEN,
    NotUtf8,  \* the units no string may hold
    None      \* Option::None

ASSUME ProtocolAssumption ==
    MAX_STRING_LEN \in Nat /\ MAX_PAYLOAD_LEN \in Nat /\ None \notin Nat

MAGIC == <<68, 82>>
PROTOCOL_VERSION == 1
COMMAND_MESSAGE_TYPE == 1
QUEUE_STATUS_MESSAGE_TYPE == 2
CLOCK_REQUEST_MESSAGE_TYPE == 3
CLOCK_RESPONSE_MESSAGE_TYPE == 4
MessageTypes == 1 .. 4
HEADER_LEN == 6
CHECKSUM_LEN == 1
MAX_FRAME_LEN == HEADER_LEN + MAX_PAYLOAD_LEN + CHECKSUM_LEN

\* A mistake to detect: nothing is checked.
NoChecksum(units) == 0

\* A checksum folded unit by unit, weaker than CRC-32C but good enough for
\* few units.
crc32c(units) ==
    LET crc[i \in 0 .. Len(units)] ==
            IF i = 0 THEN 7 ELSE (crc[i - 1] * 31 + units[i] + 1) % 9973
    IN  crc[Len(units)]

\* Everything after the magic is covered by the checksum.
Framed(type, sequence, payload) ==
    LET body == <<PROTOCOL_VERSION, type, sequence, Len(payload)>> \o payload
    IN  MAGIC \o body \o <<crc32c(body)>>

\* What a frame says: its type, its sequence, and what it carries.
Message(type, sequence, content) ==
    [type |-> type, sequence |-> sequence, content |-> content]

-----------------------------------------------------------------------------
(* Commands.                                                               *)

TAG_HEARTBEAT == 0
TAG_SET_HEATER_TARGET == 1
TAG_HOME == 2
TAG_MOVE == 3

\* A command names its device (a sequence of characters) and has the
\* numbers of its kind: target, rate, or distance and rate.
NumbersOf == [tag \in {TAG_SET_HEATER_TARGET, TAG_HOME, TAG_MOVE} |->
                 IF tag = TAG_MOVE THEN 2 ELSE 1]

\* An envelope; a heartbeat has no name, and a name is text.
Envelope ==
    { e \in [execute_at : Nat \cup {None}, tag : DOMAIN NumbersOf \cup {TAG_HEARTBEAT},
             name : Seq(Nat), numbers : Seq(Nat)] :
        /\ \A i \in DOMAIN e.name : e.name[i] \notin NotUtf8
        /\ IF e.tag = TAG_HEARTBEAT THEN e.name = <<>> /\ e.numbers = <<>>
           ELSE Len(e.numbers) = NumbersOf[e.tag] }

encode_payload(envelope) ==
    (IF envelope.execute_at = None THEN <<0>> ELSE <<1, envelope.execute_at>>)
    \o <<envelope.tag>>
    \o (IF envelope.tag = TAG_HEARTBEAT THEN <<>>
        ELSE <<Len(envelope.name)>> \o envelope.name \o envelope.numbers)

\* What encode_command accepts, given a buffer of MAX_FRAME_LEN.
Encodable(envelope) ==
    /\ Len(envelope.name) <= MAX_STRING_LEN
    /\ Len(encode_payload(envelope)) <= MAX_PAYLOAD_LEN

encode_command(sequence, envelope) ==
    Framed(COMMAND_MESSAGE_TYPE, sequence, encode_payload(envelope))

\* Where the tag of a command payload is.
TagAt(payload) == IF payload[1] = 1 THEN 3 ELSE 2

\* A string of a payload: its length is bounded and its units are text.
IsString(payload, at) ==
    /\ payload[at] <= MAX_STRING_LEN
    /\ \A i \in at + 1 .. at + payload[at] : payload[i] \notin NotUtf8

IsCommandPayload(payload) ==
    /\ Len(payload) >= 1
    /\ payload[1] \in {0, 1}
    /\ LET at == TagAt(payload) IN
       /\ Len(payload) >= at
       /\ \/ payload[at] = TAG_HEARTBEAT /\ Len(payload) = at
          \/ /\ payload[at] \in DOMAIN NumbersOf
             /\ Len(payload) > at
             /\ Len(payload) = at + 1 + payload[at + 1] + NumbersOf[payload[at]]
             /\ IsString(payload, at + 1)

decode_payload(payload) ==
    LET at == TagAt(payload)
        named == payload[at] # TAG_HEARTBEAT
        last == IF named THEN at + 1 + payload[at + 1] ELSE at
    IN  [execute_at |-> IF at = 3 THEN payload[2] ELSE None,
         tag |-> payload[at],
         name |-> IF named THEN SubSeq(payload, at + 2, last) ELSE <<>>,
         numbers |-> SubSeq(payload, last + 1, Len(payload))]

-----------------------------------------------------------------------------
(* Queue statuses and clock frames; each payload starts with flags, all 0. *)

Status == [capacity : Nat, fill : Nat, earliest_accepted : Nat, latest_accepted : Nat,
           underrun : BOOLEAN]

Response == [controller_receive : Nat, controller_send : Nat]

encode_queue_status(sequence, status) ==
    Framed(QUEUE_STATUS_MESSAGE_TYPE, sequence,
           <<0, status.capacity, status.fill, status.earliest_accepted,
             status.latest_accepted, IF status.underrun THEN 1 ELSE 0>>)

IsQueueStatusPayload(payload) ==
    Len(payload) = 6 /\ payload[1] = 0 /\ payload[6] \in {0, 1}

StatusOf(payload) ==
    [capacity |-> payload[2], fill |-> payload[3], earliest_accepted |-> payload[4],
     latest_accepted |-> payload[5], underrun |-> payload[6] = 1]

IsClockResponsePayload(payload) == Len(payload) = 3 /\ payload[1] = 0

ResponseOf(payload) == [controller_receive |-> payload[2], controller_send |-> payload[3]]

encode_clock_request(sequence) == Framed(CLOCK_REQUEST_MESSAGE_TYPE, sequence, <<0>>)

encode_clock_response(sequence, response) ==
    Framed(CLOCK_RESPONSE_MESSAGE_TYPE, sequence,
           <<0, response.controller_receive, response.controller_send>>)

-----------------------------------------------------------------------------
(* Decoding exactly one frame.                                             *)

PayloadOf(input) == SubSeq(input, HEADER_LEN + 1, HEADER_LEN + input[6])

\* The checks the decoders share, up to the checksum.
IsFrame(input, type) ==
    /\ Len(input) >= HEADER_LEN
    /\ SubSeq(input, 1, 2) = MAGIC
    /\ input[3] = PROTOCOL_VERSION
    /\ input[4] = type
    /\ input[6] <= MAX_PAYLOAD_LEN
    /\ Len(input) = HEADER_LEN + input[6] + CHECKSUM_LEN
    /\ input[Len(input)] = crc32c(SubSeq(input, 3, HEADER_LEN + input[6]))

\* The frames that the decoder of their type accepts.
Decodable(input) ==
    \/ IsFrame(input, COMMAND_MESSAGE_TYPE) /\ IsCommandPayload(PayloadOf(input))
    \/ IsFrame(input, QUEUE_STATUS_MESSAGE_TYPE) /\ IsQueueStatusPayload(PayloadOf(input))
    \/ IsFrame(input, CLOCK_REQUEST_MESSAGE_TYPE) /\ PayloadOf(input) = <<0>>
    \/ IsFrame(input, CLOCK_RESPONSE_MESSAGE_TYPE) /\ IsClockResponsePayload(PayloadOf(input))

\* A decodable frame decoded.
Decoded(input) ==
    LET payload == PayloadOf(input)
        content ==
            CASE input[4] = COMMAND_MESSAGE_TYPE -> decode_payload(payload)
              [] input[4] = QUEUE_STATUS_MESSAGE_TYPE -> StatusOf(payload)
              [] input[4] = CLOCK_REQUEST_MESSAGE_TYPE -> None
              [] OTHER -> ResponseOf(payload)
    IN  Message(input[4], input[5], content)
=============================================================================
