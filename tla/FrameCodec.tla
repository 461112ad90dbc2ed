----------------------------- MODULE FrameCodec -----------------------------
(***************************************************************************)
(* FrameCodec of crates/transport-adapter/src/lib.rs: a bounded buffer in  *)
(* which frames are found again after noise and corruption.                *)
(***************************************************************************)
EXTENDS ControlProtocol, FiniteSetsExt

CONSTANT max_capacity

ASSUME CodecAssumption == max_capacity \in Nat

\* The units from a position on.
From(buffer, i) == SubSeq(buffer, i, Len(buffer))

StartsFrame(units) == Len(units) >= 2 /\ SubSeq(units, 1, 2) = MAGIC

\* A mistake to detect: the length in a header is believed.
ValidHeaderAnyLength(units) ==
    /\ units[3] = PROTOCOL_VERSION
    /\ units[4] \in MessageTypes

ValidHeader(units) ==
    /\ units[3] = PROTOCOL_VERSION
    /\ units[4] \in MessageTypes
    /\ units[6] <= MAX_PAYLOAD_LEN

FrameLen(units) == HEADER_LEN + units[6] + CHECKSUM_LEN

ChecksumMatches(units) ==
    units[FrameLen(units)] = crc32c(SubSeq(units, 3, HEADER_LEN + units[6]))

\* Units that start with the magic and may yet become a frame.
Incomplete(units) ==
    \/ Len(units) < HEADER_LEN
    \/ ValidHeader(units) /\ Len(units) < FrameLen(units)

Complete(units) ==
    /\ Len(units) >= HEADER_LEN /\ ValidHeader(units)
    /\ Len(units) >= FrameLen(units)
    /\ ChecksumMatches(units)

\* Where a frame begins that is whole and has a matching checksum, and the
\* last unit of it.
FramesIn(units) ==
    { i \in DOMAIN units : StartsFrame(From(units, i)) /\ Complete(From(units, i)) }

EndOf(units, i) == i + FrameLen(From(units, i)) - 1

\* Where the scan stops: the first magic whose candidate is not discarded.
\* A discarded candidate loses its first unit only, and the scan goes on.
Stops(buffer) ==
    { i \in DOMAIN buffer : LET units == From(buffer, i)
                            IN  StartsFrame(units) /\ (Incomplete(units) \/ Complete(units)) }

\* A mistake to detect: half a magic is thrown away.
RemainderNothing(buffer) == <<>>

\* What is left when no candidate remains: a last unit that may be the
\* first half of a magic.
Remainder(buffer) ==
    IF buffer # <<>> /\ Last(buffer) = MAGIC[1] THEN <<MAGIC[1]>> ELSE <<>>

\* The outcome of next_frame: the frame, if any, and the buffer after it.
NextFrame(buffer) ==
    IF Stops(buffer) = {} THEN [frame |-> <<>>, rest |-> Remainder(buffer)]
    ELSE LET units == From(buffer, Min(Stops(buffer)))
         IN  IF Incomplete(units) THEN [frame |-> <<>>, rest |-> units]
             ELSE [frame |-> SubSeq(units, 1, FrameLen(units)),
                   rest |-> From(units, FrameLen(units) + 1)]

\* Whether feed takes a chunk.
Fits(buffer, chunk) == Len(buffer) + Len(chunk) <= max_capacity
=============================================================================
