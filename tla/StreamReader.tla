---------------------------- MODULE StreamReader ----------------------------
(***************************************************************************)
(* A controller that writes frames to a byte stream, a stream that damages *)
(* them, and the host's TransportStreamReader that delimits what arrives,  *)
(* dispatches it and keeps the daemon up to date                           *)
(* (crates/transport-adapter/src/lib.rs).  One call of read_and_dispatch   *)
(* is Read followed by one DispatchNext for each frame and a last one that *)
(* finds none or fails; the reader and the daemon are borrowed mutably for *)
(* the whole call, so that nothing else but the writer moves meanwhile.    *)
(* The controller's commands go through a CommandClient                    *)
(* (crates/control-client/src/lib.rs).                                     *)
(***************************************************************************)
EXTENDS FrameCodec, ControllerDaemon

CONSTANTS
    Id,             \* the controller at the other end of the stream
    Envelopes,      \* commands it may write
    Statuses,       \* queue statuses it may report
    Responses,      \* clock responses it may give
    Aliens,         \* <<type, payload>>: frames of another version of the protocol
    Noise,          \* units that belong to no frame
    Damaged(_),     \* what may become of a written frame
    ReadSize,       \* length of read_buf
    Pieces,         \* lengths of reads that return only part of what is there
    MaxWrites, MaxTime  \* bounds

ASSUME ReaderAssumption ==
    /\ Id \in Controllers /\ ReadSize \in Nat \ {0} /\ Pieces \subseteq Nat \ {0}
    /\ MaxWrites \in Nat /\ MaxTime \in Nat
    /\ MAX_PAYLOAD_LEN >= 6
    /\ None \notin Status
    /\ Envelopes \subseteq Envelope /\ Statuses \subseteq Status /\ Responses \subseteq Response
    /\ Aliens \subseteq Nat \X Seq(Nat) /\ Noise \subseteq Seq(Nat)

VARIABLES
    host_us,
    next_sequence,  \* of the controller's CommandClient
    writes,         \* number of writes so far, and the sequence of other frames
    incoming,       \* units written and not read
    buffer,         \* of the codec
    reading,        \* read_and_dispatch is under way
    dispatched,     \* the frames it has dispatched
    unread,         \* history: frames written undamaged that the reader has not
                    \* delimited nor gone past, and what they say
    sent,           \* history: the last status written undamaged
    trouble,        \* history: a frame was rejected, a chunk was lost
    renewed         \* history: Id was registered since the last status dispatched

clientVars == <<next_sequence, writes>>
readerVars == <<buffer, reading, dispatched>>
history == <<unread, sent, trouble>>
streamVars == <<host_us, clientVars, incoming, readerVars, history, renewed, daemonVars>>

Init ==
    /\ host_us = 0
    /\ next_sequence = 0 /\ writes = 0
    /\ incoming = <<>> /\ buffer = <<>> /\ reading = FALSE /\ dispatched = <<>>
    /\ unread = <<>> /\ sent = None /\ trouble = {} /\ renewed = TRUE
    /\ DaemonInit

-----------------------------------------------------------------------------
(* The writer.                                                             *)

\* A frame, and what it says, that arrives as it was written, or damaged.
Write(frame, message) ==
    /\ writes < MaxWrites
    /\ writes' = writes + 1
    /\ \/ /\ incoming' = incoming \o frame
          /\ unread' = Append(unread, [frame |-> frame, message |-> message])
          /\ sent' = IF message.type = QUEUE_STATUS_MESSAGE_TYPE THEN message.content ELSE sent
       \/ /\ \E damaged \in Damaged(frame) : incoming' = incoming \o damaged
          /\ UNCHANGED <<unread, sent>>
    /\ UNCHANGED <<host_us, readerVars, trouble, renewed, daemonVars>>

WriteStatus ==
    /\ \E status \in Statuses :
          Write(encode_queue_status(writes, status),
                Message(QUEUE_STATUS_MESSAGE_TYPE, writes, status))
    /\ UNCHANGED next_sequence

WriteClockFrame ==
    /\ \/ Write(encode_clock_request(writes), Message(CLOCK_REQUEST_MESSAGE_TYPE, writes, None))
       \/ \E response \in Responses :
              Write(encode_clock_response(writes, response),
                    Message(CLOCK_RESPONSE_MESSAGE_TYPE, writes, response))
    /\ UNCHANGED next_sequence

\* A command is not sent unless it can be encoded; encoding commits the
\* sequence, whether or not the transport then reports an error.
SendCommand ==
    \E envelope \in Envelopes :
        /\ Encodable(envelope)
        /\ Write(encode_command(next_sequence, envelope),
                 Message(COMMAND_MESSAGE_TYPE, next_sequence, envelope))
        /\ next_sequence' = next_sequence + 1

\* Frames of this format that no decoder of this version accepts.
WriteAlien ==
    /\ writes < MaxWrites
    /\ writes' = writes + 1
    /\ \E alien \in Aliens : incoming' = incoming \o Framed(alien[1], writes, alien[2])
    /\ UNCHANGED <<host_us, next_sequence, readerVars, history, renewed, daemonVars>>

Disturb ==
    /\ writes < MaxWrites
    /\ writes' = writes + 1
    /\ \E units \in Noise : incoming' = incoming \o units
    /\ UNCHANGED <<host_us, next_sequence, readerVars, history, renewed, daemonVars>>

-----------------------------------------------------------------------------
(* The reader.                                                             *)

\* The transport hands over part of what is there, at most a read_buf full.
\* A chunk the codec has no room for is lost and ends the call with an error;
\* an error of the transport changes nothing.
Read ==
    /\ ~reading
    /\ \E n \in { k \in Pieces : k <= Len(incoming) } \cup { Min({ReadSize, Len(incoming)}) } :
          /\ n <= ReadSize
          /\ incoming' = From(incoming, n + 1)
          /\ LET chunk == SubSeq(incoming, 1, n)
             IN  IF Fits(buffer, chunk)
                 THEN buffer' = buffer \o chunk /\ reading' = TRUE /\ UNCHANGED trouble
                 ELSE UNCHANGED <<buffer, reading>> /\ trouble' = trouble \cup {"lost"}
    /\ dispatched' = <<>>
    /\ UNCHANGED <<host_us, clientVars, unread, sent, renewed, daemonVars>>

\* The next frame of the buffer; the call ends when there is none.  A frame
\* that does not decode ends it with an error, and what it dispatched before
\* is dropped.
DispatchNext ==
    /\ reading
    /\ LET next == NextFrame(buffer)
           found == next.frame # <<>>
           decoded == Decoded(next.frame)
           read == {k \in DOMAIN unread : unread[k].frame = next.frame}
       IN  /\ buffer' = next.rest
           /\ reading' = (found /\ Decodable(next.frame))
           /\ dispatched' = IF ~found THEN dispatched
                            ELSE IF reading' THEN Append(dispatched, decoded) ELSE <<>>
           /\ unread' = IF read = {} THEN unread ELSE From(unread, Min(read) + 1)
           /\ IF reading' /\ decoded.type = QUEUE_STATUS_MESSAGE_TYPE
              THEN UpdateQueueStatus(Id, decoded.content, host_us)
              ELSE UNCHANGED daemonVars
           /\ renewed' = (renewed /\ ~(reading' /\ decoded.type = QUEUE_STATUS_MESSAGE_TYPE))
           /\ trouble' = IF found /\ ~reading' THEN trouble \cup {"rejected"} ELSE trouble
    /\ UNCHANGED <<host_us, clientVars, incoming, sent>>

-----------------------------------------------------------------------------
(* The host's other calls of the daemon.                                   *)

Advance ==
    /\ ~reading /\ host_us < MaxTime
    /\ host_us' = host_us + 1
    /\ UNCHANGED <<clientVars, incoming, readerVars, history, renewed, daemonVars>>

Register ==
    /\ ~reading
    /\ \E c \in Controllers, timeout \in Timeouts :
          /\ RegisterController(c, timeout)
          /\ renewed' = (renewed \/ c = Id)
    /\ UNCHANGED <<host_us, clientVars, incoming, readerVars, history>>

Heartbeat ==
    /\ ~reading
    /\ \E c \in Controllers : RecordHeartbeat(c, host_us)
    /\ UNCHANGED <<host_us, clientVars, incoming, readerVars, history, renewed>>

Audit ==
    /\ ~reading
    /\ AuditHeartbeats(host_us)
    /\ UNCHANGED <<host_us, clientVars, incoming, readerVars, history, renewed>>

Next ==
    \/ WriteStatus \/ WriteClockFrame \/ SendCommand \/ WriteAlien \/ Disturb
    \/ Read \/ DispatchNext
    \/ Advance \/ Register \/ Heartbeat \/ Audit

Spec == Init /\ [][Next]_streamVars

-----------------------------------------------------------------------------
(***************************************************************************)
(* Properties.                                                             *)
(***************************************************************************)

\* What is still to be scanned.
Left == buffer \o incoming

\* What is written completes no frame but itself, and none that a decoder
\* accepts when it is damaged, noise or alien; nor do the two ends that meet
\* where a chunk was lost.
ChecksumTells ==
    /\ writes' # writes =>
          \A i \in FramesIn(Left') : EndOf(Left', i) > Len(Left) =>
             /\ i > Len(Left)
             /\ IF unread' # unread THEN i = Len(Left) + 1
                ELSE ~Decodable(SubSeq(Left', i, EndOf(Left', i)))
    /\ buffer' = buffer /\ Len(incoming') < Len(incoming) =>
          \A i \in FramesIn(Left') : i <= Len(buffer) /\ EndOf(Left', i) > Len(buffer) =>
             ~Decodable(SubSeq(Left', i, EndOf(Left', i)))

\* What the checksum of the frames is for (crc32c and its check in
\* every decoder): whatever is damaged, lost or mixed on the stream, what
\* decodes is what an encoder wrote.  It is a hypothesis of the theorems about
\* a real checksum, and no property of the code.
ChecksumHolds == [][ChecksumTells]_streamVars

Feeds == reading /\ Len(dispatched') > Len(dispatched)

\* The reader dispatches frames that were written undamaged, in their order,
\* once each, decoded to what they were to say, and nothing else: neither
\* noise nor a damaged frame ever decodes.  It passes over one only once a
\* chunk was lost.
NothingForged ==
    [][Feeds => \E k \in DOMAIN unread :
                   /\ Last(dispatched') = unread[k].message
                   /\ unread' = From(unread, k + 1)
                   /\ "lost" \notin trouble => k = 1]_streamVars

\* Whatever noise and damage surround it, an undamaged frame that was not
\* delimited yet is still there to be: no false header swallows any of it.
IntactFramesKept ==
    "lost" \notin trouble =>
        \A k \in DOMAIN unread :
            LET frame == unread[k].frame
            IN  \E i \in 1 .. Len(Left) - Len(frame) + 1 :
                    SubSeq(Left, i, i + Len(frame) - 1) = frame

\* Noise, damage and false headers alone never fill the codec's buffer: a
\* chunk is lost only after a frame was rejected that was delimited.
LostOnlyAfterRejection == "lost" \in trouble => "rejected" \in trouble

\* Once no status is on its way, what the daemon reports of a controller is
\* what it said last of itself: no stale status stays, and none is dropped.
\* It is the blank when a registration came after the last status, and then
\* only.
DaemonKnowsStatus ==
    /\ sessions[Id] # None
    /\ "lost" \notin trouble
    /\ \A k \in DOMAIN unread : unread[k].message.type # QUEUE_STATUS_MESSAGE_TYPE
    => LET report == SessionStatus(Id, host_us)
           reported == [capacity |-> report.queue_capacity, fill |-> report.queue_fill,
                        earliest_accepted |-> report.earliest_accepted_tick,
                        latest_accepted |-> report.latest_accepted_tick,
                        underrun |-> report.underrun]
       IN  reported = IF renewed THEN BlankStatus ELSE sent
=============================================================================
