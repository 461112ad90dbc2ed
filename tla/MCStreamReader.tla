--------------------------- MODULE MCStreamReader ---------------------------
(* An instance of StreamReader for TLC. *)
EXTENDS StreamReader

MCEnvelopes ==
    { [execute_at |-> None, tag |-> TAG_HEARTBEAT, name |-> <<>>, numbers |-> <<>>],
      [execute_at |-> 2, tag |-> TAG_HOME, name |-> <<68, 82>>, numbers |-> <<1>>] }
MCStatuses ==
    { [capacity |-> 68, fill |-> 82, earliest_accepted |-> 1, latest_accepted |-> 2, underrun |-> u] :
      u \in BOOLEAN }
MCResponses == { [controller_receive |-> 3, controller_send |-> 4] }

\* A status with an unknown flag.
MCAliens == { <<QUEUE_STATUS_MESSAGE_TYPE, <<0, 1, 1, 1, 1, 2>> >> }

\* Half a magic, false headers that ask for more than follows them, and a
\* burst of clock requests with unknown flags.
Burst == LET request == Framed(CLOCK_REQUEST_MESSAGE_TYPE, 0, <<1>>)
         IN  request \o request \o request \o request \o request
MCNoise == { <<0, 68>>, <<68, 82, 1, 2, 0, 7>>, <<68, 82, 1, 2, 0, 200>>, Burst }

\* Its tail lost, or its length changed.
MCDamaged(frame) ==
    { SubSeq(frame, 1, HEADER_LEN), [frame EXCEPT ![6] = 7] } \ {frame}
=============================================================================
