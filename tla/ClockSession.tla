---------------------------- MODULE ClockSession ----------------------------
(***************************************************************************)
(* ClockSession of crates/control-client/src/lib.rs over the simulated     *)
(* clock link of crates/simulator/src/clock_transport.rs: one exchange at  *)
(* a time, with timeouts, late, lost, duplicated and reordered answers,    *)
(* a bounded queue of answers and a finite sequence space.  A cluster is a *)
(* map of such sessions and links that do not share state.                 *)
(***************************************************************************)
EXTENDS ClockSync, Sequences, SequencesExt

CONSTANTS
    LastSequence,      \* u32::MAX
    timeout_ticks,
    request_link, response_link,  \* ClockLinkConfig of each direction
    processing_ticks, max_pending,
    Rates,             \* rates of the controller's clock, relative to the host's
    controller_epoch,  \* the controller's clock at host tick 0
    MaxTime            \* bound on the host clock

\* A link: loss and duplication matter only as possible or not.
ClockLinkConfig == [latency_ticks : Nat, jitter_ticks : Nat, loses : BOOLEAN, duplicates : BOOLEAN]

ASSUME SessionAssumption ==
    /\ LastSequence \in Nat /\ timeout_ticks \in Nat /\ MaxTime \in Nat
    /\ request_link \in ClockLinkConfig /\ response_link \in ClockLinkConfig
    /\ processing_ticks \in Nat /\ max_pending \in Nat \ {0}
    /\ controller_epoch \in Nat
    /\ \A r \in Rates : r \in Int /\ r > -PARTS_PER_BILLION
    /\ None \notin Nat

VARIABLES
    host_now, rate_ppb,
    next_sequence, exhausted, pending, sync,  \* the session
    link_up, in_flight,                       \* the link: answers in order of insertion
    used                                      \* history: sequence numbers handed out

session == <<next_sequence, exhausted, pending, sync, used>>
link == <<link_up, in_flight>>
sessionVars == <<host_now, rate_ppb, session, link>>

Answer == [sequence : Nat, controller_receive : Nat, controller_send : Nat, delivered_at : Nat]
PendingClockExchange == [sequence : Nat, host_send : Nat]

Init ==
    /\ host_now = 0 /\ rate_ppb \in Rates
    /\ next_sequence = 0 /\ exhausted = FALSE /\ pending = None /\ sync = NoSync
    /\ link_up = TRUE /\ in_flight = <<>>
    /\ used = {}

-----------------------------------------------------------------------------
(* The simulated link and the controller's clock.                          *)

\* The controller's clock, rounded down to a whole tick (ControllerClock::at).
ControllerAt(host) ==
    controller_epoch + (host * (PARTS_PER_BILLION + rate_ppb)) \div PARTS_PER_BILLION

\* The times at which one direction delivers what is sent at a time.
Deliveries(sent_at, config) ==
    LET once == { <<sent_at + config.latency_ticks + jitter>> : jitter \in 0 .. config.jitter_ticks }
    IN  once \cup (IF config.loses THEN { <<>> } ELSE {})
             \cup (IF config.duplicates THEN { d \o <<d[1] + 1>> : d \in once } ELSE {})

\* The answers to a request that arrives at a time; each arrival of a
\* duplicated request is answered.
Answers(sequence, arrival) ==
    { [i \in DOMAIN d |-> [sequence |-> sequence,
                           controller_receive |-> ControllerAt(arrival),
                           controller_send |-> ControllerAt(arrival + processing_ticks),
                           delivered_at |-> d[i]]] :
      d \in Deliveries(arrival + processing_ticks, response_link) }

\* What a request handed to the link at host_now may put in flight.
Scheduled(sequence) ==
    IF ~link_up THEN { <<>> }
    ELSE UNION { IF arrivals = <<>> THEN { <<>> }
                 ELSE IF Len(arrivals) = 1 THEN Answers(sequence, arrivals[1])
                 ELSE { a \o b : a \in Answers(sequence, arrivals[1]),
                                 b \in Answers(sequence, arrivals[2]) } :
                 arrivals \in Deliveries(host_now, request_link) }

\* A mistake to detect: the room is looked at before the answers are counted.
FitsOne(answers) == Len(in_flight) < max_pending

Fits(answers) == Len(in_flight) + Len(answers) <= max_pending

\* The answer receive_due returns: the earliest that is due, first in first out.
IsNextDue(k) ==
    /\ in_flight[k].delivered_at <= host_now
    /\ \A i \in DOMAIN in_flight :
          \/ in_flight[i].delivered_at > in_flight[k].delivered_at
          \/ in_flight[i].delivered_at = in_flight[k].delivered_at /\ i >= k

-----------------------------------------------------------------------------
Advance ==
    /\ host_now < MaxTime
    /\ host_now' = host_now + 1
    /\ UNCHANGED <<rate_ppb, session, link>>

\* A mistake to detect: the sequence space is not watched.
BeginForever ==
    /\ pending = None
    /\ used' = used \cup {next_sequence}
    /\ exhausted' = FALSE
    /\ next_sequence' = (next_sequence + 1) % (LastSequence + 1)
    /\ \E answers \in Scheduled(next_sequence) :
          IF Fits(answers)
          THEN /\ in_flight' = in_flight \o answers
               /\ pending' = [sequence |-> next_sequence, host_send |-> host_now]
          ELSE UNCHANGED <<in_flight, pending>>
    /\ UNCHANGED <<host_now, rate_ppb, sync, link_up>>

\* A new exchange.  The sequence number is consumed before the frame is sent:
\* when the link refuses the frame because its queue is full, the link is as
\* before, and the session has no exchange pending.
Begin ==
    /\ pending = None
    /\ ~exhausted
    /\ used' = used \cup {next_sequence}
    /\ exhausted' = (next_sequence = LastSequence)
    /\ next_sequence' = (next_sequence + 1) % (LastSequence + 1)
    /\ \E answers \in Scheduled(next_sequence) :
          IF Fits(answers)
          THEN /\ in_flight' = in_flight \o answers
               /\ pending' = [sequence |-> next_sequence, host_send |-> host_now]
          ELSE UNCHANGED <<in_flight, pending>>
    /\ UNCHANGED <<host_now, rate_ppb, sync, link_up>>

TimedOut == host_now - pending.host_send >= timeout_ticks

\* A mistake to detect: any answer will do.
AnyAnswer(answer) == pending # None

\* The answer to the exchange that is pending.
Awaited(answer) == pending # None /\ answer.sequence = pending.sequence

SampleOf(answer) ==
    [host_send |-> pending.host_send, controller_receive |-> answer.controller_receive,
     controller_send |-> answer.controller_send, host_receive |-> host_now]

\* The next due answer, accepted as it is received (accept_response).  One
\* that was not awaited changes nothing; the awaited one ends the exchange,
\* in time or not, and whether or not the estimator accepts the sample.
Receive ==
    \E k \in DOMAIN in_flight :
        /\ IsNextDue(k)
        /\ in_flight' = RemoveAt(in_flight, k)
        /\ IF ~Awaited(in_flight[k]) THEN UNCHANGED <<pending, sync>>
           ELSE /\ pending' = None
                /\ sync' = IF TimedOut THEN sync ELSE Pushed(sync, SampleOf(in_flight[k]))
        /\ UNCHANGED <<host_now, rate_ppb, next_sequence, exhausted, used, link_up>>

Expire ==
    /\ pending # None /\ TimedOut
    /\ pending' = None
    /\ UNCHANGED <<host_now, rate_ppb, next_sequence, exhausted, sync, used, link>>

\* The answers in flight are lost with the link.
DropLink ==
    /\ link_up' = FALSE
    /\ in_flight' = <<>>
    /\ UNCHANGED <<host_now, rate_ppb, session>>

RestoreLink ==
    /\ link_up' = TRUE
    /\ UNCHANGED <<host_now, rate_ppb, session, in_flight>>

Next == Advance \/ Begin \/ Receive \/ Expire \/ DropLink \/ RestoreLink

Spec == Init /\ [][Next]_sessionVars

-----------------------------------------------------------------------------
(***************************************************************************)
(* Properties.                                                             *)
(***************************************************************************)

\* Every variable has the type of its field in the source.
SessionTypeOK ==
    /\ next_sequence \in 0 .. LastSequence /\ exhausted \in BOOLEAN
    /\ pending \in PendingClockExchange \cup {None}
    /\ sync.last_raw \in ClockSample \cup {None}
    /\ sync.previous \in OffsetObservation \cup {None}
    /\ in_flight \in Seq(Answer) /\ Len(in_flight) <= max_pending
    /\ link_up \in BOOLEAN /\ used \subseteq 0 .. LastSequence

\* No sequence number is ever handed out twice, not even after a send that
\* failed or when the numbers run out.
NoSequenceReuse ==
    [][next_sequence' # next_sequence => next_sequence \notin used]_sessionVars

\* A sample is made of one request and an answer to that very request, within
\* the timeout: the controller stamped it after the request was sent, and
\* sent it before it was received.
SamplesAreRoundTrips ==
    [][sync'.last_raw # sync.last_raw =>
          LET s == sync'.last_raw IN
          /\ s.host_send = pending.host_send
          /\ s.host_receive - s.host_send < timeout_ticks
          /\ ControllerAt(s.host_send) <= s.controller_receive
          /\ s.controller_send <= ControllerAt(s.host_receive)]_sessionVars

\* The estimator finds no fault with an answer that comes in time from a
\* controller whose clock keeps to the slew bound, rounding included.
HonestAnswersCount ==
    \A k \in DOMAIN in_flight :
        IsNextDue(k) /\ Awaited(in_flight[k]) /\ ~TimedOut =>
            Consistent(sync, SampleOf(in_flight[k]))

\* The projected window contains the controller's clock, up to one tick.
WindowNearTruth ==
    HasEstimate(sync) => \A h \in sync.session_start .. MaxTime :
        LET w == Projected(sync, h)
        IN  w.earliest - 1 <= ControllerAt(h) /\ ControllerAt(h) <= w.latest
=============================================================================
