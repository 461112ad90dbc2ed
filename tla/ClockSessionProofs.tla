------------------------- MODULE ClockSessionProofs -------------------------
(***************************************************************************)
(* Proofs about ClockSession: its sequence numbers, its samples, and what  *)
(* the estimator makes of them, for every sequence space, timeout, link,   *)
(* epoch and rate of the clock.                                            *)
(***************************************************************************)
EXTENDS ClockSession, SequenceTheorems, TLAPS

\* The numbers handed out are those below the next one; once the last one is
\* gone, the exhausted session keeps the next one from being taken.
SequenceInv ==
    /\ next_sequence \in 0 .. LastSequence
    /\ ~exhausted => used = 0 .. next_sequence - 1

\* The next number lies in the sequence space and differs from the one taken
\* unless that was the only one.
LEMMA NextInSpace ==
    ASSUME NEW last \in Nat, NEW n \in 0 .. last
    PROVE  /\ (n + 1) % (last + 1) \in 0 .. last
           /\ n # last => (n + 1) % (last + 1) = n + 1
  <1>1. CASE n = last
    <2>1. (last + 1) % (last + 1) = 0
      OBVIOUS
    <2>. QED  BY <1>1, <2>1
  <1>2. CASE n # last
    <2>1. n + 1 \in 0 .. last
      BY <1>2
    <2>2. (n + 1) % (last + 1) = n + 1
      BY <2>1
    <2>. QED  BY <2>1, <2>2
  <1>. QED  BY <1>1, <1>2

\* Only Begin touches the sequence numbers.
LEMMA OthersKeepSequence ==
    ASSUME [Next]_sessionVars
    PROVE  Begin \/ UNCHANGED <<next_sequence, exhausted, used>>
  BY DEF Next, Advance, Receive, Expire, DropLink, RestoreLink, sessionVars, session, link

\* The sequence numbers stay accounted for.
LEMMA SequenceInvStep ==
    ASSUME SequenceInv, [Next]_sessionVars
    PROVE  SequenceInv'
  <1>1. CASE UNCHANGED <<next_sequence, exhausted, used>>
    BY <1>1 DEF SequenceInv
  <1>2. CASE Begin
    <2>1. /\ next_sequence' = (next_sequence + 1) % (LastSequence + 1)
          /\ used = 0 .. next_sequence - 1
          /\ used' = used \cup {next_sequence}
          /\ exhausted' = (next_sequence = LastSequence)
      BY <1>2 DEF Begin, SequenceInv
    <2>2. LastSequence \in Nat /\ next_sequence \in 0 .. LastSequence
      BY SessionAssumption DEF SequenceInv
    <2>3. next_sequence' \in 0 .. LastSequence
      BY <2>1, <2>2, NextInSpace
    <2>4. ASSUME ~exhausted'  PROVE used' = 0 .. next_sequence' - 1
      <3>1. next_sequence # LastSequence
        BY <2>1, <2>4
      <3>2. next_sequence' = next_sequence + 1
        BY <2>1, <2>2, <3>1, NextInSpace
      <3>. QED  BY <2>1, <2>2, <3>2
    <2>. QED  BY <2>3, <2>4 DEF SequenceInv
  <1>. QED  BY <1>1, <1>2, OthersKeepSequence

\* They are so from the start.
LEMMA SequenceInvariant == Spec => []SequenceInv
  <1>1. Init => SequenceInv
    BY SessionAssumption DEF Init, SequenceInv
  <1>. QED  BY <1>1, SequenceInvStep, PTL DEF Spec

\* No sequence number is handed out twice: after a failed send as after a
\* timeout, and when the sequence space has come to its end.
THEOREM SequencesFresh == Spec => NoSequenceReuse
  <1>. DEFINE Fresh == next_sequence' # next_sequence => next_sequence \notin used
  <1>1. SequenceInv /\ [Next]_sessionVars => Fresh
    <2>. SUFFICES ASSUME SequenceInv, Begin  PROVE next_sequence \notin used
      BY OthersKeepSequence
    <2>1. used = 0 .. next_sequence - 1 /\ next_sequence \in Int
      BY DEF SequenceInv, Begin
    <2>. QED  BY <2>1
  <1>2. Fresh => [Fresh]_sessionVars
    OBVIOUS
  <1>. QED  BY <1>1, <1>2, SequenceInvariant, PTL DEF Spec, NoSequenceReuse

-----------------------------------------------------------------------------
(* The answers in flight and the samples made of them.                     *)

\* The controller's clock does not run backwards.
LEMMA ClockRunsForward ==
    ASSUME rate_ppb \in Rates, NEW h \in Nat, NEW k \in Nat, h <= k
    PROVE  /\ ControllerAt(h) \in Nat /\ ControllerAt(k) \in Nat
           /\ ControllerAt(h) <= ControllerAt(k)
  <1> DEFINE speed == PARTS_PER_BILLION + rate_ppb
  <1>1. /\ PARTS_PER_BILLION \in Nat \ {0} /\ controller_epoch \in Nat
        /\ speed \in Nat \ {0}
    BY SlewAssumption, SessionAssumption
  <1> HIDE DEF speed
  <1>2. ASSUME NEW n \in Nat, NEW d \in Nat \ {0}  PROVE n \div d \in Nat
    OBVIOUS
  <1>3. ASSUME NEW m \in Nat, NEW n \in Nat, NEW d \in Nat \ {0}, m <= n
        PROVE  m \div d <= n \div d
    BY <1>3
  <1>4. h * speed \in Nat /\ k * speed \in Nat /\ h * speed <= k * speed
    BY <1>1
  <1>5. /\ (h * speed) \div PARTS_PER_BILLION \in Nat
        /\ (k * speed) \div PARTS_PER_BILLION \in Nat
        /\ (h * speed) \div PARTS_PER_BILLION <= (k * speed) \div PARTS_PER_BILLION
    BY <1>1, <1>2, <1>3, <1>4
  <1>6. /\ ControllerAt(h) = controller_epoch + (h * speed) \div PARTS_PER_BILLION
        /\ ControllerAt(k) = controller_epoch + (k * speed) \div PARTS_PER_BILLION
    BY DEF ControllerAt, speed
  <1> QED  BY <1>1, <1>5, <1>6

\* What a link delivers, it delivers after it was sent, at most twice.
LEMMA DeliveredLater ==
    ASSUME NEW sent \in Nat, NEW config \in ClockLinkConfig,
           NEW d \in Deliveries(sent, config)
    PROVE  /\ d \in Seq(Nat) /\ Len(d) <= 2
           /\ \A i \in DOMAIN d : sent <= d[i]
  <1> DEFINE once == { <<sent + config.latency_ticks + jitter>> :
                          jitter \in 0 .. config.jitter_ticks }
  <1>1. config.latency_ticks \in Nat /\ config.jitter_ticks \in Nat
    BY DEF ClockLinkConfig
  <1>2. ASSUME NEW e \in once
        PROVE  \E t \in Nat : sent <= t /\ e = <<t>>
    <2>1. PICK jitter \in 0 .. config.jitter_ticks :
             e = <<sent + config.latency_ticks + jitter>>
      OBVIOUS
    <2>2. sent + config.latency_ticks + jitter \in Nat
          /\ sent <= sent + config.latency_ticks + jitter
      BY <1>1
    <2> QED  BY <2>1, <2>2
  <1> HIDE DEF once
  <1>3. d \in once \/ d = <<>> \/ \E e \in once : d = e \o <<e[1] + 1>>
    BY DEF Deliveries, once
  <1>4. CASE d \in once
    <2>1. PICK t \in Nat : sent <= t /\ d = <<t>>
      BY <1>2, <1>4
    <2>2. d \in Seq(Nat) /\ Len(d) = 1 /\ d[1] = t
      BY <2>1
    <2> QED  BY <2>1, <2>2
  <1>5. CASE d = <<>>
    BY <1>5
  <1>6. CASE \E e \in once : d = e \o <<e[1] + 1>>
    <2>1. PICK e \in once : d = e \o <<e[1] + 1>>
      BY <1>6
    <2>2. PICK t \in Nat : sent <= t /\ e = <<t>>
      BY <1>2, <2>1
    <2>3. <<t>> \in Seq(Nat) /\ <<t + 1>> \in Seq(Nat)
          /\ Len(<<t>>) = 1 /\ Len(<<t + 1>>) = 1
      OBVIOUS
    <2>4. e[1] = t
      BY <2>2
    <2>5. d = <<t>> \o <<t + 1>>
      BY <2>1, <2>2, <2>4
    <2>6. /\ d \in Seq(Nat) /\ Len(d) = 2
          /\ \A i \in 1 .. 2 : d[i] = IF i <= 1 THEN <<t>>[i] ELSE <<t + 1>>[i - 1]
      BY <2>3, <2>5, ConcatProperties
    <2>7. d[1] = t /\ d[2] = t + 1
      BY <2>6
    <2> QED  BY <2>2, <2>6, <2>7
  <1> QED  BY <1>3, <1>4, <1>5, <1>6

\* An answer to a request sent at a time, as the controller stamps it.
AnswerTo(sequence, sent) ==
    { a \in Answer : /\ a.sequence = sequence
                     /\ ControllerAt(sent) <= a.controller_receive
                     /\ a.controller_receive <= a.controller_send
                     /\ a.controller_send <= ControllerAt(a.delivered_at) }

\* A request is answered as often as the answer is delivered.
LEMMA AnsweredInOrder ==
    ASSUME rate_ppb \in Rates, NEW sequence \in Nat, NEW sent \in Nat,
           NEW arrival \in Nat, sent <= arrival, NEW b \in Answers(sequence, arrival)
    PROVE  b \in Seq(AnswerTo(sequence, sent))
  <1>1. /\ processing_ticks \in Nat /\ arrival + processing_ticks \in Nat
        /\ response_link \in ClockLinkConfig
    BY SessionAssumption
  <1>2. PICK d \in Deliveries(arrival + processing_ticks, response_link) :
           b = [i \in DOMAIN d |-> [sequence |-> sequence,
                                    controller_receive |-> ControllerAt(arrival),
                                    controller_send |-> ControllerAt(arrival + processing_ticks),
                                    delivered_at |-> d[i]]]
    BY DEF Answers
  <1>3. /\ d \in Seq(Nat)
        /\ \A i \in DOMAIN d : arrival + processing_ticks <= d[i]
    BY <1>1, DeliveredLater
  <1>4. ASSUME NEW i \in DOMAIN d
        PROVE  b[i] \in AnswerTo(sequence, sent)
    <2>1. d[i] \in Nat /\ arrival + processing_ticks <= d[i]
      BY <1>3, <1>4
    <2>2. /\ ControllerAt(sent) <= ControllerAt(arrival)
          /\ ControllerAt(arrival) <= ControllerAt(arrival + processing_ticks)
          /\ ControllerAt(arrival) \in Nat
      BY <1>1, ClockRunsForward
    <2>3. /\ ControllerAt(arrival + processing_ticks) <= ControllerAt(d[i])
          /\ ControllerAt(arrival + processing_ticks) \in Nat
      BY <1>1, <2>1, ClockRunsForward
    <2>4. b[i] = [sequence |-> sequence,
                  controller_receive |-> ControllerAt(arrival),
                  controller_send |-> ControllerAt(arrival + processing_ticks),
                  delivered_at |-> d[i]]
      BY <1>2, <1>4
    <2> QED  BY <2>1, <2>2, <2>3, <2>4 DEF AnswerTo, Answer
  <1>5. DOMAIN d = 1 .. Len(d) /\ Len(d) \in Nat
    BY <1>3
  <1>6. b = [i \in 1 .. Len(d) |-> b[i]]
    BY <1>2, <1>5
  <1> QED  BY <1>4, <1>5, <1>6

\* Whatever becomes of a request, its answers are answers to it.
LEMMA ScheduledAnswers ==
    ASSUME rate_ppb \in Rates, host_now \in Nat, NEW sequence \in Nat,
           NEW answers \in Scheduled(sequence)
    PROVE  answers \in Seq(AnswerTo(sequence, host_now))
  <1>1. CASE answers = <<>>
    BY <1>1
  <1>2. CASE answers # <<>>
    <2>1. PICK arrivals \in Deliveries(host_now, request_link) :
             answers \in IF arrivals = <<>> THEN { <<>> }
                         ELSE IF Len(arrivals) = 1 THEN Answers(sequence, arrivals[1])
                         ELSE { a \o b : a \in Answers(sequence, arrivals[1]),
                                         b \in Answers(sequence, arrivals[2]) }
      BY <1>2 DEF Scheduled
    <2>2. /\ arrivals \in Seq(Nat) /\ Len(arrivals) <= 2
          /\ \A i \in DOMAIN arrivals : host_now <= arrivals[i]
      BY SessionAssumption, DeliveredLater
    <2>3. ASSUME NEW i \in DOMAIN arrivals, NEW a \in Answers(sequence, arrivals[i])
          PROVE  a \in Seq(AnswerTo(sequence, host_now))
      <3>1. arrivals[i] \in Nat /\ host_now <= arrivals[i]
        BY <2>2, <2>3
      <3> QED  BY <2>3, <3>1, AnsweredInOrder
    <2>4. arrivals # <<>>
      BY <1>2, <2>1
    <2>5. 1 \in DOMAIN arrivals
      BY <2>2, <2>4
    <2>6. CASE Len(arrivals) = 1
      BY <2>1, <2>3, <2>4, <2>5, <2>6
    <2>7. CASE Len(arrivals) # 1
      <3>1. 2 \in DOMAIN arrivals
        <4>1. Len(arrivals) \in Nat /\ Len(arrivals) # 0 /\ DOMAIN arrivals = 1 .. Len(arrivals)
          BY <2>2, <2>4, EmptySeq
        <4>2. Len(arrivals) = 2
          BY <4>1, <2>2, <2>7
        <4> QED  BY <4>1, <4>2
      <3>2. PICK a \in Answers(sequence, arrivals[1]), b \in Answers(sequence, arrivals[2]) :
               answers = a \o b
        BY <2>1, <2>4, <2>7
      <3>3. a \in Seq(AnswerTo(sequence, host_now)) /\ b \in Seq(AnswerTo(sequence, host_now))
        BY <2>3, <2>5, <3>1, <3>2
      <3> QED  BY <3>2, <3>3, ConcatProperties
    <2> QED  BY <2>6, <2>7
  <1> QED  BY <1>1, <1>2

-----------------------------------------------------------------------------
(* The estimator's fields.                                                 *)

SyncState ==
    [session_start : Nat \cup {None}, previous : OffsetObservation \cup {None},
     drift : [min_ppb : Int, max_ppb : Int] \cup {None}, last_raw : ClockSample \cup {None}]

\* What a sample that does not run backwards says of the offset.
LEMMA ObservedType ==
    ASSUME NEW sample \in ClockSample, sample.host_send <= sample.host_receive
    PROVE  Observed(sample) \in OffsetObservation
  <1>1. /\ sample.host_send \in Nat /\ sample.host_receive \in Nat
        /\ sample.controller_send \in Nat /\ sample.controller_receive \in Nat
    BY DEF ClockSample
  <1>2. Allowance(sample) \in Int
    <2> DEFINE n == (sample.host_receive - sample.host_send) * max_slew_ppb
               d == 2 * PARTS_PER_BILLION
    <2>1. n \in Int /\ d \in Nat \ {0}
      BY <1>1, SlewAssumption
    <2> HIDE DEF n, d
    <2>2. (-n) \div d \in Int
      BY <2>1
    <2> QED  BY <2>2 DEF Allowance, DivCeil, n, d
  <1>3. (sample.host_receive - sample.host_send) \div 2 \in Nat
    BY <1>1
  <1> QED  BY <1>1, <1>2, <1>3 DEF Observed, OffsetObservation

\* A sample that is accepted becomes the last one; others change nothing.
LEMMA PushedType ==
    ASSUME NEW estimator \in SyncState, NEW sample \in ClockSample
    PROVE  /\ Pushed(estimator, sample) \in SyncState
           /\ Pushed(estimator, sample).last_raw # estimator.last_raw
                => Pushed(estimator, sample).last_raw = sample
  <1> DEFINE now == Observed(sample)
             previous == estimator.previous
  <1>1. CASE ~(Consistent(estimator, sample) /\ Separated(estimator, sample))
    BY <1>1 DEF Pushed
  <1>2. CASE Consistent(estimator, sample) /\ Separated(estimator, sample)
    <2>1. now \in OffsetObservation
      BY <1>2, ObservedType DEF Consistent
    <2>2. CASE previous = None
      <3>1. Pushed(estimator, sample) =
               [session_start |-> now.reference_host, previous |-> now,
                drift |-> estimator.drift, last_raw |-> sample]
        BY <1>2, <2>2 DEF Pushed
      <3>2. now.reference_host \in Nat
        BY <2>1 DEF OffsetObservation
      <3> HIDE DEF now
      <3>3. estimator.drift \in [min_ppb : Int, max_ppb : Int] \cup {None}
        BY DEF SyncState
      <3> QED  BY <3>1, <3>2, <3>3, <2>1 DEF SyncState
    <2>3. CASE previous # None
      <3>1. Pushed(estimator, sample) =
               [session_start |-> estimator.session_start, previous |-> now,
                drift |-> Drift(previous, now), last_raw |-> sample]
        BY <1>2, <2>3 DEF Pushed
      <3>2. Drift(previous, now) \in [min_ppb : Int, max_ppb : Int]
        <4>1. previous \in OffsetObservation /\ previous.reference_host < now.reference_host
          BY <1>2, <2>3 DEF SyncState, Separated
        <4> DEFINE baseline == now.reference_host - previous.reference_host
                   least == (now.offset_min_ticks - previous.offset_max_ticks)
                               * PARTS_PER_BILLION
                   most == (now.offset_max_ticks - previous.offset_min_ticks)
                               * PARTS_PER_BILLION
        <4> HIDE DEF now, previous
        <4>2. baseline \in Nat \ {0} /\ least \in Int /\ most \in Int
          BY <2>1, <4>1, SlewAssumption DEF OffsetObservation
        <4>3. Drift(previous, now) = [min_ppb |-> least \div baseline,
                                      max_ppb |-> -((-most) \div baseline)]
          BY DEF Drift, DivCeil
        <4> HIDE DEF baseline, least, most
        <4>4. least \div baseline \in Int /\ (-most) \div baseline \in Int
          BY <4>2
        <4> QED  BY <4>3, <4>4
      <3> HIDE DEF now, previous
      <3>3. estimator.session_start \in Nat \cup {None}
        BY DEF SyncState
      <3> QED  BY <3>1, <3>2, <3>3, <2>1 DEF SyncState
    <2> QED  BY <2>2, <2>3
  <1> QED  BY <1>1, <1>2

-----------------------------------------------------------------------------
(* Types, and what is in flight.                                           *)

\* Every answer in flight is to a number that was used; it was sent before it
\* will be delivered, and when it is to the exchange that is pending, stamped
\* after the request was sent.
HonestAnswers ==
    { a \in Answer :
        /\ a.sequence \in used
        /\ a.controller_receive <= a.controller_send
        /\ a.controller_send <= ControllerAt(a.delivered_at)
        /\ pending # None /\ a.sequence = pending.sequence =>
              ControllerAt(pending.host_send) <= a.controller_receive }

SessionInv ==
    /\ SequenceInv
    /\ host_now \in Nat /\ rate_ppb \in Rates
    /\ exhausted \in BOOLEAN /\ link_up \in BOOLEAN
    /\ used \subseteq 0 .. LastSequence
    /\ pending \in PendingClockExchange \cup {None}
    /\ pending # None => pending.host_send <= host_now
    /\ sync \in SyncState
    /\ in_flight \in Seq(HonestAnswers) /\ Len(in_flight) <= max_pending

\* The session's variables have the types of their fields.
LEMMA SessionInvIsTyped == SessionInv => SessionTypeOK
  <1> SUFFICES ASSUME SessionInv  PROVE SessionTypeOK
    OBVIOUS
  <1>1. HonestAnswers \subseteq Answer
    BY DEF HonestAnswers
  <1>2. in_flight \in Seq(Answer)
    BY <1>1 DEF SessionInv
  <1>3. /\ sync.last_raw \in ClockSample \cup {None}
        /\ sync.previous \in OffsetObservation \cup {None}
    BY DEF SessionInv, SyncState
  <1> QED  BY <1>2, <1>3 DEF SessionInv, SessionTypeOK, SequenceInv

\* What remains when an answer is taken out.
LEMMA RemovedIsSequence ==
    ASSUME NEW S, NEW s \in Seq(S), NEW k \in DOMAIN s
    PROVE  RemoveAt(s, k) \in Seq(S) /\ Len(RemoveAt(s, k)) <= Len(s)
  <1>1. Len(s) \in Nat /\ k \in 1 .. Len(s)
    OBVIOUS
  <1>2. /\ SubSeq(s, 1, k - 1) \in Seq(S) /\ Len(SubSeq(s, 1, k - 1)) = k - 1
        /\ SubSeq(s, k + 1, Len(s)) \in Seq(S)
        /\ Len(SubSeq(s, k + 1, Len(s))) = Len(s) - k
    BY <1>1, SubSeqProperties
  <1> DEFINE a == SubSeq(s, 1, k - 1)
             b == SubSeq(s, k + 1, Len(s))
  <1>3. RemoveAt(s, k) = a \o b
    BY DEF RemoveAt
  <1> HIDE DEF a, b
  <1>4. a \o b \in Seq(S) /\ Len(a \o b) = Len(a) + Len(b)
    BY <1>2, ConcatProperties DEF a, b
  <1>5. Len(a) = k - 1 /\ Len(b) = Len(s) - k
    BY <1>2 DEF a, b
  <1>6. Len(a \o b) <= Len(s)
    <2>1. (k - 1) + (Len(s) - k) <= Len(s)
      BY <1>1
    <2>2. Len(a \o b) = (k - 1) + (Len(s) - k)
      BY <1>4, <1>5
    <2> QED  BY <2>1, <2>2
  <1> QED  BY <1>3, <1>4, <1>6

\* Answers stay honest while numbers are only added and no exchange begins.
LEMMA AnswersStayHonest ==
    ASSUME used \subseteq used', rate_ppb' = rate_ppb, pending' \in {pending, None}
    PROVE  HonestAnswers \subseteq HonestAnswers'
  <1> SUFFICES ASSUME NEW a \in HonestAnswers  PROVE a \in HonestAnswers'
    OBVIOUS
  <1>1. \A h : ControllerAt(h)' = ControllerAt(h)
    BY DEF ControllerAt
  <1>2. /\ a \in Answer /\ a.sequence \in used'
        /\ a.controller_receive <= a.controller_send
        /\ a.controller_send <= ControllerAt(a.delivered_at)
        /\ pending # None /\ a.sequence = pending.sequence =>
              ControllerAt(pending.host_send) <= a.controller_receive
    BY DEF HonestAnswers
  <1>3. pending' # None => pending' = pending
    OBVIOUS
  <1> QED  BY <1>1, <1>2, <1>3 DEF HonestAnswers, ControllerAt

\* Beginning an exchange: its number is new, so that no answer that is still
\* in flight can be taken for an answer to it.
LEMMA BeginHonest ==
    ASSUME SessionInv, Begin
    PROVE  in_flight' \in Seq(HonestAnswers') /\ Len(in_flight') <= max_pending
           /\ pending' \in PendingClockExchange \cup {None}
           /\ (pending' # None => pending'.host_send <= host_now')
  <1>1. /\ used' = used \cup {next_sequence} /\ rate_ppb' = rate_ppb /\ host_now' = host_now
        /\ pending = None /\ used = 0 .. next_sequence - 1 /\ next_sequence \in Nat
        /\ host_now \in Nat /\ rate_ppb \in Rates /\ max_pending \in Nat
        /\ in_flight \in Seq(HonestAnswers) /\ Len(in_flight) <= max_pending
    BY SessionAssumption DEF Begin, SessionInv, SequenceInv
  <1>2. CASE UNCHANGED <<in_flight, pending>>
    <2>1. HonestAnswers \subseteq HonestAnswers'
      BY <1>1, <1>2, AnswersStayHonest
    <2> QED  BY <1>1, <1>2, <2>1
  <1>3. CASE ~UNCHANGED <<in_flight, pending>>
    <2>1. PICK answers \in Scheduled(next_sequence) :
             /\ Fits(answers) /\ in_flight' = in_flight \o answers
             /\ pending' = [sequence |-> next_sequence, host_send |-> host_now]
      BY <1>3 DEF Begin
    <2>2. answers \in Seq(AnswerTo(next_sequence, host_now))
      BY <1>1, ScheduledAnswers
    <2>3. /\ pending' \in PendingClockExchange
          /\ pending'.sequence = next_sequence /\ pending'.host_send = host_now
      BY <1>1, <2>1 DEF PendingClockExchange
    <2>4. \A h : ControllerAt(h)' = ControllerAt(h)
      BY <1>1 DEF ControllerAt
    <2>5. AnswerTo(next_sequence, host_now) \subseteq HonestAnswers'
      <3> SUFFICES ASSUME NEW a \in AnswerTo(next_sequence, host_now)
                   PROVE  a \in HonestAnswers'
        OBVIOUS
      <3>1. /\ a \in Answer /\ a.sequence \in used'
            /\ a.controller_receive <= a.controller_send
            /\ a.controller_send <= ControllerAt(a.delivered_at)
            /\ ControllerAt(host_now) <= a.controller_receive
        BY <1>1 DEF AnswerTo
      <3> QED  BY <3>1, <2>3, <1>1 DEF HonestAnswers, ControllerAt
    <2>6. HonestAnswers \subseteq HonestAnswers'
      <3> SUFFICES ASSUME NEW a \in HonestAnswers  PROVE a \in HonestAnswers'
        OBVIOUS
      <3>1. /\ a \in Answer /\ a.sequence \in used
            /\ a.controller_receive <= a.controller_send
            /\ a.controller_send <= ControllerAt(a.delivered_at)
        BY DEF HonestAnswers
      <3>2. a.sequence # next_sequence
        BY <3>1, <1>1
      <3> QED  BY <3>1, <3>2, <2>3, <1>1 DEF HonestAnswers, ControllerAt
    <2>7. in_flight \in Seq(HonestAnswers') /\ answers \in Seq(HonestAnswers')
      BY <1>1, <2>2, <2>5, <2>6
    <2>8. in_flight' \in Seq(HonestAnswers') /\ Len(in_flight') = Len(in_flight) + Len(answers)
      BY <2>1, <2>7, ConcatProperties
    <2>9. Len(in_flight) + Len(answers) <= max_pending
      BY <2>1 DEF Fits
    <2> QED  BY <1>1, <2>3, <2>8, <2>9
  <1> QED  BY <1>2, <1>3

\* What accepting an answer does to the estimator.
LEMMA ReceivedSample ==
    ASSUME SessionInv, Receive
    PROVE  /\ sync' \in SyncState
           /\ sync'.last_raw # sync.last_raw =>
                 \E a \in HonestAnswers :
                    /\ a.delivered_at <= host_now /\ Awaited(a) /\ ~TimedOut
                    /\ sync'.last_raw = SampleOf(a)
  <1>1. sync \in SyncState
    BY DEF SessionInv
  <1>2. CASE sync' = sync
    BY <1>1, <1>2
  <1>3. CASE sync' # sync
    <2>1. PICK k \in DOMAIN in_flight :
             /\ IsNextDue(k) /\ Awaited(in_flight[k]) /\ ~TimedOut
             /\ sync' = Pushed(sync, SampleOf(in_flight[k]))
      BY <1>3 DEF Receive
    <2> DEFINE a == in_flight[k]
    <2>2. a \in HonestAnswers
      BY DEF SessionInv
    <2>3. a.delivered_at <= host_now
      BY <2>1 DEF IsNextDue
    <2>4. SampleOf(a) \in ClockSample
      <3>1. a \in Answer
        BY <2>2 DEF HonestAnswers
      <3>2. pending \in PendingClockExchange /\ host_now \in Nat
        BY <2>1 DEF Awaited, SessionInv
      <3> HIDE DEF a
      <3> QED  BY <3>1, <3>2 DEF SampleOf, ClockSample, Answer, PendingClockExchange
    <2> HIDE DEF a
    <2>5. sync' = Pushed(sync, SampleOf(a)) /\ Awaited(a) /\ ~TimedOut
      BY <2>1 DEF a
    <2>6. sync' \in SyncState /\ (sync'.last_raw # sync.last_raw => sync'.last_raw = SampleOf(a))
      BY <1>1, <2>4, <2>5, PushedType
    <2> QED  BY <2>2, <2>3, <2>5, <2>6
  <1> QED  BY <1>2, <1>3

\* A session starts that way.
LEMMA SessionInvInit == Init => SessionInv
  <1> SUFFICES ASSUME Init  PROVE SessionInv
    OBVIOUS
  <1>1. SequenceInv
    BY SessionAssumption DEF Init, SequenceInv
  <1>2. sync \in SyncState
    BY DEF Init, NoSync, SyncState
  <1>3. in_flight \in Seq(HonestAnswers) /\ Len(in_flight) <= max_pending
    BY SessionAssumption DEF Init
  <1> QED  BY <1>1, <1>2, <1>3 DEF Init, SessionInv

\* Every action of the session and of its link keeps it that way.
LEMMA SessionInvStep ==
    ASSUME SessionInv, [Next]_sessionVars
    PROVE  SessionInv'
  <1>1. SequenceInv'
    BY SequenceInvStep DEF SessionInv
  <1>2. CASE Begin
    <2>1. /\ host_now' = host_now /\ rate_ppb' = rate_ppb /\ sync' = sync /\ link_up' = link_up
          /\ exhausted' \in BOOLEAN /\ used' \subseteq 0 .. LastSequence
      BY <1>2 DEF Begin, SessionInv, SequenceInv
    <2> QED  BY <1>1, <1>2, <2>1, BeginHonest DEF SessionInv
  <1>3. CASE ~Begin
    <2>1. /\ used \subseteq used' /\ rate_ppb' = rate_ppb /\ pending' \in {pending, None}
          /\ host_now' \in {host_now, host_now + 1}
          /\ exhausted' = exhausted /\ link_up' \in BOOLEAN /\ used' = used
      BY <1>3 DEF Next, Advance, Receive, Expire, DropLink, RestoreLink, sessionVars, session,
                  link, SessionInv
    <2>2. HonestAnswers \subseteq HonestAnswers'
      BY <2>1, AnswersStayHonest
    <2>3. sync' \in SyncState
      <3>1. Receive \/ sync' = sync
        BY <1>3 DEF Next, Advance, Expire, DropLink, RestoreLink, sessionVars, session, link
      <3> QED  BY <3>1, ReceivedSample DEF SessionInv
    <2>4. in_flight' \in Seq(HonestAnswers) /\ Len(in_flight') <= max_pending
      <3>1. in_flight \in Seq(HonestAnswers) /\ Len(in_flight) <= max_pending
            /\ max_pending \in Nat
        BY SessionAssumption DEF SessionInv
      <3>2. CASE Receive
        <4>1. PICK k \in DOMAIN in_flight : in_flight' = RemoveAt(in_flight, k)
          BY <3>2 DEF Receive
        <4>2. /\ RemoveAt(in_flight, k) \in Seq(HonestAnswers)
              /\ Len(RemoveAt(in_flight, k)) <= Len(in_flight)
          BY <3>1, RemovedIsSequence
        <4>3. Len(in_flight) \in Nat /\ Len(in_flight') \in Nat
          BY <3>1, <4>1, <4>2
        <4> QED  BY <3>1, <4>1, <4>2, <4>3
      <3>3. CASE ~Receive
        <4>1. in_flight' \in {in_flight, <<>>}
          BY <1>3, <3>3
             DEF Next, Advance, Expire, DropLink, RestoreLink, sessionVars, session, link
        <4>2. CASE in_flight' = in_flight
          BY <2>2, <3>1, <4>2
        <4>3. CASE in_flight' = <<>>
          BY <3>1, <4>3
        <4> QED  BY <4>1, <4>2, <4>3
      <3> QED  BY <3>2, <3>3
    <2>5. pending' # None => pending'.host_send <= host_now'
      BY <2>1 DEF SessionInv, PendingClockExchange
    <2>6. host_now' \in Nat
      BY <2>1 DEF SessionInv
    <2> QED  BY <1>1, <2>1, <2>2, <2>3, <2>4, <2>5, <2>6 DEF SessionInv
  <1> QED  BY <1>2, <1>3

\* The session always holds what its fields may hold.
LEMMA SessionInvariant == Spec => []SessionInv
  BY SessionInvInit, SessionInvStep, PTL DEF Spec

\* The variables of a session and its link have the types of their fields, and
\* the link's queue of answers keeps to its bound (ClockSession, send_request).
THEOREM SessionTyped == Spec => []SessionTypeOK
  BY SessionInvIsTyped, SessionInvariant, PTL

\* What the estimator is given is the round trip of one request: the stamps of
\* an answer to that request, taken between its departure and the arrival of
\* the answer, within the timeout (accept_response).
THEOREM RoundTrips == Spec => SamplesAreRoundTrips
  <1> DEFINE RoundTrip ==
        sync'.last_raw # sync.last_raw =>
          LET s == sync'.last_raw IN
          /\ s.host_send = pending.host_send
          /\ s.host_receive - s.host_send < timeout_ticks
          /\ ControllerAt(s.host_send) <= s.controller_receive
          /\ s.controller_send <= ControllerAt(s.host_receive)
  <1>1. SessionInv /\ [Next]_sessionVars => RoundTrip
    <2> SUFFICES ASSUME SessionInv, [Next]_sessionVars, sync'.last_raw # sync.last_raw
                 PROVE  LET s == sync'.last_raw IN
                        /\ s.host_send = pending.host_send
                        /\ s.host_receive - s.host_send < timeout_ticks
                        /\ ControllerAt(s.host_send) <= s.controller_receive
                        /\ s.controller_send <= ControllerAt(s.host_receive)
      OBVIOUS
    <2>1. Receive
      BY DEF Next, Advance, Begin, Expire, DropLink, RestoreLink, sessionVars, session, link
    <2>2. PICK a \in HonestAnswers :
             /\ a.delivered_at <= host_now /\ Awaited(a) /\ ~TimedOut
             /\ sync'.last_raw = SampleOf(a)
      BY <2>1, ReceivedSample
    <2>3. /\ a \in Answer /\ a.controller_send <= ControllerAt(a.delivered_at)
          /\ ControllerAt(pending.host_send) <= a.controller_receive
      BY <2>2 DEF HonestAnswers, Awaited
    <2>4. /\ pending.host_send \in Nat /\ host_now \in Nat /\ rate_ppb \in Rates
          /\ timeout_ticks \in Nat
      BY <2>2, SessionAssumption DEF SessionInv, Awaited, PendingClockExchange
    <2>5. host_now - pending.host_send < timeout_ticks
      BY <2>2, <2>4 DEF TimedOut
    <2>6. a.delivered_at \in Nat /\ a.controller_send \in Nat
      BY <2>3 DEF Answer
    <2>7. /\ ControllerAt(a.delivered_at) \in Nat /\ ControllerAt(host_now) \in Nat
          /\ ControllerAt(a.delivered_at) <= ControllerAt(host_now)
      BY <2>2, <2>4, <2>6, ClockRunsForward
    <2>8. a.controller_send <= ControllerAt(host_now)
      BY <2>3, <2>6, <2>7
    <2> QED  BY <2>2, <2>3, <2>5, <2>8 DEF SampleOf
  <1>2. RoundTrip => [RoundTrip]_sessionVars
    OBVIOUS
  <1> QED  BY <1>1, <1>2, SessionInvariant, PTL DEF Spec, SamplesAreRoundTrips

-----------------------------------------------------------------------------
(* Clocks that keep to a slew bound, and integer division.                 *)

\* Integer division, by what it is used for.
LEMMA Floors ==
    ASSUME NEW n \in Int, NEW d \in Nat \ {0}
    PROVE  /\ n \div d \in Int
           /\ (n \div d) * d <= n /\ n < (n \div d + 1) * d
  <1>1. n \div d \in Int
    OBVIOUS
  <1>2. d * (n \div d) <= n
    OBVIOUS
  <1>3. n < (n \div d + 1) * d
    OBVIOUS
  <1> QED  BY <1>1, <1>2, <1>3

\* Rounding up, likewise.
LEMMA Ceilings ==
    ASSUME NEW n \in Int, NEW d \in Nat \ {0}
    PROVE  DivCeil(n, d) \in Int /\ n <= DivCeil(n, d) * d
  <1>1. -n \in Int
    OBVIOUS
  <1>2. (-n) \div d \in Int /\ ((-n) \div d) * d <= -n
    BY <1>1, Floors
  <1>3. \A q \in Int : q * d <= -n => n <= (-q) * d
    OBVIOUS
  <1> QED  BY <1>2, <1>3 DEF DivCeil

\* Multiplied by something positive, numbers compare as before.
LEMMA Cancelled ==
    ASSUME NEW k \in Int, NEW l \in Int, NEW d \in Nat \ {0}, k * d < l * d
    PROVE  k < l
  OBVIOUS

\* Multiplied by something not negative, their order remains.
LEMMA ScaledOrder ==
    ASSUME NEW k \in Int, NEW l \in Int, NEW m \in Nat, k <= l
    PROVE  k * m <= l * m
  OBVIOUS

\* Of two readings of a clock that gains r parts in D, |r| <= m.
LEMMA Pace ==
    ASSUME NEW D \in Nat \ {0}, NEW m \in Nat, NEW r \in Int, -m <= r, r <= m,
           NEW a \in Int, NEW b \in Int, a <= b
    PROVE  LET x == (a * (D + r)) \div D
               y == (b * (D + r)) \div D
               n == (y - b) - (x - a)
           IN  /\ x \in Int /\ y \in Int
               /\ (n - 1) * D < (b - a) * m
               /\ (-n - 1) * D < (b - a) * m
  <1> DEFINE x == (a * (D + r)) \div D
             y == (b * (D + r)) \div D
             n == (y - b) - (x - a)
  <1>1. a * (D + r) \in Int /\ b * (D + r) \in Int
    OBVIOUS
  <1>2. /\ x \in Int /\ x * D <= a * (D + r) /\ a * (D + r) < (x + 1) * D
        /\ y \in Int /\ y * D <= b * (D + r) /\ b * (D + r) < (y + 1) * D
    BY <1>1, Floors
  <1> HIDE DEF x, y
  <1>3. (b - a) * r <= (b - a) * m /\ -((b - a) * r) <= (b - a) * m
    <2>1. \A u \in Nat : u * r <= u * m /\ -(u * r) <= u * m
      OBVIOUS
    <2> QED  BY <2>1
  <1>4. (n - 1) * D = y * D - (x + 1) * D - (b - a) * D
    BY <1>2
  <1>5. (-n - 1) * D = x * D - (y + 1) * D + (b - a) * D
    BY <1>2
  <1>6. b * (D + r) - a * (D + r) = (b - a) * D + (b - a) * r
    OBVIOUS
  <1>7. (n - 1) * D < (b - a) * r /\ (-n - 1) * D < -((b - a) * r)
    BY <1>2, <1>4, <1>5, <1>6
  <1>8. (n - 1) * D < (b - a) * m /\ (-n - 1) * D < (b - a) * m
    <2>1. n \in Int /\ (n - 1) * D \in Int /\ (-n - 1) * D \in Int
          /\ (b - a) * r \in Int /\ (b - a) * m \in Int
      BY <1>2
    <2> QED  BY <1>3, <1>7, <2>1
  <1> QED  BY <1>2, <1>8 DEF x, y

\* The clocks differ in rate by no more than the estimator was told, and that
\* is not more than twice the speed.
KeepsToSlew ==
    /\ \A r \in Rates : -max_slew_ppb <= r /\ r <= max_slew_ppb
    /\ max_slew_ppb <= 2 * PARTS_PER_BILLION

\* What the controller's clock gains on the host's.
Gained(a, b) == (ControllerAt(b) - b) - (ControllerAt(a) - a)

\* Rounding down each time, the clocks gain less than a tick more on each other
\* than the slew allows.
LEMMA ClockKeepsPace ==
    ASSUME KeepsToSlew, rate_ppb \in Rates, NEW a \in Int, NEW b \in Int, a <= b
    PROVE  /\ ControllerAt(a) \in Int /\ ControllerAt(b) \in Int
           /\ (Gained(a, b) - 1) * PARTS_PER_BILLION < (b - a) * max_slew_ppb
           /\ (-Gained(a, b) - 1) * PARTS_PER_BILLION < (b - a) * max_slew_ppb
  <1> DEFINE x == (a * (PARTS_PER_BILLION + rate_ppb)) \div PARTS_PER_BILLION
             y == (b * (PARTS_PER_BILLION + rate_ppb)) \div PARTS_PER_BILLION
             n == (y - b) - (x - a)
  <1>1. /\ PARTS_PER_BILLION \in Nat \ {0} /\ max_slew_ppb \in Nat /\ controller_epoch \in Nat
        /\ rate_ppb \in Int /\ -max_slew_ppb <= rate_ppb /\ rate_ppb <= max_slew_ppb
    BY SlewAssumption, SessionAssumption DEF KeepsToSlew
  <1>2. /\ x \in Int /\ y \in Int
        /\ (n - 1) * PARTS_PER_BILLION < (b - a) * max_slew_ppb
        /\ (-n - 1) * PARTS_PER_BILLION < (b - a) * max_slew_ppb
    BY <1>1, Pace
  <1>3. ControllerAt(a) = controller_epoch + x /\ ControllerAt(b) = controller_epoch + y
    BY DEF ControllerAt
  <1> HIDE DEF x, y
  <1>4. Gained(a, b) = n /\ ControllerAt(a) \in Int /\ ControllerAt(b) \in Int
    BY <1>1, <1>2, <1>3 DEF Gained
  <1> QED  BY <1>2, <1>4

\* The order of two times does not matter for how far the clocks move apart.
LEMMA ClocksMoveApart ==
    ASSUME KeepsToSlew, rate_ppb \in Rates, NEW a \in Int, NEW b \in Int,
           NEW u \in Nat, b - a <= u, a - b <= u
    PROVE  /\ ControllerAt(a) \in Int /\ ControllerAt(b) \in Int
           /\ (Gained(a, b) - 1) * PARTS_PER_BILLION < u * max_slew_ppb
  <1>1. PARTS_PER_BILLION \in Nat \ {0} /\ max_slew_ppb \in Nat
    BY SlewAssumption
  <1>2. CASE a <= b
    <2>1. /\ ControllerAt(a) \in Int /\ ControllerAt(b) \in Int
          /\ (Gained(a, b) - 1) * PARTS_PER_BILLION < (b - a) * max_slew_ppb
      BY <1>2, ClockKeepsPace
    <2>2. (b - a) * max_slew_ppb <= u * max_slew_ppb
      BY <1>1, ScaledOrder
    <2>3. /\ (Gained(a, b) - 1) * PARTS_PER_BILLION \in Int
          /\ (b - a) * max_slew_ppb \in Int /\ u * max_slew_ppb \in Int
      BY <1>1, <2>1 DEF Gained
    <2> QED  BY <2>1, <2>2, <2>3
  <1>3. CASE b <= a
    <2>1. /\ ControllerAt(a) \in Int /\ ControllerAt(b) \in Int
          /\ (-Gained(b, a) - 1) * PARTS_PER_BILLION < (a - b) * max_slew_ppb
      BY <1>3, ClockKeepsPace
    <2>2. (a - b) * max_slew_ppb <= u * max_slew_ppb
      BY <1>1, ScaledOrder
    <2>3. -Gained(b, a) = Gained(a, b)
      BY <2>1 DEF Gained
    <2>4. /\ (Gained(a, b) - 1) * PARTS_PER_BILLION \in Int
          /\ (a - b) * max_slew_ppb \in Int /\ u * max_slew_ppb \in Int
      BY <1>1, <2>1 DEF Gained
    <2> QED  BY <2>1, <2>2, <2>3, <2>4
  <1> QED  BY <1>2, <1>3

\* The sample of an exchange with a controller whose clock keeps to the slew.
RoundTripOf(s) ==
    /\ s.host_send <= s.host_receive
    /\ ControllerAt(s.host_send) <= s.controller_receive
    /\ s.controller_receive <= s.controller_send
    /\ s.controller_send <= ControllerAt(s.host_receive)

\* What a sample allows for covers the slew of its exchange.
LEMMA AllowanceCovers ==
    ASSUME NEW s \in ClockSample, s.host_send <= s.host_receive
    PROVE  /\ Allowance(s) \in Int
           /\ (s.host_receive - s.host_send) * max_slew_ppb
                <= Allowance(s) * (2 * PARTS_PER_BILLION)
  <1> DEFINE n == (s.host_receive - s.host_send) * max_slew_ppb
             d == 2 * PARTS_PER_BILLION
  <1>1. n \in Int /\ d \in Nat \ {0}
    BY SlewAssumption DEF ClockSample
  <1> HIDE DEF n, d
  <1>2. DivCeil(n, d) \in Int /\ n <= DivCeil(n, d) * d
    BY <1>1, Ceilings
  <1> QED  BY <1>2 DEF Allowance, n, d

\* Its offset interval is not empty.
LEMMA OffsetsMeet ==
    ASSUME KeepsToSlew, rate_ppb \in Rates, NEW s \in ClockSample, RoundTripOf(s)
    PROVE  Observed(s).offset_min_ticks <= Observed(s).offset_max_ticks
  <1> DEFINE g == Gained(s.host_send, s.host_receive)
             e == s.host_receive - s.host_send
             A == Allowance(s)
             D == PARTS_PER_BILLION
             m == max_slew_ppb
  <1>1. /\ s.host_send \in Nat /\ s.host_receive \in Nat
        /\ s.controller_send \in Nat /\ s.controller_receive \in Nat
    BY DEF ClockSample
  <1>2. D \in Nat \ {0} /\ m \in Nat /\ e \in Nat
    BY <1>1, SlewAssumption DEF RoundTripOf
  <1>3. /\ ControllerAt(s.host_send) \in Int /\ ControllerAt(s.host_receive) \in Int
        /\ (g - 1) * D < e * m
    BY <1>1, ClockKeepsPace DEF RoundTripOf
  <1>4. A \in Int /\ e * m <= A * (2 * D)
    BY AllowanceCovers DEF RoundTripOf
  <1>5. g = (ControllerAt(s.host_receive) - s.host_receive)
              - (ControllerAt(s.host_send) - s.host_send)
    BY DEF Gained
  <1>6. g \in Int
    BY <1>1, <1>3, <1>5
  <1>7. g - 1 < 2 * A
    <2> HIDE DEF g, e, A, D, m
    <2>1. (g - 1) * D \in Int /\ e * m \in Int /\ A * (2 * D) = (2 * A) * D
          /\ (2 * A) * D \in Int
      BY <1>2, <1>4, <1>6
    <2>2. (g - 1) * D < (2 * A) * D
      BY <1>3, <1>4, <2>1
    <2> QED  BY <1>2, <1>4, <1>6, <2>2, Cancelled
  <1>8. /\ Observed(s).offset_min_ticks = s.controller_send - s.host_receive - A
        /\ Observed(s).offset_max_ticks = s.controller_receive - s.host_send + A
    BY DEF Observed
  <1> HIDE DEF g, e, A, D, m
  <1> QED  BY <1>1, <1>3, <1>4, <1>5, <1>6, <1>7, <1>8 DEF RoundTripOf

-----------------------------------------------------------------------------
(* The estimator, for a controller that keeps to the slew bound.           *)

\* The estimator has nothing, or the round trip of an earlier exchange.
EstimateHolds ==
    \/ sync = NoSync
    \/ /\ sync.session_start \in Nat
       /\ sync.last_raw \in ClockSample
       /\ sync.previous = Observed(sync.last_raw)
       /\ RoundTripOf(sync.last_raw)
       /\ sync.last_raw.host_receive <= host_now
       /\ pending # None => sync.last_raw.host_receive <= pending.host_send

EstimateInv == SessionInv /\ EstimateHolds

\* An estimator that takes a sample observes it; the session starts with the
\* first.
LEMMA PushedObserves ==
    ASSUME NEW estimator, NEW sample, Pushed(estimator, sample) # estimator
    PROVE  /\ Consistent(estimator, sample)
           /\ Pushed(estimator, sample).last_raw = sample
           /\ Pushed(estimator, sample).previous = Observed(sample)
           /\ Pushed(estimator, sample).session_start =
                 IF estimator.previous = None THEN Observed(sample).reference_host
                                              ELSE estimator.session_start
  <1>1. Consistent(estimator, sample) /\ Separated(estimator, sample)
    BY DEF Pushed
  <1> QED  BY <1>1 DEF Pushed

\* The answer a session waits for and gets is a round trip.
LEMMA AwaitedIsRoundTrip ==
    ASSUME SessionInv, NEW a \in HonestAnswers, a.delivered_at <= host_now, Awaited(a)
    PROVE  /\ SampleOf(a) \in ClockSample
           /\ RoundTripOf(SampleOf(a))
  <1>1. /\ pending \in PendingClockExchange /\ host_now \in Nat /\ rate_ppb \in Rates
        /\ pending.host_send <= host_now
    BY DEF Awaited, SessionInv
  <1>2. /\ a \in Answer /\ a.controller_receive <= a.controller_send
        /\ a.controller_send <= ControllerAt(a.delivered_at)
        /\ ControllerAt(pending.host_send) <= a.controller_receive
    BY DEF HonestAnswers, Awaited
  <1>3. a.delivered_at \in Nat /\ a.controller_send \in Nat /\ a.controller_receive \in Nat
    BY <1>2 DEF Answer
  <1>4. /\ ControllerAt(a.delivered_at) \in Nat /\ ControllerAt(host_now) \in Nat
        /\ ControllerAt(a.delivered_at) <= ControllerAt(host_now)
    BY <1>1, <1>3, ClockRunsForward
  <1>5. a.controller_send <= ControllerAt(host_now)
    BY <1>2, <1>3, <1>4
  <1>6. SampleOf(a) \in ClockSample
    BY <1>1, <1>3 DEF SampleOf, ClockSample, PendingClockExchange
  <1>7. RoundTripOf(SampleOf(a))
    BY <1>1, <1>2, <1>5 DEF SampleOf, RoundTripOf
  <1> QED  BY <1>6, <1>7

\* Every step keeps it.
LEMMA EstimateInvStep ==
    ASSUME EstimateInv, [Next]_sessionVars
    PROVE  EstimateInv'
  <1>1. SessionInv'
    BY SessionInvStep DEF EstimateInv
  <1>2. /\ host_now \in Nat /\ host_now' \in Nat /\ host_now <= host_now' /\ rate_ppb' = rate_ppb
    BY DEF EstimateInv, SessionInv, Next, Advance, Begin, Receive, Expire, DropLink, RestoreLink,
           sessionVars, session, link
  <1>3. \A h : ControllerAt(h)' = ControllerAt(h)
    BY <1>2 DEF ControllerAt
  <1>4. CASE sync' = sync
    <2>1. CASE sync = NoSync
      BY <1>4, <2>1, <1>1 DEF EstimateInv, EstimateHolds
    <2>2. CASE sync # NoSync
      <3>1. /\ sync.session_start \in Nat /\ sync.last_raw \in ClockSample
            /\ sync.previous = Observed(sync.last_raw) /\ RoundTripOf(sync.last_raw)
            /\ sync.last_raw.host_receive <= host_now
            /\ pending # None => sync.last_raw.host_receive <= pending.host_send
        BY <2>2 DEF EstimateInv, EstimateHolds
      <3>2. sync.last_raw.host_receive \in Nat
        BY <3>1 DEF ClockSample
      <3>3. sync.last_raw.host_receive <= host_now'
        BY <1>2, <3>1, <3>2
      <3>4. pending' # None => pending' = pending \/ pending'.host_send = host_now
        BY DEF Next, Advance, Begin, Receive, Expire, DropLink, RestoreLink, sessionVars, session,
               link
      <3>5. pending' # None => sync.last_raw.host_receive <= pending'.host_send
        BY <3>1, <3>4
      <3>6. RoundTripOf(sync.last_raw)'
        BY <1>4, <3>1, <1>3 DEF RoundTripOf
      <3>7. EstimateHolds'
        BY <1>4, <3>1, <3>3, <3>5, <3>6 DEF EstimateHolds
      <3> QED  BY <1>1, <3>7 DEF EstimateInv
    <2> QED  BY <2>1, <2>2
  <1>5. CASE sync' # sync
    <2>1. Receive
      BY <1>5 DEF Next, Advance, Begin, Expire, DropLink, RestoreLink, sessionVars, session, link
    <2>2. PICK k \in DOMAIN in_flight :
             /\ IsNextDue(k) /\ Awaited(in_flight[k]) /\ pending' = None
             /\ sync' = Pushed(sync, SampleOf(in_flight[k]))
      BY <1>5, <2>1 DEF Receive
    <2> DEFINE a == in_flight[k]
               s == SampleOf(a)
    <2>3. a \in HonestAnswers /\ a.delivered_at <= host_now /\ Awaited(a)
      BY <2>2 DEF EstimateInv, SessionInv, IsNextDue
    <2>4. sync' = Pushed(sync, s)
      BY <2>2
    <2> HIDE DEF a
    <2>5. s \in ClockSample /\ RoundTripOf(s) /\ s.host_receive = host_now
      BY <2>3, AwaitedIsRoundTrip DEF EstimateInv, SampleOf
    <2> HIDE DEF s
    <2>6. /\ sync'.last_raw = s /\ sync'.previous = Observed(s)
          /\ sync'.session_start = IF sync.previous = None THEN Observed(s).reference_host
                                                           ELSE sync.session_start
      BY <1>5, <2>4, PushedObserves
    <2>7. sync'.session_start \in Nat
      <3>1. Observed(s).reference_host \in Nat
        BY <2>5, ObservedType DEF RoundTripOf, OffsetObservation
      <3>2. sync.previous # None => sync.session_start \in Nat
        BY DEF EstimateInv, EstimateHolds, NoSync
      <3> QED  BY <2>6, <3>1, <3>2
    <2>8. RoundTripOf(sync.last_raw)'
      BY <2>5, <2>6, <1>3 DEF RoundTripOf
    <2>9. sync'.last_raw.host_receive <= host_now'
      BY <1>2, <2>5, <2>6
    <2>10. EstimateHolds'
      BY <2>2, <2>5, <2>6, <2>7, <2>8, <2>9 DEF EstimateHolds
    <2> QED  BY <1>1, <2>10 DEF EstimateInv
  <1> QED  BY <1>4, <1>5

\* It holds throughout.
LEMMA EstimateInvariant == Spec => []EstimateInv
  <1>1. Init => EstimateInv
    BY SessionInvInit DEF Init, EstimateInv, EstimateHolds
  <1> QED  BY <1>1, EstimateInvStep, PTL DEF Spec


\* The estimator finds no fault with an answer that comes in time from a
\* controller whose clock keeps to the slew bound (push).
THEOREM HonestCounted == ASSUME KeepsToSlew  PROVE Spec => []HonestAnswersCount
  <1>1. EstimateInv => HonestAnswersCount
    <2> SUFFICES ASSUME EstimateInv, NEW k \in DOMAIN in_flight,
                        IsNextDue(k), Awaited(in_flight[k]), ~TimedOut
                 PROVE  Consistent(sync, SampleOf(in_flight[k]))
      BY DEF HonestAnswersCount
    <2> DEFINE a == in_flight[k]
               s == SampleOf(a)
    <2>1. a \in HonestAnswers /\ a.delivered_at <= host_now /\ Awaited(a)
      BY DEF EstimateInv, SessionInv, IsNextDue
    <2> HIDE DEF a
    <2>2. s \in ClockSample /\ RoundTripOf(s)
      BY <2>1, AwaitedIsRoundTrip DEF EstimateInv
    <2>3. /\ s.host_send = pending.host_send /\ s.host_receive = host_now
          /\ DOMAIN s = {"host_send", "controller_receive", "controller_send", "host_receive"}
      BY DEF SampleOf
    <2>4. pending # None /\ rate_ppb \in Rates /\ host_now \in Nat
      BY <2>1 DEF Awaited, EstimateInv, SessionInv
    <2> HIDE DEF s
    <2>5. Observed(s).offset_min_ticks <= Observed(s).offset_max_ticks
      BY <2>2, <2>4, OffsetsMeet
    <2>6. sync.last_raw # None => \A f \in DOMAIN s : sync.last_raw[f] <= s[f]
      <3> SUFFICES ASSUME sync.last_raw # None
                   PROVE  \A f \in DOMAIN s : sync.last_raw[f] <= s[f]
        OBVIOUS
      <3> DEFINE l == sync.last_raw
      <3>1. /\ l \in ClockSample /\ RoundTripOf(l)
            /\ l.host_receive <= host_now /\ l.host_receive <= pending.host_send
        BY <2>4 DEF EstimateInv, EstimateHolds, NoSync
      <3> HIDE DEF l
      <3>2. /\ l.host_send \in Nat /\ l.host_receive \in Nat
            /\ l.controller_receive \in Nat /\ l.controller_send \in Nat
            /\ s.host_send \in Nat /\ s.host_receive \in Nat
            /\ s.controller_receive \in Nat /\ s.controller_send \in Nat
        BY <2>2, <3>1 DEF ClockSample
      <3>3. l.host_receive <= s.host_send
        BY <2>3, <3>1
      <3>4. /\ ControllerAt(l.host_receive) \in Nat /\ ControllerAt(s.host_send) \in Nat
            /\ ControllerAt(l.host_receive) <= ControllerAt(s.host_send)
        BY <2>4, <3>2, <3>3, ClockRunsForward
      <3>5. l.host_send <= s.host_send /\ l.host_receive <= s.host_receive
        BY <2>2, <3>1, <3>2, <3>3 DEF RoundTripOf
      <3>6. l.controller_receive <= s.controller_receive
            /\ l.controller_send <= s.controller_send
        BY <2>2, <3>1, <3>2, <3>4 DEF RoundTripOf
      <3>7. \A f \in DOMAIN s : l[f] <= s[f]
        BY <2>3, <3>5, <3>6
      <3> QED  BY <3>7 DEF l
    <2>7. Consistent(sync, s)
      BY <2>2, <2>5, <2>6 DEF Consistent, RoundTripOf
    <2> QED  BY <2>7 DEF s, a
  <1> QED  BY <1>1, EstimateInvariant, PTL

\* The wider of the measured and the configured bounds.
LEMMA BoundsCoverSlew ==
    ASSUME sync.drift \in [min_ppb : Int, max_ppb : Int]
    PROVE  LET bounds == DriftBounds(sync)
           IN  /\ bounds[1] \in Int /\ bounds[1] <= -max_slew_ppb
               /\ bounds[2] \in Int /\ max_slew_ppb <= bounds[2]
  <1>1. sync.drift.min_ppb \in Int /\ sync.drift.max_ppb \in Int /\ max_slew_ppb \in Nat
    BY SlewAssumption
  <1>2. ASSUME NEW x \in Int, NEW y \in Int
        PROVE  /\ Min({x, y}) \in Int /\ Min({x, y}) <= y
               /\ Max({x, y}) \in Int /\ y <= Max({x, y})
    <2>1. \E z \in {x, y} : \A w \in {x, y} : z <= w
      <3>1. x <= y \/ y <= x
        OBVIOUS
      <3> QED  BY <3>1
    <2>2. \E z \in {x, y} : \A w \in {x, y} : z >= w
      <3>1. x <= y \/ y <= x
        OBVIOUS
      <3> QED  BY <3>1
    <2>3. Min({x, y}) \in {x, y} /\ \A w \in {x, y} : Min({x, y}) <= w
      BY <2>1 DEF Min
    <2>4. Max({x, y}) \in {x, y} /\ \A w \in {x, y} : Max({x, y}) >= w
      BY <2>2 DEF Max
    <2> QED  BY <2>3, <2>4
  <1>3. -max_slew_ppb \in Int
    BY <1>1
  <1>4. /\ Min({sync.drift.min_ppb, -max_slew_ppb}) \in Int
        /\ Min({sync.drift.min_ppb, -max_slew_ppb}) <= -max_slew_ppb
    BY <1>1, <1>2, <1>3, SMTT(30)
  <1>5. /\ Max({sync.drift.max_ppb, max_slew_ppb}) \in Int
        /\ max_slew_ppb <= Max({sync.drift.max_ppb, max_slew_ppb})
    BY <1>1, <1>2, SMTT(30)
  <1> QED  BY <1>4, <1>5 DEF DriftBounds


\* What two clocks gain on each other up to the end of an exchange, of whose
\* length half a tick is lost in halving it, the widened window makes good.
LEMMA WindowBelow ==
    ASSUME NEW D \in Nat \ {0}, NEW m \in Nat, NEW u \in Nat, NEW e \in Nat, NEW v \in Nat,
           NEW g \in Int, NEW q \in Int, NEW A \in Int,
           (g - 1) * D < v * m, 2 * v <= 2 * u + e + 1,
           q * D <= -(u * m), e * m <= A * (2 * D), m <= 2 * D
    PROVE  g <= A - q + 1
  <1>1. (2 * v) * m <= (2 * u + e + 1) * m
    BY ScaledOrder
  <1>2. (2 * v) * m = 2 * (v * m) /\ (2 * u + e + 1) * m = 2 * (u * m) + e * m + m
    OBVIOUS
  <1>3. /\ v * m \in Int /\ u * m \in Int /\ e * m \in Int /\ q * D \in Int
        /\ (g - 1) * D \in Int /\ A * (2 * D) = 2 * (A * D) /\ A * D \in Int
    OBVIOUS
  <1>4. 2 * ((g - 1) * D) < 2 * (A * D) - 2 * (q * D) + 2 * D
    BY <1>1, <1>2, <1>3
  <1>5. 2 * (A * D) - 2 * (q * D) + 2 * D = 2 * ((A - q + 1) * D)
    OBVIOUS
  <1>6. (g - 1) * D < (A - q + 1) * D
    <2>1. (A - q + 1) * D \in Int
      OBVIOUS
    <2> QED  BY <1>3, <1>4, <1>5, <2>1
  <1>7. g - 1 < A - q + 1
    BY <1>6, Cancelled
  <1> QED  BY <1>7

\* From the start of the exchange on nothing is lost.
LEMMA WindowAbove ==
    ASSUME NEW D \in Nat \ {0}, NEW m \in Nat, NEW u \in Nat, NEW e \in Nat, NEW v \in Nat,
           NEW g \in Int, NEW q \in Int, NEW A \in Int,
           (g - 1) * D < v * m, 2 * v <= 2 * u + e,
           u * m <= q * D, e * m <= A * (2 * D)
    PROVE  g <= A + q
  <1>1. (2 * v) * m <= (2 * u + e) * m
    BY ScaledOrder
  <1>2. (2 * v) * m = 2 * (v * m) /\ (2 * u + e) * m = 2 * (u * m) + e * m
    OBVIOUS
  <1>3. /\ v * m \in Int /\ u * m \in Int /\ e * m \in Int /\ q * D \in Int
        /\ (g - 1) * D \in Int /\ A * (2 * D) = 2 * (A * D) /\ A * D \in Int
    OBVIOUS
  <1>4. 2 * ((g - 1) * D) < 2 * (A * D) + 2 * (q * D)
    BY <1>1, <1>2, <1>3
  <1>5. 2 * (A * D) + 2 * (q * D) = 2 * ((A + q) * D)
    OBVIOUS
  <1>6. (g - 1) * D < (A + q) * D
    <2>1. (A + q) * D \in Int
      OBVIOUS
    <2> QED  BY <1>3, <1>4, <1>5, <2>1
  <1>7. g - 1 < A + q
    BY <1>6, Cancelled
  <1> QED  BY <1>7

\* Scaled by bounds for a drift of either sign, a distance of either sign grows.
LEMMA DriftScaled ==
    ASSUME NEW k \in Int, NEW m \in Nat, NEW low \in Int, NEW high \in Int,
           low <= -m, m <= high
    PROVE  LET u == IF k < 0 THEN -k ELSE k
               ppb == IF k < 0 THEN <<high, low>> ELSE <<low, high>>
           IN  k * ppb[1] <= -(u * m) /\ u * m <= k * ppb[2]
  <1>1. CASE k < 0
    <2>1. \A n \in Nat : n * m <= n * high /\ n * low <= -(n * m)
      OBVIOUS
    <2>2. -k \in Nat /\ k * high = -((-k) * high) /\ k * low = -((-k) * low)
      BY <1>1
    <2>3. (-k) * m \in Int /\ (-k) * high \in Int /\ (-k) * low \in Int
      OBVIOUS
    <2>4. k * high <= -((-k) * m) /\ (-k) * m <= k * low
      BY <2>1, <2>2, <2>3
    <2> QED  BY <1>1, <2>4
  <1>2. CASE ~(k < 0)
    <2>1. \A n \in Nat : n * m <= n * high /\ n * low <= -(n * m)
      OBVIOUS
    <2>2. k \in Nat
      BY <1>2
    <2> QED  BY <1>2, <2>1, <2>2
  <1> QED  BY <1>1, <1>2

\* The window projected from a round trip contains the controller's clock.
LEMMA ProjectedNearTruth ==
    ASSUME KeepsToSlew, rate_ppb \in Rates, NEW s \in ClockSample, RoundTripOf(s),
           sync.previous = Observed(s), sync.drift \in [min_ppb : Int, max_ppb : Int],
           NEW h \in Int
    PROVE  LET w == Projected(sync, h)
           IN  w.earliest - 1 <= ControllerAt(h) /\ ControllerAt(h) <= w.latest
  <1> DEFINE D == PARTS_PER_BILLION
             m == max_slew_ppb
             e == s.host_receive - s.host_send
             ref == s.host_send + e \div 2
             A == Allowance(s)
             k == h - ref
             u == IF k < 0 THEN -k ELSE k
             bounds == DriftBounds(sync)
             ppb == IF k < 0 THEN <<bounds[2], bounds[1]>> ELSE bounds
             below == (k * ppb[1]) \div D
             above == DivCeil(k * ppb[2], D)
  <1>1. D \in Nat \ {0} /\ m \in Nat /\ m <= 2 * D
    BY SlewAssumption DEF KeepsToSlew
  <1>2. /\ s.host_send \in Nat /\ s.host_receive \in Nat /\ s.host_send <= s.host_receive
        /\ s.controller_send \in Nat /\ s.controller_receive \in Nat
    BY DEF ClockSample, RoundTripOf
  <1>3. A \in Int /\ e * m <= A * (2 * D)
    BY <1>2, AllowanceCovers
  <1>4. /\ Observed(s).reference_host = ref
        /\ Observed(s).offset_min_ticks = s.controller_send - s.host_receive - A
        /\ Observed(s).offset_max_ticks = s.controller_receive - s.host_send + A
    BY DEF Observed
  <1>5. /\ Projected(sync, h).earliest = h + (s.controller_send - s.host_receive - A) + below
        /\ Projected(sync, h).latest = h + (s.controller_receive - s.host_send + A) + above
    BY <1>4 DEF Projected
  <1>6. /\ bounds[1] \in Int /\ bounds[1] <= -m /\ bounds[2] \in Int /\ m <= bounds[2]
        /\ bounds = <<bounds[1], bounds[2]>>
    BY BoundsCoverSlew DEF DriftBounds
  <1> HIDE DEF bounds, A, D, m
  <1>7. e \in Nat /\ e \div 2 \in Nat /\ 2 * (e \div 2) <= e /\ e <= 2 * (e \div 2) + 1
    BY <1>2
  <1>8. ref \in Nat /\ k \in Int /\ u \in Nat /\ k <= u /\ -k <= u
    BY <1>2, <1>7
  <1>9. /\ ppb[1] \in Int /\ ppb[2] \in Int
        /\ k * ppb[1] <= -(u * m) /\ u * m <= k * ppb[2]
    <2> HIDE DEF k
    <2>1. /\ k < 0 => ppb[1] = bounds[2] /\ ppb[2] = bounds[1]
          /\ ~(k < 0) => ppb[1] = bounds[1] /\ ppb[2] = bounds[2]
      OBVIOUS
    <2>2. /\ k < 0 => k * bounds[2] <= -((-k) * m) /\ (-k) * m <= k * bounds[1]
          /\ ~(k < 0) => k * bounds[1] <= -(k * m) /\ k * m <= k * bounds[2]
      <3>1. LET w == IF k < 0 THEN -k ELSE k
                t == IF k < 0 THEN <<bounds[2], bounds[1]>> ELSE <<bounds[1], bounds[2]>>
            IN  k * t[1] <= -(w * m) /\ w * m <= k * t[2]
        BY <1>1, <1>6, <1>8, DriftScaled
      <3> QED  BY <3>1
    <2> QED  BY <1>6, <1>8, <2>1, <2>2
  <1> HIDE DEF ppb
  <1>10. /\ below \in Int /\ below * D <= -(u * m)
         /\ above \in Int /\ u * m <= above * D
    <2>1. k * ppb[1] \in Int /\ k * ppb[2] \in Int /\ u * m \in Int
      BY <1>1, <1>8, <1>9
    <2>2. /\ below \in Int /\ below * D <= k * ppb[1]
          /\ above \in Int /\ k * ppb[2] <= above * D
      BY <1>1, <2>1, Floors, Ceilings
    <2>3. below * D \in Int /\ above * D \in Int
      BY <1>1, <2>2
    <2> QED  BY <1>9, <2>1, <2>2, <2>3
  <1> HIDE DEF below, above, u
  <1>11. ControllerAt(h) \in Int /\ s.controller_send - s.host_receive - A + h + below - 1
                                      <= ControllerAt(h)
    <2> DEFINE v == u + (s.host_receive - ref)
               g == Gained(h, s.host_receive)
    <2>1. /\ v \in Nat /\ s.host_receive - h <= v /\ h - s.host_receive <= v
          /\ 2 * v <= 2 * u + e + 1
      BY <1>2, <1>7, <1>8
    <2>2. /\ ControllerAt(h) \in Int /\ ControllerAt(s.host_receive) \in Int
          /\ (g - 1) * D < v * m
      BY <1>2, <2>1, ClocksMoveApart DEF D, m
    <2>3. g = (ControllerAt(s.host_receive) - s.host_receive) - (ControllerAt(h) - h)
      BY DEF Gained
    <2>4. g \in Int
      BY <1>2, <2>2, <2>3
    <2> HIDE DEF v, g, e
    <2>5. g <= A - below + 1
      BY <1>1, <1>3, <1>7, <1>8, <1>10, <2>1, <2>2, <2>4, WindowBelow
    <2>6. s.controller_send <= ControllerAt(s.host_receive)
      BY DEF RoundTripOf
    <2> QED  BY <1>2, <1>3, <1>10, <2>2, <2>3, <2>4, <2>5, <2>6
  <1>12. ControllerAt(h) <= h + (s.controller_receive - s.host_send + A) + above
    <2> DEFINE v == u + (ref - s.host_send)
               g == Gained(s.host_send, h)
    <2>1. /\ v \in Nat /\ s.host_send - h <= v /\ h - s.host_send <= v
          /\ 2 * v <= 2 * u + e
      BY <1>2, <1>7, <1>8
    <2>2. /\ ControllerAt(h) \in Int /\ ControllerAt(s.host_send) \in Int
          /\ (g - 1) * D < v * m
      BY <1>2, <2>1, ClocksMoveApart DEF D, m
    <2>3. g = (ControllerAt(h) - h) - (ControllerAt(s.host_send) - s.host_send)
      BY DEF Gained
    <2>4. g \in Int
      BY <1>2, <2>2, <2>3
    <2> HIDE DEF v, g, e
    <2>5. g <= A + above
      BY <1>1, <1>3, <1>7, <1>8, <1>10, <2>1, <2>2, <2>4, WindowAbove
    <2>6. ControllerAt(s.host_send) <= s.controller_receive
      BY DEF RoundTripOf
    <2> QED  BY <1>2, <1>3, <1>10, <2>2, <2>3, <2>4, <2>5, <2>6
  <1> QED  BY <1>2, <1>3, <1>5, <1>10, <1>11, <1>12

\* Whatever the exchanges that were lost, late or doubled, and whatever drift
\* was measured, the projected window contains the controller's clock, up to
\* the tick that halving an exchange loses (project).
THEOREM WindowHolds == ASSUME KeepsToSlew  PROVE Spec => []WindowNearTruth
  <1>1. EstimateInv => WindowNearTruth
    <2> SUFFICES ASSUME EstimateInv, HasEstimate(sync),
                        NEW h \in sync.session_start .. MaxTime
                 PROVE  LET w == Projected(sync, h)
                        IN  w.earliest - 1 <= ControllerAt(h) /\ ControllerAt(h) <= w.latest
      BY DEF WindowNearTruth
    <2>1. sync.drift # None
      BY DEF HasEstimate
    <2>2. /\ sync.session_start \in Nat /\ sync.last_raw \in ClockSample
          /\ sync.previous = Observed(sync.last_raw) /\ RoundTripOf(sync.last_raw)
      BY <2>1 DEF EstimateInv, EstimateHolds, NoSync
    <2>3. sync.drift \in [min_ppb : Int, max_ppb : Int] /\ rate_ppb \in Rates
      BY <2>1 DEF EstimateInv, SessionInv, SyncState
    <2>4. h \in Int
      BY <2>2, SessionAssumption
    <2> QED  BY <2>2, <2>3, <2>4, ProjectedNearTruth
  <1> QED  BY <1>1, EstimateInvariant, PTL
=============================================================================
