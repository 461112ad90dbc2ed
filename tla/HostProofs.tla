----------------------------- MODULE HostProofs -----------------------------
(***************************************************************************)
(* Proofs about the controller and who drives it: behind the command link, *)
(* for every latency, jitter and number of messages in flight; and in the  *)
(* job stream, for a workflow runner of any configuration and any job.     *)
(***************************************************************************)
EXTENDS JobStream, ControlLink, SimControllerProofs, FiniteSetTheorems

-----------------------------------------------------------------------------
(* The command link.                                                       *)

\* What is put on the link.
Message == [at : Nat, command : Commands, execute_at : ExecuteTimes \cup {None}]

\* A message that counts as a sign of life once it is accepted.
Beats(m) == IsHeartbeat(m.command) /\ m.execute_at = None

-----------------------------------------------------------------------------
(* Deliveries.                                                             *)

\* A choice of positions of a sequence lists members of it.
LEMMA ListedIsSequence ==
    ASSUME NEW S, NEW s \in Seq(S), NEW P \in SUBSET (1 .. Len(s)),
           NEW f \in [1 .. Cardinality(P) -> P],
           NEW T, \A i \in P : s[i] \in T
    PROVE  [i \in DOMAIN f |-> s[f[i]]] \in Seq(T)
  <1>1. IsFiniteSet(1 .. Len(s))
    BY FS_Interval
  <1>2. Cardinality(P) \in Nat
    BY <1>1, FS_Subset, FS_CardinalityType
  <1>3. [i \in DOMAIN f |-> s[f[i]]] \in [1 .. Cardinality(P) -> T]
    OBVIOUS
  <1> QED  BY <1>2, <1>3, SeqDef

\* What is delivered by t had arrived by t, and what stays on the link arrives
\* later; neither is anything but what was on the link.
LEMMA DeliveryParts ==
    ASSUME NEW S, in_flight \in Seq(S), NEW t, DeliverDue(t)
    PROVE  /\ arriving' \in Seq({ m \in S : m.at <= t })
           /\ in_flight' \in Seq({ m \in S : ~(m.at <= t) })
  <1> DEFINE due == Due(t)
             kept == DOMAIN in_flight \ due
  <1>1. PICK d \in [1 .. Cardinality(due) -> due], k \in [1 .. Cardinality(kept) -> kept] :
           /\ arriving' = [i \in DOMAIN d |-> in_flight[d[i]]]
           /\ in_flight' = [i \in DOMAIN k |-> in_flight[k[i]]]
    BY DEF DeliverDue
  <1>2. DOMAIN in_flight = 1 .. Len(in_flight)
    BY LenProperties
  <1>3. due \in SUBSET (1 .. Len(in_flight)) /\ kept \in SUBSET (1 .. Len(in_flight))
    BY <1>2 DEF Due
  <1>4. \A i \in 1 .. Len(in_flight) : in_flight[i] \in S
    BY ElementOfSeq
  <1>5. \A i \in due : in_flight[i] \in { m \in S : m.at <= t }
    BY <1>2, <1>4 DEF Due
  <1>6. \A i \in kept : in_flight[i] \in { m \in S : ~(m.at <= t) }
    BY <1>2, <1>4 DEF Due
  <1>7. arriving' \in Seq({ m \in S : m.at <= t })
    <2> DEFINE T == { m \in S : m.at <= t }
    <2>1. \A i \in due : in_flight[i] \in T
      BY <1>5
    <2> HIDE DEF due, kept, T
    <2>2. [i \in DOMAIN d |-> in_flight[d[i]]] \in Seq(T)
      BY <1>3, <2>1, ListedIsSequence
    <2> QED  BY <1>1, <2>2 DEF T
  <1>8. in_flight' \in Seq({ m \in S : ~(m.at <= t) })
    <2> DEFINE T == { m \in S : ~(m.at <= t) }
    <2>1. \A i \in kept : in_flight[i] \in T
      BY <1>6
    <2> HIDE DEF due, kept, T
    <2>2. [i \in DOMAIN k |-> in_flight[k[i]]] \in Seq(T)
      BY <1>3, <2>1, ListedIsSequence
    <2> QED  BY <1>1, <2>2 DEF T
  <1> QED  BY <1>7, <1>8

-----------------------------------------------------------------------------
(* The controller behind a link is the controller.                         *)

LinkTyped ==
    /\ link_up \in BOOLEAN /\ host_heartbeat \in Nat /\ severed_at \in Nat
    /\ in_flight \in Seq(Message) /\ arriving \in Seq(Message)

\* The copies of a sent message.
LEMMA SentIsSequence ==
    ASSUME NEW T, NEW n \in {1, 2}, NEW m(_), \A i \in 1 .. n : m(i) \in T
    PROVE  [i \in 1 .. n |-> m(i)] \in Seq(T)
  <1>1. [i \in 1 .. n |-> m(i)] \in [1 .. n -> T]
    OBVIOUS
  <1> QED  BY <1>1, SeqDef

\* What arrives next, and what arrives after it.
LEMMA HeadArrives ==
    ASSUME NEW S, NEW s \in Seq(S), s # <<>>
    PROVE  Head(s) \in S /\ Tail(s) \in Seq(S)
  OBVIOUS

\* Every step of the link is a step of the controller or none.
LEMMA LinkStepIsControllers ==
    ASSUME LinkTyped, [LinkNext]_allVars
    PROVE  [Next]_vars
  <1>1. ASSUME NEW c \in Commands, NEW t \in ExecuteTimes \cup {None}, Send(c, t)
        PROVE  UNCHANGED vars
    BY <1>1 DEF Send
  <1>2. CASE DropLink \/ RestoreLink
    BY <1>2 DEF DropLink, RestoreLink
  <1>3. CASE LinkTick
    BY <1>3 DEF LinkTick, Next
  <1>4. CASE LinkDeliver
    <2>1. Head(arriving) \in Message
      BY <1>4, HeadArrives DEF LinkDeliver, LinkTyped
    <2>2. /\ Head(arriving).command \in Commands
          /\ Head(arriving).execute_at \in ExecuteTimes \cup {None}
      BY <2>1 DEF Message
    <2> QED  BY <1>4, <2>2 DEF LinkDeliver, Next
  <1>5. CASE LinkFinish \/ LinkReset
    BY <1>5 DEF LinkFinish, LinkReset, Next
  <1>6. CASE \E w \in Windows : LinkSetQueueWindow(w)
    BY <1>6 DEF LinkSetQueueWindow, Next
  <1>7. CASE UNCHANGED allVars
    BY <1>7 DEF allVars
  <1> QED  BY <1>1, <1>2, <1>3, <1>4, <1>5, <1>6, <1>7 DEF LinkNext

\* A message over the link is one of the host's commands.
LEMMA SendTyped ==
    ASSUME TypeOK, LinkTyped, NEW c \in Commands, NEW t \in ExecuteTimes \cup {None}, Send(c, t)
    PROVE  LinkTyped'
  <1>1. PICK jitter \in 0 .. JitterTicks, copies \in IF Duplicates THEN {1, 2} ELSE {1} :
           in_flight' = in_flight \o [i \in 1 .. copies |->
                 [at |-> now + LatencyTicks + jitter + (i - 1), command |-> c, execute_at |-> t]]
    BY DEF Send
  <1> DEFINE m(i) == [at |-> now + LatencyTicks + jitter + (i - 1), command |-> c, execute_at |-> t]
  <1>2. \A i \in 1 .. copies : m(i) \in Message
    BY LinkAssumption DEF TypeOK, Message
  <1>3. [i \in 1 .. copies |-> m(i)] \in Seq(Message)
    <2>1. copies \in {1, 2}
      OBVIOUS
    <2> HIDE DEF m
    <2> QED  BY <1>2, <2>1, SentIsSequence
  <1>4. in_flight' \in Seq(Message)
    <2> DEFINE sent == [i \in 1 .. copies |-> m(i)]
    <2>1. in_flight' = in_flight \o sent
      BY <1>1
    <2>2. sent \in Seq(Message)
      BY <1>3
    <2> HIDE DEF sent, m
    <2> QED  BY <2>1, <2>2 DEF LinkTyped
  <1>5. host_heartbeat' \in Nat
    BY DEF Send, TypeOK, LinkTyped
  <1> QED  BY <1>4, <1>5 DEF Send, LinkTyped

\* Every step keeps the types.
LEMMA LinkTypedStep ==
    ASSUME TypeOK, LinkTyped, [LinkNext]_allVars
    PROVE  LinkTyped'
  <1>1. ASSUME NEW c \in Commands, NEW t \in ExecuteTimes \cup {None}, Send(c, t)
        PROVE  LinkTyped'
    BY <1>1, SendTyped
  <1>2. CASE DropLink
    <2>1. in_flight' \in Seq(Message)
      BY <1>2 DEF DropLink
    <2>2. severed_at' \in Nat
      BY <1>2 DEF DropLink, LinkTyped, TypeOK
    <2> QED  BY <1>2, <2>1, <2>2 DEF DropLink, LinkTyped
  <1>3. CASE RestoreLink
    BY <1>3 DEF RestoreLink, LinkTyped
  <1>4. CASE LinkTick
    <2> DEFINE t == now + STEP_TICKS
    <2>1. DeliverDue(t)
      BY <1>4 DEF LinkTick
    <2>2. /\ arriving' \in Seq({ m \in Message : m.at <= t })
          /\ in_flight' \in Seq({ m \in Message : ~(m.at <= t) })
      <3> HIDE DEF t
      <3> QED  BY <2>1, DeliveryParts DEF LinkTyped
    <2>3. arriving' \in Seq(Message) /\ in_flight' \in Seq(Message)
      <3> HIDE DEF t
      <3> QED  BY <2>2, SeqMonotonic
    <2> QED  BY <1>4, <2>3 DEF LinkTick, LinkTyped
  <1>5. CASE LinkDeliver
    <2>1. arriving' \in Seq(Message)
      BY <1>5, HeadArrives DEF LinkDeliver, LinkTyped
    <2> QED  BY <1>5, <2>1 DEF LinkDeliver, LinkTyped
  <1>6. CASE UNCHANGED linkVars
    BY <1>6 DEF linkVars, LinkTyped
  <1> QED
    BY <1>1, <1>2, <1>3, <1>4, <1>5, <1>6
    DEF LinkNext, LinkFinish, LinkReset, LinkSetQueueWindow, allVars

\* Whatever the link delays, loses, duplicates or reorders, the controller
\* behind it is the controller of SimController, whose theorems it inherits.
THEOREM LinkImplementsController == LinkSpec => Spec /\ []TypeOK /\ []LinkTyped
  <1>1. LinkInit => Init /\ TypeOK /\ LinkTyped
    BY TypeInit DEF LinkInit, LinkTyped
  <1>2. TypeOK /\ LinkTyped /\ [LinkNext]_allVars => [Next]_vars /\ TypeOK' /\ LinkTyped'
    BY LinkStepIsControllers, LinkTypedStep, TypeStep
  <1> QED  BY <1>1, <1>2, PTL DEF LinkSpec, Spec

-----------------------------------------------------------------------------
(* Signs of life.                                                          *)

\* On its way, a heartbeat arrives within the delay of the link counted from
\* the last one sent, and later than now unless it was sent just now.
Travelling == { m \in Message : Beats(m) =>
                    /\ m.at <= host_heartbeat + MaxDelay
                    /\ m.at > now \/ host_heartbeat = now }

\* Handed over, it has been on its way for no longer than its transit.
Arrived == { m \in Message : Beats(m) => now <= host_heartbeat + MaxTransit }

\* What makes the two reaction times inductive.  The host's last heartbeat is
\* at most one transit older than what the controller takes for it, on a link
\* that is cut nothing is on its way, and what was heard over it is no newer
\* than the cut.
HeartbeatInv ==
    /\ in_flight \in Seq(Travelling) /\ arriving \in Seq(Arrived)
    /\ host_heartbeat <= now
    /\ last_heartbeat <= host_heartbeat + MaxTransit /\ last_heartbeat <= now
    /\ ~stepping => arriving = <<>>
    /\ ~link_up => in_flight = <<>> /\ arriving = <<>> /\ last_heartbeat <= severed_at

\* The delays are numbers, and a frame is in transit for a quantum or more.
LEMMA DelaysAreNat == MaxDelay \in Nat /\ MaxTransit \in Nat /\ STEP_TICKS <= MaxTransit
  BY LinkAssumption, QueueAssumption DEF MaxDelay, MaxTransit

\* The host sends.
LEMMA SendHeartbeats ==
    ASSUME TypeOK, LinkTyped, HeartbeatInv,
           NEW c \in Commands, NEW t \in ExecuteTimes \cup {None}, Send(c, t)
    PROVE  HeartbeatInv'
  <1>1. PICK jitter \in 0 .. JitterTicks, copies \in IF Duplicates THEN {1, 2} ELSE {1} :
           in_flight' = in_flight \o [i \in 1 .. copies |->
                 [at |-> now + LatencyTicks + jitter + (i - 1), command |-> c, execute_at |-> t]]
    BY DEF Send
  <1> DEFINE m(i) == [at |-> now + LatencyTicks + jitter + (i - 1), command |-> c, execute_at |-> t]
             S == Travelling'
  <1>2. now \in Nat /\ host_heartbeat \in Nat /\ now' = now /\ host_heartbeat <= now
    BY DEF Send, vars, TypeOK, LinkTyped, HeartbeatInv
  <1>3. host_heartbeat' = IF IsHeartbeat(c) /\ t = None THEN now ELSE host_heartbeat
    BY DEF Send
  <1>4. \A i \in 1 .. copies : m(i) \in S
    <2> SUFFICES ASSUME NEW i \in 1 .. copies  PROVE m(i) \in S
      OBVIOUS
    <2>1. m(i) \in Message
      BY <1>2, LinkAssumption DEF Message
    <2>2. m(i).at <= now + MaxDelay
      BY <1>2, LinkAssumption DEF MaxDelay
    <2>3. Beats(m(i)) => host_heartbeat' = now
      BY <1>3 DEF Beats
    <2> HIDE DEF m
    <2> QED  BY <1>2, <2>1, <2>2, <2>3 DEF Travelling, Beats
  <1>5. Travelling \subseteq S
    <2> SUFFICES ASSUME NEW x \in Travelling  PROVE x \in S
      OBVIOUS
    <2>1. x \in Message /\ x.at \in Nat
      BY DEF Travelling, Message
    <2>2. CASE Beats(x)
      BY <1>2, <1>3, <2>1, <2>2, DelaysAreNat DEF Travelling, Beats
    <2>3. CASE ~Beats(x)
      BY <2>1, <2>3 DEF Travelling, Beats
    <2> QED  BY <2>2, <2>3
  <1>6. in_flight' \in Seq(S)
    <2> DEFINE sent == [i \in 1 .. copies |-> m(i)]
    <2>1. in_flight' = in_flight \o sent
      BY <1>1
    <2>2. sent \in Seq(S)
      <3>1. copies \in {1, 2}
        OBVIOUS
      <3> HIDE DEF m, S
      <3> QED  BY <1>4, <3>1, SentIsSequence
    <2>3. in_flight \in Seq(S)
      <3> HIDE DEF S
      <3> QED  BY <1>5, SeqMonotonic DEF HeartbeatInv
    <2> HIDE DEF sent, m, S
    <2> QED  BY <2>1, <2>2, <2>3
  <1>7. arriving' = <<>> /\ ~stepping' /\ link_up'
    BY DEF Send, vars, HeartbeatInv
  <1>8. /\ last_heartbeat' = last_heartbeat
        /\ host_heartbeat <= host_heartbeat' /\ host_heartbeat' <= now
    BY <1>2, <1>3 DEF Send, vars
  <1>9. last_heartbeat' <= host_heartbeat' + MaxTransit /\ last_heartbeat' <= now'
    BY <1>2, <1>3, <1>8, DelaysAreNat DEF HeartbeatInv, TypeOK
  <1>10. host_heartbeat' <= now'
    BY <1>2, <1>8
  <1> QED  BY <1>6, <1>7, <1>9, <1>10 DEF HeartbeatInv

\* A run pulls what has arrived: what was sent when the last run ended, or
\* what arrived since then.
LEMMA TickHeartbeats ==
    ASSUME TypeOK, LinkTyped, HeartbeatInv, LinkTick
    PROVE  HeartbeatInv'
  <1> DEFINE t == now + STEP_TICKS
  <1>1. /\ now \in Nat /\ host_heartbeat \in Nat /\ STEP_TICKS \in Nat \ {0}
        /\ now' = t /\ host_heartbeat' = host_heartbeat /\ host_heartbeat <= now
        /\ last_heartbeat' = last_heartbeat /\ last_heartbeat \in Nat /\ link_up' = link_up
        /\ stepping' /\ severed_at' = severed_at
    BY QueueAssumption DEF LinkTick, Tick, TypeOK, LinkTyped, HeartbeatInv
  <1>2. /\ arriving' \in Seq({ m \in Travelling : m.at <= t })
        /\ in_flight' \in Seq({ m \in Travelling : ~(m.at <= t) })
    <2> HIDE DEF t
    <2> QED  BY DeliveryParts DEF LinkTick, t, HeartbeatInv
  <1>3. ASSUME NEW x \in Travelling, Beats(x)
        PROVE  /\ x \in Message /\ x.at \in Nat /\ x.at <= host_heartbeat + MaxDelay
               /\ x.at > now \/ host_heartbeat = now
    BY <1>3 DEF Travelling, Message
  <1>4. { m \in Travelling : m.at <= t } \subseteq Arrived'
    <2> SUFFICES ASSUME NEW x \in Travelling, x.at <= t  PROVE x \in Arrived'
      OBVIOUS
    <2>1. x \in Message
      BY DEF Travelling
    <2>2. ASSUME Beats(x)  PROVE t <= host_heartbeat + MaxTransit
      <3>1. CASE host_heartbeat = now
        BY <3>1, <1>1, DelaysAreNat
      <3>2. CASE x.at > now
        <4>1. x.at \in Nat /\ x.at <= host_heartbeat + MaxDelay
          BY <1>3, <2>2
        <4>2. MaxDelay # 0
          BY <4>1, <3>2, <1>1
        <4>3. MaxTransit = STEP_TICKS + MaxDelay - 1
          BY <4>2, <1>1, DelaysAreNat DEF MaxTransit
        <4> QED  BY <4>1, <4>3, <3>2, <1>1, DelaysAreNat
      <3> QED  BY <3>1, <3>2, <1>3, <2>2
    <2> QED  BY <2>1, <2>2, <1>1 DEF Arrived, Beats
  <1>5. { m \in Travelling : ~(m.at <= t) } \subseteq Travelling'
    <2> SUFFICES ASSUME NEW x \in Travelling, ~(x.at <= t)  PROVE x \in Travelling'
      OBVIOUS
    <2>1. x \in Message /\ x.at \in Nat
      BY DEF Travelling, Message
    <2>2. x.at > t
      BY <2>1, <1>1
    <2> QED  BY <2>1, <2>2, <1>1, <1>3 DEF Travelling, Beats
  <1>6. arriving' \in Seq(Arrived') /\ in_flight' \in Seq(Travelling')
    BY <1>2, <1>4, <1>5, SeqMonotonic
  <1>7. link_up' \/ (in_flight' = <<>> /\ arriving' = <<>>)
    <2>1. CASE in_flight = <<>>
      <3>1. in_flight \in Seq({})
        BY <2>1
      <3>2. arriving' \in Seq({ m \in {} : m.at <= t }) /\ in_flight' \in Seq({ m \in {} : ~(m.at <= t) })
        <4> HIDE DEF t
        <4> QED  BY <3>1, DeliveryParts DEF LinkTick, t
      <3>3. \A s \in Seq({}) : s = <<>>
        <4>1. SUFFICES ASSUME NEW s \in Seq({}), Len(s) # 0  PROVE FALSE
          BY EmptySeq
        <4> QED  BY <4>1, EmptySeq, ElementOfSeq
      <3> QED  BY <3>2, <3>3
    <2>2. link_up \/ in_flight = <<>>
      BY DEF HeartbeatInv
    <2>3. link_up' <=> link_up
      BY DEF LinkTick
    <2> QED  BY <2>1, <2>2, <2>3
  <1>8. last_heartbeat' <= now'
    BY <1>1 DEF HeartbeatInv
  <1>9. host_heartbeat' <= now'
    BY <1>1
  <1> QED  BY <1>1, <1>6, <1>7, <1>8, <1>9 DEF HeartbeatInv

\* Nothing but a heartbeat without a timestamp counts as a sign of life.
LEMMA AcceptHears ==
    ASSUME NEW c, NEW t, Accept(c, t)
    PROVE  \/ last_heartbeat' = last_heartbeat
           \/ (last_heartbeat' = now /\ IsHeartbeat(c) /\ t = None)
  BY DEF Accept

\* The controller accepts a message that has arrived.
LEMMA DeliverHeartbeats ==
    ASSUME TypeOK, LinkTyped, HeartbeatInv, LinkDeliver
    PROVE  HeartbeatInv'
  <1> DEFINE m == Head(arriving)
  <1>1. /\ now' = now /\ host_heartbeat' = host_heartbeat /\ in_flight' = in_flight
        /\ link_up' = link_up /\ stepping' = stepping /\ severed_at' = severed_at
        /\ stepping /\ arriving # <<>> /\ arriving' = Tail(arriving)
    BY DEF LinkDeliver, Deliver, Accept
  <1>2. m \in Arrived /\ arriving' \in Seq(Arrived)
    BY <1>1, HeadArrives DEF HeartbeatInv
  <1>3. last_heartbeat' = last_heartbeat \/ (last_heartbeat' = now /\ Beats(m))
    BY AcceptHears DEF LinkDeliver, Deliver, Beats
  <1>4. last_heartbeat' <= host_heartbeat + MaxTransit /\ last_heartbeat' <= now
    BY <1>2, <1>3 DEF HeartbeatInv, Arrived, TypeOK
  <1>5. Travelling' = Travelling /\ Arrived' = Arrived
    BY <1>1 DEF Travelling, Arrived, Beats
  <1> QED  BY <1>1, <1>2, <1>4, <1>5 DEF HeartbeatInv

\* The link is cut.
LEMMA DropHeartbeats ==
    ASSUME TypeOK, LinkTyped, HeartbeatInv, DropLink
    PROVE  HeartbeatInv'
  <1>1. /\ now' = now /\ host_heartbeat' = host_heartbeat /\ stepping' = stepping /\ ~stepping
        /\ last_heartbeat' = last_heartbeat /\ arriving' = arriving /\ in_flight' = <<>>
        /\ severed_at' = IF link_up THEN now ELSE severed_at
    BY DEF DropLink, vars
  <1>2. Arrived' = Arrived
    BY <1>1 DEF Arrived, Beats
  <1>3. in_flight' \in Seq(Travelling')
    BY <1>1
  <1>4. last_heartbeat <= severed_at'
    BY <1>1 DEF HeartbeatInv
  <1> QED  BY <1>1, <1>2, <1>3, <1>4 DEF HeartbeatInv

\* Every step keeps it.
LEMMA HeartbeatStep ==
    ASSUME TypeOK, LinkTyped, HeartbeatInv, [LinkNext]_allVars
    PROVE  HeartbeatInv'
  <1>1. ASSUME NEW c \in Commands, NEW t \in ExecuteTimes \cup {None}, Send(c, t)
        PROVE  HeartbeatInv'
    BY <1>1, SendHeartbeats
  <1>2. CASE DropLink
    BY <1>2, DropHeartbeats
  <1>3. CASE LinkTick
    BY <1>3, TickHeartbeats
  <1>4. CASE LinkDeliver
    BY <1>4, DeliverHeartbeats
  <1>5. CASE UNCHANGED <<now, last_heartbeat, in_flight, arriving, host_heartbeat, severed_at>>
              /\ (link_up' = link_up \/ link_up')
              /\ (stepping' = stepping \/ arriving = <<>>)
    <2>1. Travelling' = Travelling /\ Arrived' = Arrived
      BY <1>5 DEF Travelling, Arrived, Beats
    <2> QED  BY <1>5, <2>1 DEF HeartbeatInv
  <1>6. CASE RestoreLink
    BY <1>5, <1>6 DEF RestoreLink, vars
  <1>7. CASE LinkFinish
    BY <1>5, <1>7 DEF LinkFinish, Finish, linkVars
  <1>8. CASE LinkReset
    BY <1>5, <1>8 DEF LinkReset, Reset, linkVars
  <1>9. CASE \E w \in Windows : LinkSetQueueWindow(w)
    BY <1>5, <1>9 DEF LinkSetQueueWindow, SetQueueWindow, linkVars
  <1>10. CASE UNCHANGED allVars
    BY <1>5, <1>10 DEF allVars, vars, linkVars
  <1> QED
    BY <1>1, <1>2, <1>3, <1>4, <1>6, <1>7, <1>8, <1>9, <1>10 DEF LinkNext

\* It holds throughout.
LEMMA HeartbeatInvariant == LinkSpec => []HeartbeatInv
  <1>1. LinkInit => HeartbeatInv
    <2> SUFFICES ASSUME LinkInit  PROVE HeartbeatInv
      OBVIOUS
    <2>1. <<>> \in Seq(Travelling) /\ <<>> \in Seq(Arrived)
      OBVIOUS
    <2> QED  BY <2>1, DelaysAreNat DEF LinkInit, Init, HeartbeatInv
  <1> QED  BY <1>1, HeartbeatStep, LinkImplementsController, PTL DEF LinkSpec

\* A cut link starves the heaters: drop_link loses what is in flight, and what
\* the controller heard before the cut is no newer than the cut.
THEOREM SeveredStarves == ASSUME Warm  PROVE LinkSpec => []SeveredLinkStarves
  <1>1. TypeOK /\ LinkTyped /\ HeartbeatInv /\ HeartbeatEnvelope => SeveredLinkStarves
    <2> SUFFICES ASSUME TypeOK, LinkTyped, HeartbeatInv, HeartbeatEnvelope, ~link_up, ~stepping,
                        NEW h \in TimedHeaters, Energized(h)
                 PROVE  now - severed_at <= HeartbeatTimeout[h]
      BY DEF SeveredLinkStarves
    <2>1. now - last_heartbeat <= HeartbeatTimeout[h]
      BY DEF HeartbeatEnvelope
    <2>2. last_heartbeat <= severed_at
      BY DEF HeartbeatInv
    <2>3. /\ HeartbeatTimeout[h] \in Nat /\ severed_at \in Nat
          /\ now \in Nat /\ last_heartbeat \in Nat
      BY ConfigAssumption DEF TypeOK, LinkTyped
    <2> QED  BY <2>1, <2>2, <2>3
  <1> QED  BY <1>1, HeartbeatInvariant, LinkImplementsController, EnvelopeHolds, PTL

\* The reaction time from end to end, for every latency, jitter and quantum:
\* the timeout of the heater and one transit after the host's last heartbeat.
THEOREM SilentStarves == ASSUME Warm  PROVE LinkSpec => []SilentHostStarves
  <1>1. TypeOK /\ LinkTyped /\ HeartbeatInv /\ HeartbeatEnvelope => SilentHostStarves
    <2> SUFFICES ASSUME TypeOK, LinkTyped, HeartbeatInv, HeartbeatEnvelope, ~stepping,
                        NEW h \in TimedHeaters, Energized(h)
                 PROVE  now - host_heartbeat <= HeartbeatTimeout[h] + MaxTransit
      BY DEF SilentHostStarves
    <2>1. now - last_heartbeat <= HeartbeatTimeout[h]
      BY DEF HeartbeatEnvelope
    <2>2. last_heartbeat <= host_heartbeat + MaxTransit
      BY DEF HeartbeatInv
    <2>3. /\ HeartbeatTimeout[h] \in Nat /\ host_heartbeat \in Nat
          /\ now \in Nat /\ last_heartbeat \in Nat
      BY ConfigAssumption DEF TypeOK, LinkTyped
    <2> QED  BY <2>1, <2>2, <2>3, DelaysAreNat
  <1> QED  BY <1>1, HeartbeatInvariant, LinkImplementsController, EnvelopeHolds, PTL

-----------------------------------------------------------------------------
(* Execution on the quantum.                                               *)

\* What makes ExecutesOnItsQuantum hold: between two runs nothing queued is
\* due.  A frame could make it so; the link hands over only within a run.
QueueAhead ==
    \A i \in DOMAIN queue :
        IF stepping THEN queue[i].execute_at >= now ELSE queue[i].execute_at > now

\* What was still to come is, one quantum later, not yet over.
LEMMA TickAhead ==
    ASSUME TypeOK, QueueInv, QueueAhead, Tick
    PROVE  QueueAhead'
  <1> SUFFICES ASSUME NEW i \in DOMAIN queue  PROVE queue[i].execute_at >= now + STEP_TICKS
    BY DEF Tick, QueueAhead
  <1>1. i \in 1 .. Len(queue)
    BY LenProperties DEF TypeOK
  <1>2. queue[i].execute_at \in Nat /\ now \in Nat /\ STEP_TICKS \in Nat \ {0}
    BY <1>1, QueuedInstants, QueueAssumption DEF TypeOK
  <1>3. queue[i].execute_at % STEP_TICKS = 0 /\ now % STEP_TICKS = 0
    BY DEF QueueInv, QueueSound
  <1>4. now < queue[i].execute_at
    BY <1>2 DEF Tick, QueueAhead
  <1> DEFINE e == queue[i].execute_at
  <1>5. now + STEP_TICKS <= e
    <2> HIDE DEF e
    <2>1. e \in Nat /\ e % STEP_TICKS = 0 /\ now < e
      BY <1>2, <1>3, <1>4 DEF e
    <2> QED  BY <2>1, <1>2, <1>3, QuantaApart
  <1> QED  BY <1>2, <1>5

\* A command accepted within a run is queued for its instant or a later one.
LEMMA AcceptAhead ==
    ASSUME TypeOK, QueueAhead, stepping,
           NEW c \in Commands, NEW t \in ExecuteTimes \cup {None}, Accept(c, t)
    PROVE  QueueAhead'
  <1>1. now' = now /\ stepping' = stepping /\ DOMAIN queue = 1 .. Len(queue) /\ Len(queue) \in Nat
    BY LenProperties DEF Accept, TypeOK
  <1>2. CASE queue' = queue
    BY <1>1, <1>2 DEF QueueAhead
  <1>3. CASE Enqueue(c, t) /\ Admissible(c, t)
    <2> DEFINE e == [execute_at |-> IF t = None THEN now ELSE t, command |-> c]
    <2>1. PICK p \in 1 .. Len(queue) + 1 : queue' = InsertAt(queue, p, e)
      BY <1>3 DEF Enqueue
    <2>2. e \in QueuedCommand
      BY InputAssumption DEF QueuedCommand, TypeOK
    <2>3. e.execute_at >= now
      BY <1>3, InputAssumption
      DEF Admissible, InWindow, EarliestAccepted, TypeOK, QueueWindow
    <2> HIDE DEF e
    <2>4. /\ queue' \in Seq(QueuedCommand) /\ Len(queue') = Len(queue) + 1
          /\ \A i \in 1 .. Len(queue) + 1 :
                queue'[i] = IF i < p THEN queue[i] ELSE IF i = p THEN e ELSE queue[i - 1]
      BY <2>1, <2>2, QueueInserted
    <2>5. DOMAIN queue' = 1 .. Len(queue) + 1
      BY <2>4, LenProperties
    <2>6. ASSUME NEW i \in DOMAIN queue'
          PROVE  queue'[i].execute_at >= now
      <3>1. CASE i < p
        BY <3>1, <1>1, <2>4, <2>5 DEF QueueAhead
      <3>2. CASE i = p
        BY <3>2, <2>3, <2>4, <2>5
      <3>3. CASE i > p
        <4>1. i - 1 \in DOMAIN queue /\ queue'[i] = queue[i - 1]
          BY <3>3, <1>1, <2>4, <2>5
        <4> QED  BY <4>1 DEF QueueAhead
      <3> QED  BY <3>1, <3>2, <3>3, <1>1, <2>5
    <2> QED  BY <1>1, <2>6 DEF QueueAhead
  <1> QED  BY <1>2, <1>3 DEF Accept

\* A run leaves nothing that is due.
LEMMA FinishAhead ==
    ASSUME TypeOK, QueueInv, Finish
    PROVE  QueueAhead'
  <1>1. queue \in Seq(QueuedCommand) /\ Len(queue) \in Nat /\ now \in Nat
    BY DEF TypeOK
  <1>2. PICK n \in 0 .. Len(queue) :
           /\ queue' = SubSeq(queue, n + 1, Len(queue))
           /\ \A i \in 1 .. Len(queue) : i <= n <=> queue[i].execute_at <= now
    BY FinishPopsDue
  <1>3. /\ queue' \in Seq(QueuedCommand) /\ Len(queue') = Len(queue) - n
        /\ \A i \in 1 .. Len(queue) - n : queue'[i] = queue[n + i]
    BY <1>1, <1>2, PoppedIsQueue
  <1>4. ASSUME NEW i \in DOMAIN queue'
        PROVE  queue'[i].execute_at > now
    <2>1. i \in 1 .. Len(queue) - n
      BY <1>3, LenProperties
    <2>2. n + i \in 1 .. Len(queue) /\ ~(n + i <= n)
      BY <2>1, <1>1
    <2>3. queue[n + i].execute_at \in Nat
      BY <2>2, QueuedInstants
    <2> QED  BY <2>1, <2>2, <2>3, <1>1, <1>2, <1>3
  <1> QED  BY <1>4 DEF Finish, QueueAhead

\* Every step keeps it.
LEMMA AheadStep ==
    ASSUME TypeOK, QueueInv, LinkTyped, QueueAhead, [LinkNext]_allVars
    PROVE  QueueAhead'
  <1>1. CASE LinkTick
    BY <1>1, TickAhead DEF LinkTick
  <1>2. CASE LinkDeliver
    <2>1. Head(arriving) \in Message
      BY <1>2, HeadArrives DEF LinkDeliver, LinkTyped
    <2>2. /\ Head(arriving).command \in Commands
          /\ Head(arriving).execute_at \in ExecuteTimes \cup {None}
      BY <2>1 DEF Message
    <2> QED  BY <1>2, <2>2, AcceptAhead DEF LinkDeliver, Deliver
  <1>3. CASE LinkFinish
    BY <1>3, FinishAhead DEF LinkFinish
  <1>4. CASE LinkReset
    <2>1. DOMAIN queue' = {}
      BY <1>4 DEF LinkReset, Reset
    <2> QED  BY <2>1 DEF QueueAhead
  <1>5. CASE UNCHANGED <<now, stepping, queue>>
    BY <1>5 DEF QueueAhead
  <1> QED
    BY <1>1, <1>2, <1>3, <1>4, <1>5
    DEF LinkNext, Send, DropLink, RestoreLink, LinkSetQueueWindow, SetQueueWindow, allVars, vars

\* Over the link, nothing executes later than it was queued for (accept refuses
\* what its transit has made late).
THEOREM OnItsQuantum == LinkSpec => ExecutesOnItsQuantum
  <1> DEFINE Punctual == IterationEnds => \A i \in DOMAIN queue :
                            queue[i].execute_at <= now => queue[i].execute_at = now
  <1>1. LinkInit => QueueAhead
    <2> SUFFICES ASSUME LinkInit  PROVE QueueAhead
      OBVIOUS
    <2>1. DOMAIN queue = {}
      BY DEF LinkInit, Init
    <2> QED  BY <2>1 DEF QueueAhead
  <1>2. LinkSpec => []QueueAhead
    BY <1>1, AheadStep, LinkImplementsController, QueueInvariant, PTL DEF LinkSpec
  <1>3. TypeOK /\ QueueAhead => [Punctual]_allVars
    <2> SUFFICES ASSUME TypeOK, QueueAhead, stepping, NEW i \in DOMAIN queue,
                        queue[i].execute_at <= now
                 PROVE  queue[i].execute_at = now
      BY DEF IterationEnds
    <2>1. i \in 1 .. Len(queue)
      BY LenProperties DEF TypeOK
    <2>2. queue[i].execute_at \in Nat /\ now \in Nat /\ queue[i].execute_at >= now
      BY <2>1, QueuedInstants DEF TypeOK, QueueAhead
    <2> QED  BY <2>2
  <1> QED  BY <1>2, <1>3, LinkImplementsController, PTL DEF ExecutesOnItsQuantum

-----------------------------------------------------------------------------
(* The job stream.                                                         *)

RP == INSTANCE WorkflowRunnerProofs WITH Statuses <- {}

-----------------------------------------------------------------------------
(* The runner in the stream is the runner the theorems are about.          *)

\* The constants of the stream are constants of a runner.
LEMMA RunnerConstants == RP!RunnerAssumption
  BY JobAssumption, InputAssumption
     DEF RP!RunnerAssumption, RP!CommandEnvelope, RP!ControllerSessionStatus,
         Runner!CommandEnvelope, Runner!ControllerSessionStatus

\* What the two believe of the controller, and the ticks they schedule.
LEMMA SameBelief ==
    /\ Runner!Believed = RP!Believed
    /\ Runner!Horizon = RP!Horizon
    /\ Runner!BatchSize = RP!BatchSize
    /\ Runner!TickOf = RP!TickOf
  <1>1. Runner!Believed = RP!Believed
    BY DEF Runner!Believed, RP!Believed
  <1>2. Runner!Horizon = RP!Horizon
    BY <1>1 DEF Runner!Horizon, RP!Horizon, Runner!Min, RP!Min
  <1>3. Runner!BatchSize = RP!BatchSize
    BY <1>1, <1>2 DEF Runner!BatchSize, RP!BatchSize, Runner!Min, RP!Min
  <1>4. Runner!TickOf = RP!TickOf
    BY DEF Runner!TickOf, RP!TickOf, Runner!ScheduledTick, RP!ScheduledTick,
           Runner!Believed, RP!Believed, Runner!Max, RP!Max
  <1>. QED  BY <1>1, <1>2, <1>3, <1>4

\* What the stream enqueues, the runner enqueues.
LEMMA SameEnqueue ==
    ASSUME NEW envelopes, Runner!EnqueueBatch(envelopes)
    PROVE  RP!EnqueueBatch(envelopes)
  BY DEF Runner!EnqueueBatch, RP!EnqueueBatch

\* The status the loop reads is a status update of the runner.
LEMMA SameUpdate ==
    ASSUME NEW status, Runner!UpdateControllerStatus(status)
    PROVE  RP!UpdateControllerStatus(status)
  BY DEF RP!UpdateControllerStatus, Runner!UpdateControllerStatus, RP!Flagged, Runner!Flagged,
         RP!Drained, Runner!Drained, RP!CompletedBy, Runner!CompletedBy, RP!Max, Runner!Max

\* A dispatch of the stream is a dispatch of the runner.
LEMMA SameDispatch ==
    /\ Runner!NextDispatchBatch => RP!NextDispatchBatch
    /\ Runner!DispatchBatch => RP!DispatchBatch
  <1>1. Runner!DispatchBatch => RP!DispatchBatch
    BY SameBelief DEF Runner!DispatchBatch, RP!DispatchBatch, Runner!Batch, RP!Batch
  <1>2. Runner!DispatchNothing => RP!DispatchNothing
    BY SameBelief DEF Runner!DispatchNothing, RP!DispatchNothing, Runner!counters, RP!counters
  <1>3. Runner!DispatchThrottled => RP!DispatchThrottled
    BY SameBelief DEF Runner!DispatchThrottled, RP!DispatchThrottled,
                      Runner!counters, RP!counters
  <1>. QED  BY <1>1, <1>2, <1>3 DEF Runner!NextDispatchBatch, RP!NextDispatchBatch

-----------------------------------------------------------------------------
(* Types.                                                                  *)

\* A command of the job that a batch carries: it has its tick.
ScheduledEnvelope == [command : { e.command : e \in Envelopes }, execute_at : Nat]

\* The controller's types and the order of its queue, the runner's invariant,
\* and where the host loop stands.
StreamTyped ==
    /\ TypeOK /\ QueueInv
    /\ RP!RunnerInv
    /\ job_queue \in Seq(Envelopes)
    /\ outbox \in Seq(ScheduledEnvelope)
    /\ turn \in {"status", "dispatch", "send", "run"}
    /\ turn # "send" => outbox = <<>>
    /\ stepping <=> turn = "run"

\* The status the loop makes up is a controller status.
LEMMA SessionStatusType ==
    ASSUME TypeOK
    PROVE  /\ SessionStatus \in RP!ControllerSessionStatus
           /\ SessionStatus.queue_fill = Len(queue)
           /\ SessionStatus.queue_capacity = QueueCapacity
           /\ SessionStatus.earliest_accepted_tick = EarliestAccepted
           /\ SessionStatus.latest_accepted_tick = LatestAccepted
           /\ SessionStatus.heartbeat_ok
  <1>1. /\ Len(queue) \in Nat /\ QueueCapacity \in Nat
        /\ EarliestAccepted \in Nat /\ LatestAccepted \in Nat /\ latched_fault \in BOOLEAN
    BY QueueAssumption DEF TypeOK, QueueWindow, EarliestAccepted, LatestAccepted
  <1>. QED  BY <1>1 DEF SessionStatus, QueueStatus, RP!ControllerSessionStatus

\* A batch carries commands of the controller, with their ticks.
LEMMA BatchType ==
    ASSUME RP!RunnerInv, RP!DispatchBatch
    PROVE  outbox' \in Seq(ScheduledEnvelope)
  <1>. DEFINE n == RP!BatchSize
  <1>1. /\ n \in 1 .. Len(job_queue)
        /\ outbox' \in Seq(RP!CommandEnvelope) /\ Len(outbox') = n
        /\ \A i \in 1 .. n : outbox'[i].execute_at = RP!TickOf[i] /\ RP!TickOf[i] \in Nat
    BY RunnerConstants, RP!BatchShape
  <1>. HIDE DEF n
  <1>2. n \in Nat
    BY <1>1 DEF RP!RunnerInv
  <1>3. ASSUME NEW i \in 1 .. n  PROVE outbox'[i] \in ScheduledEnvelope
    <2>1. outbox'[i] \in RP!CommandEnvelope /\ outbox'[i].execute_at \in Nat
      BY <1>1
    <2>. QED  BY <2>1 DEF RP!CommandEnvelope, ScheduledEnvelope
  <1>. QED  BY <1>1, <1>2, <1>3

\* The command that is sent next, and what remains of the batch.
LEMMA NextSent ==
    ASSUME StreamTyped, outbox # <<>>
    PROVE  /\ Head(outbox) = outbox[1] /\ outbox[1] \in ScheduledEnvelope
           /\ outbox[1].command \in Command /\ outbox[1].execute_at \in Nat
           /\ outbox[1].execute_at # None
           /\ Tail(outbox) \in Seq(ScheduledEnvelope)
           /\ Len(outbox) \in Nat \ {0} /\ Len(Tail(outbox)) = Len(outbox) - 1
           /\ \A i \in 1 .. Len(outbox) - 1 : Tail(outbox)[i] = outbox[i + 1]
  <1>1. outbox \in Seq(ScheduledEnvelope)
    BY DEF StreamTyped
  <1>2. /\ Head(outbox) = outbox[1] /\ outbox[1] \in ScheduledEnvelope
        /\ Tail(outbox) \in Seq(ScheduledEnvelope)
        /\ Len(outbox) \in Nat \ {0} /\ Len(Tail(outbox)) = Len(outbox) - 1
        /\ \A i \in 1 .. Len(outbox) - 1 : Tail(outbox)[i] = outbox[i + 1]
    BY <1>1
  <1>3. outbox[1].command \in { e.command : e \in Envelopes } /\ outbox[1].execute_at \in Nat
    BY <1>2 DEF ScheduledEnvelope
  <1>. QED  BY <1>2, <1>3, InputAssumption, JobAssumption

\* Every step of the stream keeps the types.
LEMMA StreamTypedStep == StreamTyped /\ [StreamNext]_streamVars => StreamTyped'
  <1>. SUFFICES ASSUME StreamTyped, [StreamNext]_streamVars  PROVE StreamTyped'
    OBVIOUS
  <1>. USE DEF StreamTyped
  <1>1. ASSUME NEW n \in 1 .. MaxBatch, NEW envelopes \in [1 .. n -> Envelopes],
               Enqueues(envelopes)
        PROVE  StreamTyped'
    <2>1. RP!RunnerInv'
      BY <1>1, SameEnqueue, RunnerConstants, RP!EnqueueKeeps DEF Enqueues
    <2>2. UNCHANGED <<vars, turn, outbox>>
      BY <1>1 DEF Enqueues, Runner!EnqueueBatch
    <2>3. job_queue' \in Seq(Envelopes)
      <3>1. job_queue' = job_queue \o envelopes /\ envelopes \in Seq(Envelopes)
        BY <1>1 DEF Enqueues, Runner!EnqueueBatch
      <3>. QED  BY <3>1
    <2>. QED  BY <2>1, <2>2, <2>3 DEF vars, plants, TypeOK, QueueInv, QueueSound
  <1>2. CASE ReadStatus
    <2>1. RP!RunnerInv'
      <3>1. RP!UpdateControllerStatus(SessionStatus)
        BY <1>2, SameUpdate DEF ReadStatus
      <3>. QED  BY <3>1, SessionStatusType, RunnerConstants, RP!UpdateKeeps
    <2>2. UNCHANGED <<vars, outbox, job_queue>> /\ turn = "status" /\ turn' = "dispatch"
      BY <1>2 DEF ReadStatus, Runner!UpdateControllerStatus
    <2>. QED  BY <2>1, <2>2 DEF vars, plants, TypeOK, QueueInv, QueueSound
  <1>3. CASE Dispatch
    <2>1. RP!NextDispatchBatch
      BY <1>3, SameDispatch DEF Dispatch
    <2>2. RP!RunnerInv'
      BY <2>1, RunnerConstants, RP!DispatchKeeps
    <2>3. outbox' \in Seq(ScheduledEnvelope)
      <3>1. CASE RP!DispatchBatch
        BY <3>1, BatchType
      <3>2. CASE RP!DispatchNothing \/ RP!DispatchThrottled
        BY <3>2 DEF RP!DispatchNothing, RP!DispatchThrottled
      <3>. QED  BY <2>1, <3>1, <3>2 DEF RP!NextDispatchBatch
    <2>4. UNCHANGED vars /\ turn = "dispatch" /\ turn' = "send"
      BY <1>3 DEF Dispatch
    <2>5. job_queue' \in Seq(Envelopes)
      <3>1. CASE RP!DispatchBatch
        <4>1. /\ job_queue' = SubSeq(job_queue, RP!BatchSize + 1, Len(job_queue))
              /\ RP!BatchSize \in 1 .. Len(job_queue)
          BY <3>1, RunnerConstants, RP!BatchShape DEF RP!DispatchBatch
        <4>. QED  BY <4>1
      <3>2. CASE RP!DispatchNothing \/ RP!DispatchThrottled
        BY <3>2 DEF RP!DispatchNothing, RP!DispatchThrottled
      <3>. QED  BY <2>1, <3>1, <3>2 DEF RP!NextDispatchBatch
    <2>. QED  BY <2>2, <2>3, <2>4, <2>5 DEF vars, plants, TypeOK, QueueInv, QueueSound
  <1>4. CASE SendNext
    <2>1. /\ outbox # <<>> /\ outbox' = Tail(outbox) /\ turn' = turn /\ turn = "send"
          /\ WireCommand(Head(outbox).command, Head(outbox).execute_at)
      BY <1>4 DEF SendNext, Runner!SendNext
    <2>2. TypeOK' /\ QueueInv'
      <3>1. Head(outbox).command \in Command /\ Head(outbox).execute_at \in Nat
        BY <2>1, NextSent
      <3>. QED  BY <2>1, <3>1, AcceptType, AcceptQueueInv DEF WireCommand
    <2>3. stepping' = stepping /\ outbox' \in Seq(ScheduledEnvelope)
      BY <2>1, NextSent DEF WireCommand, Accept
    <2>4. RP!RunnerInv'
      <3>1. UNCHANGED <<job_queue, last_controller_status, total_enqueued, total_dispatched,
                        total_completed, last_dispatched_tick, state>>
        BY <1>4 DEF SendNext, Runner!SendNext, Runner!counters
      <3>2. state # "Completed"
        BY <2>1 DEF RP!RunnerInv, RP!CompletedIsDrained
      <3>. QED  BY <3>1, <3>2 DEF RP!RunnerInv, RP!CompletedIsDrained, RP!Conserved
    <2>5. job_queue' \in Seq(Envelopes)
      BY <1>4 DEF SendNext, Runner!SendNext
    <2>. QED  BY <2>1, <2>2, <2>3, <2>4, <2>5
  <1>5. CASE SendFails \/ DispatchAgain
    <2>1. /\ UNCHANGED vars
          /\ turn = "send" /\ turn' \in {"send", "dispatch"}
          /\ outbox' = <<>> /\ <<>> \in Seq(ScheduledEnvelope)
          /\ turn' = "dispatch" => outbox = <<>>
      BY <1>5 DEF SendFails, DispatchAgain, Runner!SendFails, runnerVars
    <2>2. UNCHANGED <<job_queue, last_controller_status, total_enqueued, total_dispatched,
                      total_completed, last_dispatched_tick, state>>
      BY <1>5 DEF SendFails, DispatchAgain, Runner!SendFails, Runner!counters, runnerVars
    <2>3. RP!RunnerInv'
      BY <2>1, <2>2 DEF RP!RunnerInv, RP!CompletedIsDrained, RP!Conserved
    <2>. QED  BY <2>1, <2>2, <2>3 DEF vars, plants, TypeOK, QueueInv, QueueSound
  <1>6. CASE RunStarts \/ RunEnds \/ StreamReset
    <2>1. UNCHANGED runnerVars /\ [Next]_vars
      BY <1>6 DEF RunStarts, RunEnds, StreamReset, Next
    <2>2. TypeOK' /\ QueueInv'
      BY <2>1, TypeStep, QueueStep
    <2>3. RP!RunnerInv' /\ outbox' = outbox /\ job_queue' = job_queue
      BY <2>1 DEF runnerVars, RP!RunnerInv, RP!CompletedIsDrained, RP!Conserved
    <2>4. /\ turn' \in {"status", "dispatch", "send", "run"}
          /\ turn' # "send" => outbox = <<>>
          /\ stepping' <=> turn' = "run"
      <3>1. CASE RunStarts
        <4>1. turn' = "run" /\ stepping' = TRUE /\ outbox = <<>>
          BY <3>1 DEF RunStarts, Tick
        <4>. QED  BY <4>1
      <3>2. CASE RunEnds
        <4>1. turn = "run" /\ turn' = "status" /\ stepping' = FALSE
          BY <3>2 DEF RunEnds, Finish
        <4>. QED  BY <4>1
      <3>3. CASE StreamReset
        <4>1. turn' = turn /\ turn # "send" /\ stepping' = stepping
          BY <3>3 DEF StreamReset, Reset
        <4>. QED  BY <4>1
      <3>. QED  BY <1>6, <3>1, <3>2, <3>3
    <2>. QED  BY <2>2, <2>3, <2>4
  <1>7. CASE UNCHANGED streamVars
    BY <1>7 DEF streamVars, runnerVars, vars, plants, TypeOK, QueueInv, QueueSound,
                RP!RunnerInv, RP!CompletedIsDrained, RP!Conserved
  <1>. QED  BY <1>1, <1>2, <1>3, <1>4, <1>5, <1>6, <1>7 DEF StreamNext, HostLoop

\* The stream is typed throughout.
LEMMA StreamTypes == StreamSpec => []StreamTyped
  <1>1. StreamInit => StreamTyped
    <2>. SUFFICES ASSUME StreamInit  PROVE StreamTyped
      OBVIOUS
    <2>1. TypeOK
      BY TypeInit DEF StreamInit
    <2>2. QueueInv
      BY QueueInit DEF StreamInit
    <2>3. RP!RunnerInv
      BY DEF StreamInit, Runner!Init, RP!RunnerInv, RP!Conserved, RP!CompletedIsDrained
    <2>4. outbox = <<>> /\ job_queue = <<>> /\ turn = "status" /\ stepping = FALSE
      BY DEF StreamInit, Runner!Init, Init
    <2>. QED  BY <2>1, <2>2, <2>3, <2>4 DEF StreamTyped
  <1>. QED  BY <1>1, StreamTypedStep, PTL DEF StreamSpec

-----------------------------------------------------------------------------
(* The horizon.                                                            *)

\* What the controller queues and what is on its way stay within the target
\* horizon and the controller's capacity, because a batch is cut to a status
\* that counts everything the controller queues.
HorizonInv ==
    /\ Len(queue) + Len(outbox) <= target_horizon
    /\ Len(queue) + Len(outbox) <= QueueCapacity
    /\ turn = "dispatch" =>
          /\ last_controller_status # None
          /\ Len(queue) <= last_controller_status.queue_fill
          /\ last_controller_status.queue_capacity = QueueCapacity

\* The lengths are numbers.
LEMMA Lengths ==
    ASSUME StreamTyped
    PROVE  Len(queue) \in Nat /\ Len(outbox) \in Nat /\ (turn # "send" => Len(outbox) = 0)
  BY DEF StreamTyped, TypeOK

\* A command that is handed over is queued or refused.
LEMMA SentIsQueued ==
    ASSUME StreamTyped, SendNext
    PROVE  /\ turn = "send" /\ turn' = turn /\ now' = now
           /\ Len(outbox') = Len(outbox) - 1
           /\ queue' = queue \/ Len(queue') = Len(queue) + 1
  <1>1. /\ turn = "send" /\ turn' = turn /\ outbox # <<>> /\ outbox' = Tail(outbox)
        /\ Accept(Head(outbox).command, Head(outbox).execute_at)
    BY DEF SendNext, Runner!SendNext, WireCommand
  <1>. DEFINE c == Head(outbox).command
              t == Head(outbox).execute_at
              e == [execute_at |-> IF t = None THEN now ELSE t, command |-> c]
  <1>2. now' = now /\ (queue' = queue \/ Enqueue(c, t))
    BY <1>1 DEF Accept
  <1>3. e \in QueuedCommand
    BY <1>1, NextSent DEF QueuedCommand, StreamTyped, TypeOK
  <1>4. CASE Enqueue(c, t)
    <2>1. PICK p \in 1 .. Len(queue) + 1 : queue' = InsertAt(queue, p, e)
      BY <1>4 DEF Enqueue
    <2>. HIDE DEF e
    <2>. QED  BY <1>1, <1>2, <1>3, <2>1, NextSent, QueueInserted DEF StreamTyped
  <1>. QED  BY <1>1, <1>2, <1>4, NextSent

\* Every step keeps within the horizon, when the loop reads the status anew
\* before every dispatch.
LEMMA HorizonStep ==
    ASSUME RereadsStatus, StreamTyped, HorizonInv, [StreamNext]_streamVars
    PROVE  HorizonInv'
  <1>. USE Lengths
  <1>1. CASE \E n \in 1 .. MaxBatch : \E envelopes \in [1 .. n -> Envelopes] : Enqueues(envelopes)
    <2>1. UNCHANGED <<queue, outbox, turn, last_controller_status>>
      BY <1>1 DEF Enqueues, Runner!EnqueueBatch, vars
    <2>. QED  BY <2>1 DEF HorizonInv
  <1>2. CASE ReadStatus
    <2>1. /\ UNCHANGED <<queue, outbox>> /\ turn' = "dispatch"
          /\ last_controller_status' = SessionStatus
      BY <1>2 DEF ReadStatus, Runner!UpdateControllerStatus, vars
    <2>2. /\ SessionStatus.queue_fill = Len(queue) /\ SessionStatus.queue_capacity = QueueCapacity
          /\ SessionStatus # None
      BY SessionStatusType, RunnerConstants DEF StreamTyped, RP!RunnerAssumption
    <2>. QED  BY <2>1, <2>2 DEF HorizonInv
  <1>3. CASE Dispatch
    <2>1. UNCHANGED queue /\ turn = "dispatch" /\ turn' = "send"
      BY <1>3 DEF Dispatch, vars
    <2>2. CASE RP!DispatchBatch
      <3>1. /\ RP!Believed.queue_fill \in Nat
            /\ Len(queue) <= RP!Believed.queue_fill
            /\ RP!Believed.queue_capacity = QueueCapacity
        <4>1. RP!Believed = last_controller_status
          BY <2>1 DEF RP!Believed, HorizonInv
        <4>2. RP!Believed.queue_fill \in Nat
          BY RunnerConstants, RP!BelievedType DEF StreamTyped
        <4>. QED  BY <2>1, <4>1, <4>2 DEF HorizonInv
      <3>2. /\ RP!Horizon \in Nat /\ RP!Horizon <= target_horizon
            /\ RP!Horizon <= RP!Believed.queue_capacity
        BY RunnerConstants, RP!HorizonType DEF StreamTyped
      <3>3. /\ RP!BatchSize \in 1 .. Len(job_queue)
            /\ RP!Believed.queue_fill + RP!BatchSize <= RP!Horizon
            /\ Len(outbox') = RP!BatchSize
        BY <2>2, RunnerConstants, RP!BatchShape DEF StreamTyped
      <3>4. RP!BatchSize \in Nat
        BY <3>3 DEF StreamTyped
      <3>5. Len(queue) + Len(outbox') <= RP!Horizon
        BY <3>1, <3>2, <3>3, <3>4
      <3>. QED  BY <2>1, <3>1, <3>2, <3>3, <3>4, <3>5, JobAssumption, QueueAssumption DEF HorizonInv
    <2>3. CASE RP!DispatchNothing \/ RP!DispatchThrottled
      <3>1. outbox' = outbox
        BY <2>3 DEF RP!DispatchNothing, RP!DispatchThrottled
      <3>. QED  BY <2>1, <3>1 DEF HorizonInv
    <2>. QED  BY <1>3, <2>2, <2>3, SameDispatch DEF Dispatch, RP!NextDispatchBatch
  <1>4. CASE SendNext
    <2>1. /\ turn' = "send" /\ Len(outbox') = Len(outbox) - 1
          /\ queue' = queue \/ Len(queue') = Len(queue) + 1
      BY <1>4, SentIsQueued
    <2>. QED  BY <2>1, JobAssumption, QueueAssumption DEF HorizonInv
  <1>5. CASE SendFails
    <2>1. queue' = queue /\ turn' = "send" /\ Len(outbox') = 0
      BY <1>5 DEF SendFails, Runner!SendFails, vars
    <2>. QED  BY <2>1, JobAssumption, QueueAssumption DEF HorizonInv
  <1>6. CASE DispatchAgain
    BY <1>6 DEF DispatchAgain
  <1>7. CASE RunStarts
    <2>1. queue' = queue /\ turn' = "run" /\ outbox' = outbox
      BY <1>7 DEF RunStarts, Tick, runnerVars
    <2>. QED  BY <2>1 DEF HorizonInv
  <1>8. CASE RunEnds
    <2>1. /\ \E n \in 0 .. Len(queue) : queue' = SubSeq(queue, n + 1, Len(queue))
          /\ turn' = "status" /\ outbox' = outbox
      BY <1>8 DEF RunEnds, Finish, runnerVars
    <2>2. Len(queue') \in Nat /\ Len(queue') <= Len(queue)
      BY <2>1, PoppedIsQueue DEF StreamTyped, TypeOK
    <2>. QED  BY <2>1, <2>2, JobAssumption, QueueAssumption DEF HorizonInv
  <1>9. CASE StreamReset
    <2>1. Len(queue') = 0 /\ UNCHANGED <<turn, outbox, last_controller_status>>
      BY <1>9 DEF StreamReset, Reset, runnerVars
    <2>2. last_controller_status # None => last_controller_status.queue_fill \in Nat
      <3>1. last_controller_status \in RP!ControllerSessionStatus \cup {None}
        BY DEF StreamTyped, RP!RunnerInv
      <3>. QED  BY <3>1 DEF RP!ControllerSessionStatus
    <2>3. /\ Len(queue') + Len(outbox') <= target_horizon
          /\ Len(queue') + Len(outbox') <= QueueCapacity
      BY <2>1, JobAssumption, QueueAssumption DEF HorizonInv
    <2>4. turn' = "dispatch" =>
             /\ last_controller_status' # None
             /\ Len(queue') <= last_controller_status'.queue_fill
             /\ last_controller_status'.queue_capacity = QueueCapacity
      BY <2>1, <2>2 DEF HorizonInv
    <2>. QED  BY <2>3, <2>4 DEF HorizonInv
  <1>10. CASE UNCHANGED streamVars
    BY <1>10 DEF streamVars, vars, runnerVars, HorizonInv
  <1>. QED  BY <1>1, <1>2, <1>3, <1>4, <1>5, <1>6, <1>7, <1>8, <1>9, <1>10
            DEF StreamNext, HostLoop

\* The controller's queue never exceeds the runner's target horizon, however
\* enqueueing, dispatching, executing, transport errors and resets interleave,
\* in a loop that reads the status before every dispatch (next_dispatch_batch).
THEOREM HorizonTheorem == ASSUME RereadsStatus  PROVE StreamSpec => []HorizonKept
  <1>1. StreamInit => HorizonInv
    BY JobAssumption, QueueAssumption DEF StreamInit, Init, Runner!Init, HorizonInv
  <1>2. StreamTyped /\ HorizonInv /\ [StreamNext]_streamVars => HorizonInv'
    BY HorizonStep
  <1>3. StreamTyped /\ HorizonInv => HorizonKept
    BY Lengths, JobAssumption DEF HorizonInv, HorizonKept
  <1>. QED  BY <1>1, <1>2, <1>3, StreamTypes, PTL DEF StreamSpec

-----------------------------------------------------------------------------
(* The margin.                                                             *)

\* The job asks for no ticks of its own, as the lowerer leaves it.
UntimedJob == \A e \in Envelopes : e.execute_at = None

\* Ticks are a margin apart within a batch, and between what is on its way
\* and what is queued; the runner remembers the latest of them.
MarginInv ==
    /\ \A i, j \in 1 .. Len(outbox) :
          i < j => outbox[j].execute_at >= outbox[i].execute_at + schedule_lead_margin_us
    /\ \A k \in 1 .. Len(queue), i \in 1 .. Len(outbox) :
          outbox[i].execute_at >= queue[k].execute_at + schedule_lead_margin_us
    /\ \A k \in 1 .. Len(queue) :
          last_dispatched_tick # None /\ queue[k].execute_at <= last_dispatched_tick
    /\ \A i \in 1 .. Len(outbox) :
          last_dispatched_tick # None /\ outbox[i].execute_at <= last_dispatched_tick

\* The runner schedules every command of such a job.
LEMMA JobIsUntimed ==
    ASSUME UntimedJob, StreamTyped
    PROVE  RP!Untimed
  <1>1. \A i \in 1 .. Len(job_queue) : job_queue[i] \in Envelopes
    BY DEF StreamTyped
  <1>. QED  BY <1>1 DEF UntimedJob, RP!Untimed

\* What is sent and what is queued has its tick.
LEMMA TickTypes ==
    ASSUME StreamTyped
    PROVE  /\ \A i \in 1 .. Len(outbox) : outbox[i].execute_at \in Nat
           /\ \A k \in 1 .. Len(queue) : queue[k].execute_at \in Nat
           /\ last_dispatched_tick \in Nat \cup {None}
           /\ schedule_lead_margin_us \in Nat
  <1>1. \A i \in 1 .. Len(outbox) : outbox[i] \in ScheduledEnvelope
    BY DEF StreamTyped
  <1>2. \A i \in 1 .. Len(outbox) : outbox[i].execute_at \in Nat
    BY <1>1 DEF ScheduledEnvelope
  <1>3. \A k \in 1 .. Len(queue) : queue[k].execute_at \in Nat
    BY QueuedInstants DEF StreamTyped
  <1>. QED  BY <1>2, <1>3, JobAssumption DEF StreamTyped, RP!RunnerInv

\* A command that is handed over and not refused goes behind what is queued.
LEMMA SentIsAppended ==
    ASSUME StreamTyped, MarginInv, SendNext
    PROVE  IF Admissible(outbox[1].command, outbox[1].execute_at)
           THEN queue' = Append(queue, [execute_at |-> outbox[1].execute_at,
                                        command |-> outbox[1].command])
           ELSE queue' = queue
  <1>. DEFINE c == outbox[1].command
              t == outbox[1].execute_at
              e == [execute_at |-> t, command |-> c]
  <1>1. /\ outbox # <<>> /\ Head(outbox) = outbox[1] /\ t \in Nat /\ t # None
        /\ e \in QueuedCommand /\ 1 \in 1 .. Len(outbox)
    BY NextSent DEF SendNext, Runner!SendNext, QueuedCommand
  <1>2. Accept(c, t)
    BY <1>1 DEF SendNext, WireCommand
  <1>3. IF Admissible(c, t) THEN Enqueue(c, t) ELSE queue' = queue
    BY <1>2 DEF Accept
  <1>4. ASSUME Enqueue(c, t)  PROVE queue' = Append(queue, e)
    <2>1. PICK p \in 1 .. Len(queue) + 1 :
             /\ p <= Len(queue) => queue[p].execute_at > t
             /\ queue' = InsertAt(queue, p, e)
      BY <1>1, <1>4 DEF Enqueue
    <2>. HIDE DEF e
    <2>2. queue \in Seq(QueuedCommand) /\ Len(queue) \in Nat
      BY DEF StreamTyped, TypeOK
    <2>3. p = Len(queue) + 1
      <3>1. SUFFICES ASSUME p <= Len(queue)  PROVE FALSE
        BY <2>2
      <3>2. p \in 1 .. Len(queue) /\ queue[p].execute_at > t
        BY <2>1, <2>2, <3>1
      <3>3. t >= queue[p].execute_at + schedule_lead_margin_us
        BY <1>1, <3>2 DEF MarginInv
      <3>. QED  BY <1>1, <3>2, <3>3, TickTypes
    <2>4. /\ queue' \in Seq(QueuedCommand) /\ Len(queue') = Len(queue) + 1
          /\ \A i \in 1 .. Len(queue) + 1 :
                queue'[i] = IF i < p THEN queue[i] ELSE IF i = p THEN e ELSE queue[i - 1]
      <3>1. e \in QueuedCommand /\ TypeOK /\ queue' = InsertAt(queue, p, e)
        BY <1>1, <2>1 DEF StreamTyped
      <3>2. /\ InsertAt(queue, p, e) \in Seq(QueuedCommand)
            /\ Len(InsertAt(queue, p, e)) = Len(queue) + 1
            /\ \A i \in 1 .. Len(queue) + 1 :
                  InsertAt(queue, p, e)[i] =
                      IF i < p THEN queue[i] ELSE IF i = p THEN e ELSE queue[i - 1]
        BY <3>1, QueueInserted
      <3>. QED  BY <3>1, <3>2
    <2>5. \A i \in 1 .. Len(queue) + 1 : queue'[i] = IF i <= Len(queue) THEN queue[i] ELSE e
      BY <2>2, <2>3, <2>4
    <2>6. queue' = Append(queue, e)
      BY <1>1, <2>2, <2>4, <2>5, SeqEqual
    <2>. QED  BY <2>6 DEF e
  <1>. QED  BY <1>3, <1>4

\* A batch keeps the margin, within itself and to what is queued.
LEMMA BatchMargin ==
    ASSUME UntimedJob, StreamTyped, MarginInv, outbox = <<>>, RP!DispatchBatch, queue' = queue
    PROVE  MarginInv'
  <1>. DEFINE n == RP!BatchSize
              margin == schedule_lead_margin_us
  <1>1. /\ n \in 1 .. Len(job_queue) /\ Len(outbox') = n
        /\ last_dispatched_tick' = RP!TickOf[n]
        /\ \A i \in 1 .. n : outbox'[i].execute_at = RP!TickOf[i] /\ RP!TickOf[i] \in Nat
    BY RunnerConstants, RP!BatchShape DEF StreamTyped
  <1>. HIDE DEF n
  <1>2. n \in Nat /\ n <= Len(job_queue) /\ Len(job_queue) \in Nat
    BY <1>1 DEF StreamTyped
  <1>3. \A i, j \in 0 .. Len(job_queue) :
           i < j /\ RP!TickOf[i] # None => RP!TickOf[j] >= RP!TickOf[i] + margin
    BY RunnerConstants, JobIsUntimed, RP!UntimedSpaced DEF StreamTyped
  <1>4. RP!TickOf[0] = last_dispatched_tick
    BY RunnerConstants, RP!TickOfRecursion DEF StreamTyped
  <1>5. RP!TickOf[n] \in Nat /\ RP!TickOf[n] # None
    BY <1>1, <1>2, InputAssumption
  <1>6. ASSUME NEW i \in 1 .. n, NEW j \in 1 .. n, i < j
        PROVE  RP!TickOf[j] >= RP!TickOf[i] + margin
    <2>1. i \in 0 .. Len(job_queue) /\ j \in 0 .. Len(job_queue) /\ RP!TickOf[i] # None
      BY <1>1, <1>2, InputAssumption
    <2>. QED  BY <1>3, <1>6, <2>1
  <1>7. ASSUME NEW k \in 1 .. Len(queue), NEW i \in 1 .. n
        PROVE  /\ RP!TickOf[i] >= queue[k].execute_at + margin
               /\ queue[k].execute_at <= RP!TickOf[i]
    <2>1. /\ last_dispatched_tick \in Nat /\ last_dispatched_tick # None
          /\ queue[k].execute_at <= last_dispatched_tick
      BY TickTypes DEF MarginInv
    <2>2. 0 \in 0 .. Len(job_queue) /\ i \in 0 .. Len(job_queue) /\ 0 < i
      BY <1>2
    <2>3. RP!TickOf[i] >= last_dispatched_tick + margin
      BY <1>3, <1>4, <2>1, <2>2
    <2>4. RP!TickOf[i] \in Nat /\ queue[k].execute_at \in Nat /\ margin \in Nat
      BY <1>1, TickTypes
    <2>. HIDE DEF margin
    <2>. QED  BY <2>1, <2>3, <2>4
  <1>8. ASSUME NEW i \in 1 .. n  PROVE RP!TickOf[i] <= RP!TickOf[n]
    <2>1. i = n \/ i < n
      BY <1>2
    <2>2. RP!TickOf[i] \in Nat /\ margin \in Nat /\ n \in 1 .. n
      BY <1>1, <1>2, TickTypes
    <2>3. i < n => RP!TickOf[n] >= RP!TickOf[i] + margin
      BY <1>6, <2>2
    <2>. HIDE DEF margin
    <2>. QED  BY <1>5, <2>1, <2>2, <2>3
  <1>9. n \in 1 .. n
    BY <1>1, <1>2
  <1>. QED  BY <1>1, <1>5, <1>6, <1>7, <1>8, <1>9 DEF MarginInv

\* Every step keeps the margins.
LEMMA MarginStep ==
    ASSUME UntimedJob, StreamTyped, MarginInv, [StreamNext]_streamVars
    PROVE  MarginInv'
  <1>1. CASE \E n \in 1 .. MaxBatch : \E envelopes \in [1 .. n -> Envelopes] : Enqueues(envelopes)
    <2>1. UNCHANGED <<queue, outbox, last_dispatched_tick>>
      BY <1>1 DEF Enqueues, Runner!EnqueueBatch, vars
    <2>. QED  BY <2>1 DEF MarginInv
  <1>2. CASE ReadStatus
    <2>1. UNCHANGED <<queue, outbox, last_dispatched_tick>>
      BY <1>2 DEF ReadStatus, Runner!UpdateControllerStatus, vars
    <2>. QED  BY <2>1 DEF MarginInv
  <1>3. CASE Dispatch
    <2>1. queue' = queue /\ outbox = <<>>
      BY <1>3 DEF Dispatch, vars, StreamTyped
    <2>2. CASE RP!DispatchBatch
      BY <2>1, <2>2, BatchMargin
    <2>3. CASE RP!DispatchNothing \/ RP!DispatchThrottled
      <3>1. outbox' = outbox /\ last_dispatched_tick' = last_dispatched_tick
        BY <2>3 DEF RP!DispatchNothing, RP!DispatchThrottled
      <3>. QED  BY <2>1, <3>1 DEF MarginInv
    <2>. QED  BY <1>3, <2>2, <2>3, SameDispatch DEF Dispatch, RP!NextDispatchBatch
  <1>4. CASE SendNext
    <2>. DEFINE e == [execute_at |-> outbox[1].execute_at, command |-> outbox[1].command]
    <2>1. /\ outbox # <<>> /\ outbox' = Tail(outbox)
          /\ last_dispatched_tick' = last_dispatched_tick
      BY <1>4 DEF SendNext, Runner!SendNext
    <2>2. /\ Len(outbox) \in Nat \ {0} /\ Len(outbox') = Len(outbox) - 1
          /\ \A i \in 1 .. Len(outbox) - 1 : outbox'[i] = outbox[i + 1]
          /\ outbox[1].execute_at \in Nat
      BY <2>1, NextSent
    <2>3. queue' = queue \/ queue' = Append(queue, e)
      BY <1>4, SentIsAppended
    <2>4. queue \in Seq(QueuedCommand) /\ Len(queue) \in Nat /\ e.execute_at = outbox[1].execute_at
      BY DEF StreamTyped, TypeOK
    <2>. HIDE DEF e
    <2>5. ASSUME NEW k \in 1 .. Len(queue')
          PROVE  \/ k \in 1 .. Len(queue) /\ queue'[k] = queue[k]
                 \/ queue'[k].execute_at = outbox[1].execute_at
      BY <2>3, <2>4
    <2>6. ASSUME NEW i \in 1 .. Len(outbox')
          PROVE  i + 1 \in 1 .. Len(outbox) /\ 1 \in 1 .. Len(outbox) /\ 1 < i + 1
                   /\ outbox'[i] = outbox[i + 1]
      BY <2>2
    <2>7. \A i, j \in 1 .. Len(outbox') :
             i < j => outbox'[j].execute_at >= outbox'[i].execute_at + schedule_lead_margin_us
      BY <2>6 DEF MarginInv
    <2>8. \A k \in 1 .. Len(queue'), i \in 1 .. Len(outbox') :
             outbox'[i].execute_at >= queue'[k].execute_at + schedule_lead_margin_us
      BY <2>5, <2>6 DEF MarginInv
    <2>9. 1 \in 1 .. Len(outbox)
      BY <2>2
    <2>10. \A k \in 1 .. Len(queue') :
              last_dispatched_tick # None /\ queue'[k].execute_at <= last_dispatched_tick
      BY <2>5, <2>9 DEF MarginInv
    <2>11. \A i \in 1 .. Len(outbox') :
              last_dispatched_tick # None /\ outbox'[i].execute_at <= last_dispatched_tick
      BY <2>6 DEF MarginInv
    <2>. QED  BY <2>1, <2>7, <2>8, <2>10, <2>11 DEF MarginInv
  <1>5. CASE SendFails
    <2>1. /\ queue' = queue /\ Len(outbox') = 0
          /\ last_dispatched_tick' = last_dispatched_tick
      BY <1>5 DEF SendFails, Runner!SendFails, vars
    <2>. QED  BY <2>1 DEF MarginInv
  <1>6. CASE RunEnds
    <2>1. /\ \E n \in 0 .. Len(queue) : queue' = SubSeq(queue, n + 1, Len(queue))
          /\ outbox' = outbox /\ last_dispatched_tick' = last_dispatched_tick
      BY <1>6 DEF RunEnds, Finish, runnerVars
    <2>2. PICK n \in 0 .. Len(queue) :
             /\ Len(queue') = Len(queue) - n
             /\ \A i \in 1 .. Len(queue) - n : queue'[i] = queue[n + i]
      BY <2>1, PoppedIsQueue DEF StreamTyped, TypeOK
    <2>3. ASSUME NEW k \in 1 .. Len(queue')
          PROVE  n + k \in 1 .. Len(queue) /\ queue'[k] = queue[n + k]
      BY <2>2, Lengths
    <2>. QED  BY <2>1, <2>3 DEF MarginInv
  <1>7. CASE StreamReset
    <2>1. /\ Len(queue') = 0 /\ outbox' = outbox
          /\ last_dispatched_tick' = last_dispatched_tick
      BY <1>7 DEF StreamReset, Reset, runnerVars
    <2>. QED  BY <2>1 DEF MarginInv
  <1>8. CASE RunStarts \/ DispatchAgain \/ UNCHANGED streamVars
    <2>1. UNCHANGED <<queue, outbox, last_dispatched_tick>>
      BY <1>8 DEF RunStarts, Tick, DispatchAgain, streamVars, vars, runnerVars
    <2>. QED  BY <2>1 DEF MarginInv
  <1>. QED  BY <1>1, <1>2, <1>3, <1>4, <1>5, <1>6, <1>7, <1>8 DEF StreamNext, HostLoop

\* The margins hold throughout.
LEMMA MarginInvariant == ASSUME UntimedJob  PROVE StreamSpec => []MarginInv
  <1>1. StreamInit => MarginInv
    BY DEF StreamInit, Init, Runner!Init, MarginInv
  <1>2. StreamTyped /\ MarginInv /\ [StreamNext]_streamVars => MarginInv'
    BY MarginStep
  <1>. QED  BY <1>1, <1>2, StreamTypes, PTL DEF StreamSpec

\* Commands enter the controller's queue in the order of the job and at least
\* a margin apart, through transport errors that drop the rest of a batch,
\* dispatches on an old status, and resets (next_dispatch_batch, accept).
THEOREM MarginTheorem == ASSUME UntimedJob  PROVE StreamSpec => MarginKept
  <1>. DEFINE Keeps ==
         Len(queue') > Len(queue) =>
            LET new == queue'[Len(queue')]
            IN  /\ queue' = Append(queue, new)
                /\ queue # <<>> =>
                      new.execute_at >= queue[Len(queue)].execute_at + schedule_lead_margin_us
  <1>1. StreamTyped /\ MarginInv /\ [StreamNext]_streamVars => [Keeps]_streamVars
    <2>. SUFFICES ASSUME StreamTyped, MarginInv, [StreamNext]_streamVars, Len(queue') > Len(queue)
                  PROVE  Keeps
      OBVIOUS
    <2>1. queue \in Seq(QueuedCommand) /\ Len(queue) \in Nat
      BY DEF StreamTyped, TypeOK
    <2>2. SendNext
      <3>1. RunEnds => Len(queue') <= Len(queue)
        <4>1. RunEnds => \E n \in 0 .. Len(queue) : queue' = SubSeq(queue, n + 1, Len(queue))
          BY DEF RunEnds, Finish
        <4>. QED  BY <2>1, <4>1, PoppedIsQueue
      <3>2. StreamReset => Len(queue') = 0
        BY DEF StreamReset, Reset
      <3>3. RunEnds \/ StreamReset \/ SendNext \/ queue' = queue
        BY DEF StreamNext, HostLoop, Enqueues, ReadStatus, Dispatch, SendFails, DispatchAgain,
               RunStarts, Tick, streamVars, vars
      <3>. QED  BY <2>1, <3>1, <3>2, <3>3
    <2>. DEFINE e == [execute_at |-> outbox[1].execute_at, command |-> outbox[1].command]
    <2>3. queue' = Append(queue, e)
      BY <2>1, <2>2, SentIsAppended
    <2>4. 1 \in 1 .. Len(outbox) /\ e.execute_at = outbox[1].execute_at
      BY <2>2, NextSent DEF SendNext, Runner!SendNext
    <2>. HIDE DEF e
    <2>5. queue'[Len(queue')] = e
      BY <2>1, <2>3
    <2>6. queue # <<>> => Len(queue) \in 1 .. Len(queue)
      BY <2>1
    <2>7. queue # <<>> =>
             e.execute_at >= queue[Len(queue)].execute_at + schedule_lead_margin_us
      BY <2>4, <2>6 DEF MarginInv
    <2>. QED  BY <2>3, <2>5, <2>7
  <1>. QED  BY <1>1, StreamTypes, MarginInvariant, PTL DEF StreamSpec, MarginKept

-----------------------------------------------------------------------------
(* Acceptance and completion.                                              *)

\* The most a command leads the clock when nothing is before it, and the most
\* commands that are ever pending.
Lead == IF DefaultWindow.min_lead_ticks >= schedule_lead_margin_us
        THEN DefaultWindow.min_lead_ticks ELSE schedule_lead_margin_us
Depth == IF target_horizon <= QueueCapacity THEN target_horizon ELSE QueueCapacity

\* A loop that reads the status before every dispatch, a transport that
\* works, no reset, and a job without ticks and heartbeats; the window opens
\* and the margin falls on the controller's quantum, and a full horizon of
\* commands a margin apart fits into the window.
Streamable ==
    /\ RereadsStatus /\ ~Resets /\ ~SinkFails
    /\ UntimedJob /\ \A e \in Envelopes : ~IsHeartbeat(e.command)
    /\ DefaultWindow.min_lead_ticks % STEP_TICKS = 0
    /\ schedule_lead_margin_us % STEP_TICKS = 0
    /\ Lead + (Depth - 1) * schedule_lead_margin_us <= DefaultWindow.max_horizon_ticks

\* What was dispatched and has not been started: the controller's queue and
\* what is on its way to it.
Pending == Len(queue) + Len(outbox)
PendingTick(k) == IF k <= Len(queue) THEN queue[k].execute_at
                  ELSE outbox[k - Len(queue)].execute_at

\* The controller runs undisturbed, and a dispatch goes by what it is.
StatusInv ==
    /\ ~latched_fault /\ queue_window = DefaultWindow
    /\ turn = "dispatch" =>
          /\ last_controller_status # None
          /\ last_controller_status.earliest_accepted_tick = EarliestAccepted
          /\ total_completed = total_dispatched - Len(queue)

\* What is on its way has a tick that the window admits from below.
GridInv ==
    /\ \A i \in 1 .. Len(outbox) : /\ outbox[i].execute_at >= EarliestAccepted
                                   /\ outbox[i].execute_at % STEP_TICKS = 0
    /\ last_dispatched_tick # None => last_dispatched_tick % STEP_TICKS = 0

\* The first pending command is due within the lead, and every other one a
\* margin after the one before it or as early as the window admitted it; the
\* runner remembers the tick of the last.
ChainInv ==
    /\ Pending > 0 => /\ PendingTick(1) <= now + Lead
                      /\ last_dispatched_tick = PendingTick(Pending)
    /\ Pending = 0 /\ last_dispatched_tick # None => last_dispatched_tick <= now
    /\ \A k \in 1 .. Pending - 1 :
          \/ PendingTick(k + 1) <= PendingTick(k) + schedule_lead_margin_us
          \/ PendingTick(k + 1) <= now + DefaultWindow.min_lead_ticks

\* Everything dispatched is pending or has been started.
CountInv ==
    /\ started \in Nat
    /\ started + Pending = total_dispatched
    /\ CompletedMeansStarted

FlowInv == StatusInv /\ GridInv /\ ChainInv /\ CountInv

\* The lead and the depth are numbers that bound what they should.
LEMMA LeadType ==
    /\ Lead \in Nat /\ Depth \in Nat
    /\ DefaultWindow.min_lead_ticks \in Nat /\ DefaultWindow.max_horizon_ticks \in Nat
    /\ schedule_lead_margin_us \in Nat
    /\ DefaultWindow.min_lead_ticks <= Lead /\ schedule_lead_margin_us <= Lead
  <1>1. /\ DefaultWindow.min_lead_ticks \in Nat /\ DefaultWindow.max_horizon_ticks \in Nat
        /\ schedule_lead_margin_us \in Nat /\ target_horizon \in Nat /\ QueueCapacity \in Nat
    BY QueueAssumption, JobAssumption DEF QueueWindow
  <1>. QED  BY <1>1 DEF Lead, Depth

\* Pending commands have ticks.
LEMMA PendingTypes ==
    ASSUME StreamTyped
    PROVE  /\ Pending \in Nat /\ now \in Nat
           /\ \A k \in 1 .. Pending : PendingTick(k) \in Nat
  <1>1. Pending \in Nat /\ now \in Nat
    BY Lengths DEF Pending, StreamTyped, TypeOK
  <1>2. ASSUME NEW k \in 1 .. Pending  PROVE PendingTick(k) \in Nat
    <2>1. CASE k <= Len(queue)
      <3>1. k \in 1 .. Len(queue)
        BY <2>1, <1>1, Lengths
      <3>. QED  BY <2>1, <3>1, TickTypes DEF PendingTick
    <2>2. CASE ~(k <= Len(queue))
      <3>1. k - Len(queue) \in 1 .. Len(outbox)
        BY <2>2, Lengths DEF Pending
      <3>. QED  BY <2>2, <3>1, TickTypes DEF PendingTick
    <2>. QED  BY <2>1, <2>2
  <1>. QED  BY <1>1, <1>2

\* One more factor.
LEMMA OneMore ==
    ASSUME NEW m \in Nat, NEW k \in Nat
    PROVE  (k + 1) * m = k * m + m /\ k * m \in Nat
  OBVIOUS

\* Products grow with their factors.
LEMMA ProductGrows ==
    ASSUME NEW m \in Nat, NEW a \in Nat, NEW b \in Nat, a <= b
    PROVE  a * m <= b * m
  <1>1. b * m = a * m + (b - a) * m
    OBVIOUS
  <1>2. (b - a) * m \in Nat /\ a * m \in Nat
    <2>1. b - a \in Nat
      OBVIOUS
    <2>. QED  BY <2>1
  <1>. QED  BY <1>1, <1>2

\* So the k-th pending command is due within the lead and k - 1 margins.
LEMMA PendingBounded ==
    ASSUME StreamTyped, ChainInv, NEW k \in 1 .. Pending
    PROVE  PendingTick(k) <= now + Lead + (k - 1) * schedule_lead_margin_us
  <1>. DEFINE margin == schedule_lead_margin_us
              P == { m \in Nat : m + 1 <= Pending =>
                                   PendingTick(m + 1) <= now + Lead + m * margin }
  <1>1. Pending \in Nat /\ now \in Nat /\ Lead \in Nat /\ margin \in Nat
    BY PendingTypes, LeadType
  <1>2. 0 \in P
    <2>1. 1 <= Pending => PendingTick(1) <= now + Lead
      BY <1>1 DEF ChainInv
    <2>. HIDE DEF margin
    <2>2. 0 * margin = 0
      BY <1>1
    <2>. QED  BY <1>1, <2>1, <2>2
  <1>3. ASSUME NEW m \in Nat, m \in P  PROVE m + 1 \in P
    <2>1. SUFFICES ASSUME (m + 1) + 1 <= Pending
                   PROVE  PendingTick((m + 1) + 1) <= now + Lead + (m + 1) * margin
      OBVIOUS
    <2>2. m + 1 \in 1 .. Pending - 1 /\ m + 1 \in 1 .. Pending /\ (m + 1) + 1 \in 1 .. Pending
      BY <1>1, <2>1
    <2>3. PendingTick(m + 1) \in Nat /\ PendingTick((m + 1) + 1) \in Nat
      BY <2>2, PendingTypes
    <2>4. PendingTick(m + 1) <= now + Lead + m * margin
      BY <1>1, <1>3, <2>2
    <2>5. \/ PendingTick((m + 1) + 1) <= PendingTick(m + 1) + margin
          \/ PendingTick((m + 1) + 1) <= now + Lead
      <3>1. \/ PendingTick((m + 1) + 1) <= PendingTick(m + 1) + margin
            \/ PendingTick((m + 1) + 1) <= now + DefaultWindow.min_lead_ticks
        BY <2>2 DEF ChainInv
      <3>. HIDE DEF margin
      <3>. QED  BY <1>1, <2>3, <3>1, LeadType
    <2>. DEFINE x == PendingTick(m + 1)  y == PendingTick((m + 1) + 1)
                p == m * margin  q == (m + 1) * margin
    <2>6. q = p + margin /\ p \in Nat
      BY <1>1, OneMore
    <2>. HIDE DEF x, y, p, q, margin
    <2>7. x \in Nat /\ y \in Nat /\ x <= now + Lead + p /\ (y <= x + margin \/ y <= now + Lead)
      BY <2>3, <2>4, <2>5 DEF x, y, p
    <2>8. y <= now + Lead + q
      BY <1>1, <2>6, <2>7
    <2>. QED  BY <2>8 DEF y, q
  <1>4. Nat \subseteq P
    <2>. HIDE DEF P
    <2>. QED  BY <1>2, <1>3, RunnerConstants, RP!NatSet
  <1>5. k - 1 \in Nat /\ (k - 1) + 1 = k /\ k <= Pending
    BY <1>1
  <1>6. k - 1 \in P
    BY <1>4, <1>5
  <1>. QED  BY <1>5, <1>6

\* A command that is handed over passes every check of accept.
LEMMA SentIsAdmitted ==
    ASSUME Streamable, StreamTyped, HorizonInv, FlowInv, SendNext
    PROVE  Admissible(outbox[1].command, outbox[1].execute_at)
  <1>. DEFINE c == outbox[1].command
              t == outbox[1].execute_at
              margin == schedule_lead_margin_us
  <1>1. /\ t \in Nat /\ t # None /\ outbox[1] \in ScheduledEnvelope
        /\ Len(outbox) \in Nat \ {0} /\ 1 \in 1 .. Len(outbox)
    BY NextSent DEF SendNext, Runner!SendNext
  <1>2. ~IsHeartbeat(c)
    BY <1>1 DEF ScheduledEnvelope, Streamable
  <1>3. ~latched_fault /\ t % STEP_TICKS = 0 /\ EarliestAccepted <= t
    <2>1. t >= EarliestAccepted /\ t % STEP_TICKS = 0
      BY <1>1 DEF FlowInv, GridInv
    <2>2. EarliestAccepted \in Nat
      BY DEF EarliestAccepted, StreamTyped, TypeOK, QueueWindow
    <2>. QED  BY <1>1, <2>1, <2>2 DEF FlowInv, StatusInv
  <1>4. Len(queue) < QueueCapacity /\ Len(queue) + 1 <= Depth
    <2>1. /\ Len(queue) + Len(outbox) <= target_horizon
          /\ Len(queue) + Len(outbox) <= QueueCapacity
      BY DEF HorizonInv
    <2>. QED  BY <1>1, <2>1, Lengths, JobAssumption, QueueAssumption DEF Depth
  <1>5. t <= now + Lead + Len(queue) * margin
    <2>. DEFINE k == Len(queue) + 1
    <2>1. k \in 1 .. Pending /\ ~(k <= Len(queue)) /\ k - Len(queue) = 1 /\ k - 1 = Len(queue)
      BY <1>1, Lengths DEF Pending
    <2>2. PendingTick(k) = t
      BY <2>1 DEF PendingTick
    <2>. HIDE DEF k, t, margin
    <2>3. PendingTick(k) <= now + Lead + (k - 1) * schedule_lead_margin_us
      BY <2>1, PendingBounded DEF FlowInv
    <2>. QED  BY <2>1, <2>2, <2>3 DEF margin
  <1>6. t <= LatestAccepted
    <2>. DEFINE a == Len(queue) * margin  b == (Depth - 1) * margin
                w == DefaultWindow.max_horizon_ticks
    <2>1. a <= b /\ a \in Nat /\ b \in Nat
      <3>1. Len(queue) \in Nat /\ Depth - 1 \in Nat /\ Len(queue) <= Depth - 1 /\ margin \in Nat
        BY <1>4, Lengths, LeadType
      <3>. HIDE DEF margin
      <3>. QED  BY <3>1, ProductGrows, OneMore
    <2>2. Lead + b <= w /\ Lead \in Nat /\ w \in Nat
      BY LeadType DEF Streamable
    <2>3. LatestAccepted = now + w /\ now \in Nat
      BY DEF FlowInv, StatusInv, LatestAccepted, StreamTyped, TypeOK
    <2>4. t <= now + Lead + a
      BY <1>5
    <2>. HIDE DEF a, b, w, t
    <2>5. t \in Nat
      BY <1>1 DEF t
    <2>. QED  BY <2>1, <2>2, <2>3, <2>4, <2>5
  <1>. QED  BY <1>1, <1>2, <1>3, <1>4, <1>6 DEF Admissible, InWindow

\* What is pending stays as it is, and time does not go back.
LEMMA ChainStays ==
    ASSUME StreamTyped, ChainInv, Pending' = Pending,
           \A k \in 1 .. Pending : PendingTick(k)' = PendingTick(k),
           last_dispatched_tick' = last_dispatched_tick, now' \in Nat, now <= now'
    PROVE  ChainInv'
  <1>1. /\ Pending \in Nat /\ now \in Nat /\ Lead \in Nat /\ DefaultWindow.min_lead_ticks \in Nat
        /\ \A k \in 1 .. Pending : PendingTick(k) \in Nat
        /\ last_dispatched_tick \in Nat \cup {None}
    BY PendingTypes, LeadType, TickTypes
  <1>2. Pending > 0 => /\ PendingTick(1)' <= now' + Lead
                       /\ last_dispatched_tick' = PendingTick(Pending)'
    <2>1. SUFFICES ASSUME Pending > 0
                   PROVE  /\ PendingTick(1)' <= now' + Lead
                          /\ last_dispatched_tick' = PendingTick(Pending)'
      OBVIOUS
    <2>2. 1 \in 1 .. Pending /\ Pending \in 1 .. Pending
      BY <1>1, <2>1
    <2>3. PendingTick(1) <= now + Lead /\ last_dispatched_tick = PendingTick(Pending)
      BY <2>1 DEF ChainInv
    <2>4. PendingTick(1) \in Nat /\ PendingTick(1)' = PendingTick(1)
      BY <1>1, <2>2
    <2>5. PendingTick(Pending)' = PendingTick(Pending)
      <3>1. \A k \in 1 .. Pending : k = Pending => PendingTick(k)' = PendingTick(k)
        OBVIOUS
      <3>. QED  BY <2>2, <3>1 DEF PendingTick
    <2>6. PendingTick(1)' <= now' + Lead
      BY <1>1, <2>3, <2>4
    <2>. QED  BY <2>3, <2>5, <2>6
  <1>3. Pending = 0 /\ last_dispatched_tick # None => last_dispatched_tick <= now'
    <2>1. Pending = 0 /\ last_dispatched_tick # None => last_dispatched_tick <= now
      BY DEF ChainInv
    <2>. QED  BY <1>1, <2>1
  <1>4. ASSUME NEW k \in 1 .. Pending - 1
        PROVE  \/ PendingTick(k + 1)' <= PendingTick(k)' + schedule_lead_margin_us
               \/ PendingTick(k + 1)' <= now' + DefaultWindow.min_lead_ticks
    <2>1. k \in 1 .. Pending /\ k + 1 \in 1 .. Pending
      BY <1>1
    <2>2. \/ PendingTick(k + 1) <= PendingTick(k) + schedule_lead_margin_us
          \/ PendingTick(k + 1) <= now + DefaultWindow.min_lead_ticks
      BY DEF ChainInv
    <2>3. PendingTick(k + 1)' = PendingTick(k + 1) /\ PendingTick(k)' = PendingTick(k)
      BY <2>1
    <2>4. PendingTick(k + 1) \in Nat /\ PendingTick(k) \in Nat
      BY <1>1, <2>1
    <2>. QED  BY <1>1, <2>2, <2>3, <2>4
  <1>. QED  BY <1>2, <1>3, <1>4 DEF ChainInv

\* A batch continues the chain of pending commands.
LEMMA BatchChain ==
    ASSUME UntimedJob, StreamTyped, StatusInv, ChainInv, turn = "dispatch",
           RP!DispatchBatch, UNCHANGED vars
    PROVE  ChainInv'
  <1>. DEFINE n == RP!BatchSize
              l == Len(queue)
              lead == DefaultWindow.min_lead_ticks
              margin == schedule_lead_margin_us
  <1>1. /\ n \in 1 .. Len(job_queue) /\ Len(outbox') = n
        /\ last_dispatched_tick' = RP!TickOf[n]
        /\ \A i \in 1 .. n : outbox'[i].execute_at = RP!TickOf[i] /\ RP!TickOf[i] \in Nat
    BY RunnerConstants, RP!BatchShape DEF StreamTyped
  <1>. HIDE DEF n
  <1>2. n \in Nat /\ n > 0 /\ Len(job_queue) \in Nat /\ Len(outbox) = 0 /\ l \in Nat
    BY <1>1, Lengths DEF StreamTyped
  <1>3. now' = now /\ queue' = queue /\ now \in Nat
    BY DEF vars, StreamTyped, TypeOK
  <1>4. lead \in Nat /\ margin \in Nat /\ Lead \in Nat /\ lead <= Lead /\ margin <= Lead
    BY LeadType
  <1>5. /\ RP!TickOf[0] = last_dispatched_tick
        /\ \A i \in 1 .. n :
              \/ RP!TickOf[i] = now + lead
              \/ RP!TickOf[i - 1] # None /\ RP!TickOf[i] = RP!TickOf[i - 1] + margin
    <2>1. RP!Believed.earliest_accepted_tick = now + lead
      BY DEF RP!Believed, StatusInv, EarliestAccepted
    <2>2. ASSUME NEW i \in 1 .. n
          PROVE  \/ RP!TickOf[i] = now + lead
                 \/ RP!TickOf[i - 1] # None /\ RP!TickOf[i] = RP!TickOf[i - 1] + margin
      <3>1. i \in 1 .. Len(job_queue)
        BY <1>1, <1>2
      <3>. QED  BY <2>1, <3>1, RunnerConstants, JobIsUntimed, RP!UntimedTick DEF StreamTyped
    <2>. QED  BY <2>2, RunnerConstants, RP!TickOfRecursion DEF StreamTyped
  <1>6. Pending = l /\ Pending' = l + n
    BY <1>1, <1>2, <1>3 DEF Pending
  <1>7. ASSUME NEW k \in 1 .. l  PROVE PendingTick(k)' = PendingTick(k) /\ PendingTick(k) \in Nat
    <2>1. PendingTick(k) \in Nat
      BY <1>6, PendingTypes
    <2>. QED  BY <1>3, <2>1 DEF PendingTick
  <1>8. ASSUME NEW p \in Nat, NEW k \in 1 .. n, p = l + k
        PROVE  PendingTick(p)' = RP!TickOf[k]
    <2>1. ~(p <= l) /\ p - l = k
      BY <1>2, <1>8
    <2>. QED  BY <1>1, <1>3, <2>1 DEF PendingTick
  <1>9. /\ l > 0 => /\ PendingTick(1) <= now + Lead
                    /\ last_dispatched_tick = PendingTick(l)
        /\ l = 0 /\ last_dispatched_tick # None => last_dispatched_tick <= now
        /\ \A k \in 1 .. l - 1 : \/ PendingTick(k + 1) <= PendingTick(k) + margin
                                 \/ PendingTick(k + 1) <= now + lead
    BY <1>6 DEF ChainInv
  <1>. HIDE DEF lead, margin, l
  <1>10. PendingTick(1)' <= now' + Lead
    <2>1. CASE l = 0
      <3>1. l + 1 = 1 /\ 1 \in 1 .. n /\ 1 - 1 = 0
        BY <1>2, <2>1
      <3>2. PendingTick(1)' = RP!TickOf[1]
        BY <1>8, <3>1
      <3>3. /\ RP!TickOf[1] \in Nat
            /\ \/ RP!TickOf[1] = now + lead
               \/ last_dispatched_tick # None /\ RP!TickOf[1] = last_dispatched_tick + margin
        BY <1>1, <1>5, <3>1
      <3>4. last_dispatched_tick # None =>
               last_dispatched_tick \in Nat /\ last_dispatched_tick <= now
        BY <1>9, <2>1, TickTypes
      <3>. QED  BY <1>3, <1>4, <3>2, <3>3, <3>4
    <2>2. CASE l > 0
      <3>1. 1 \in 1 .. l
        BY <1>2, <2>2
      <3>. QED  BY <1>3, <1>7, <1>9, <2>2, <3>1
    <2>. QED  BY <1>2, <2>1, <2>2
  <1>11. last_dispatched_tick' = PendingTick(Pending)'
    <2>1. n \in 1 .. n
      BY <1>2
    <2>2. Pending' = l + n /\ Pending' \in Nat
      BY <1>2, <1>6
    <2>3. \A p \in Nat : p = l + n => PendingTick(p)' = RP!TickOf[n]
      BY <1>8, <2>1
    <2>4. \A p \in Nat : p = Pending' => PendingTick(Pending)' = PendingTick(p)'
      BY DEF PendingTick
    <2>. QED  BY <1>1, <2>2, <2>3, <2>4
  <1>12. ASSUME NEW k \in 1 .. Pending' - 1
         PROVE  \/ PendingTick(k + 1)' <= PendingTick(k)' + margin
                \/ PendingTick(k + 1)' <= now' + lead
    <2>1. CASE k < l
      <3>1. k \in 1 .. l /\ k + 1 \in 1 .. l /\ k \in 1 .. l - 1
        BY <1>2, <2>1
      <3>2. PendingTick(k)' = PendingTick(k) /\ PendingTick(k + 1)' = PendingTick(k + 1)
        BY <1>7, <3>1
      <3>. QED  BY <1>3, <1>9, <3>1, <3>2
    <2>2. CASE k = l
      <3>1. k \in 1 .. l /\ l > 0 /\ 1 \in 1 .. n /\ 1 - 1 = 0
        BY <1>2, <2>2
      <3>2. PendingTick(k)' = last_dispatched_tick /\ last_dispatched_tick \in Nat
        BY <1>7, <1>9, <2>2, <3>1
      <3>3. PendingTick(k + 1)' = RP!TickOf[1]
        <4>1. k + 1 \in Nat /\ k + 1 = l + 1
          BY <1>2, <2>2
        <4>. QED  BY <1>8, <3>1, <4>1
      <3>4. /\ RP!TickOf[1] \in Nat
            /\ RP!TickOf[1] = now + lead \/ RP!TickOf[1] = last_dispatched_tick + margin
        BY <1>1, <1>5, <3>1
      <3>. QED  BY <1>3, <1>4, <3>2, <3>3, <3>4
    <2>3. CASE k > l
      <3>. DEFINE j == k - l
      <3>1. j \in 1 .. n /\ j + 1 \in 1 .. n /\ (j + 1) - 1 = j /\ l + j = k /\ l + (j + 1) = k + 1
        BY <1>2, <1>6, <2>3
      <3>. HIDE DEF j
      <3>2. PendingTick(k)' = RP!TickOf[j] /\ PendingTick(k + 1)' = RP!TickOf[j + 1]
        <4>1. k \in Nat /\ k + 1 \in Nat
          BY <1>2, <2>3
        <4>. QED  BY <1>8, <3>1, <4>1
      <3>3. /\ RP!TickOf[j] \in Nat /\ RP!TickOf[j + 1] \in Nat
            /\ RP!TickOf[j + 1] = now + lead \/ RP!TickOf[j + 1] = RP!TickOf[j] + margin
        BY <1>1, <1>5, <3>1
      <3>. QED  BY <1>3, <1>4, <3>2, <3>3
    <2>. QED  BY <1>2, <1>6, <2>1, <2>2, <2>3
  <1>13. Pending' # 0
    BY <1>2, <1>6
  <1>. QED  BY <1>10, <1>11, <1>12, <1>13 DEF ChainInv, lead, margin

\* Executing what is due shortens the chain at its head: what is first then
\* follows a command whose time had come.
LEMMA RunEndsChain ==
    ASSUME StreamTyped, ChainInv, RunEnds
    PROVE  ChainInv'
  <1>. DEFINE l == Len(queue)
              lead == DefaultWindow.min_lead_ticks
              margin == schedule_lead_margin_us
  <1>1. /\ now' = now /\ turn = "run" /\ Finish
        /\ outbox' = outbox /\ last_dispatched_tick' = last_dispatched_tick
    BY DEF RunEnds, Finish, runnerVars
  <1>2. PICK m \in 0 .. l :
           /\ queue' = SubSeq(queue, m + 1, l)
           /\ \A i \in 1 .. l : i <= m <=> queue[i].execute_at <= now
    BY <1>1, FinishPopsDue DEF StreamTyped
  <1>3. /\ Len(queue') = l - m
        /\ \A i \in 1 .. l - m : queue'[i] = queue[m + i]
    BY <1>2, PoppedIsQueue DEF StreamTyped, TypeOK
  <1>4. l \in Nat /\ m \in Nat /\ m <= l /\ Len(outbox) = 0 /\ now \in Nat
    BY <1>1, <1>2, Lengths DEF StreamTyped, TypeOK
  <1>5. lead \in Nat /\ margin \in Nat /\ Lead \in Nat /\ lead <= Lead /\ margin <= Lead
    BY LeadType
  <1>6. Pending = l /\ Pending' = l - m
    BY <1>1, <1>3, <1>4 DEF Pending
  <1>7. ASSUME NEW k \in 1 .. l
        PROVE  PendingTick(k) = queue[k].execute_at /\ queue[k].execute_at \in Nat
    BY <1>4, TickTypes DEF PendingTick
  <1>8. ASSUME NEW k \in 1 .. l - m
        PROVE  m + k \in 1 .. l /\ PendingTick(k)' = queue[m + k].execute_at
    <2>1. k <= Len(queue') /\ m + k \in 1 .. l
      BY <1>3, <1>4
    <2>. QED  BY <1>3, <2>1 DEF PendingTick
  <1>9. /\ l > 0 => /\ queue[1].execute_at <= now + Lead
                    /\ last_dispatched_tick = queue[l].execute_at
        /\ l = 0 /\ last_dispatched_tick # None => last_dispatched_tick <= now
        /\ \A k \in 1 .. l - 1 : \/ queue[k + 1].execute_at <= queue[k].execute_at + margin
                                 \/ queue[k + 1].execute_at <= now + lead
    <2>1. l > 0 => 1 \in 1 .. l /\ l \in 1 .. l
      BY <1>4
    <2>2. \A k \in 1 .. l - 1 : k \in 1 .. l /\ k + 1 \in 1 .. l
      BY <1>4
    <2>3. /\ l > 0 => /\ PendingTick(1) <= now + Lead
                      /\ last_dispatched_tick = PendingTick(l)
          /\ l = 0 /\ last_dispatched_tick # None => last_dispatched_tick <= now
          /\ \A k \in 1 .. l - 1 : \/ PendingTick(k + 1) <= PendingTick(k) + margin
                                   \/ PendingTick(k + 1) <= now + lead
      BY <1>6 DEF ChainInv
    <2>4. \A k \in 1 .. l - 1 : \/ queue[k + 1].execute_at <= queue[k].execute_at + margin
                                \/ queue[k + 1].execute_at <= now + lead
      BY <1>7, <2>2, <2>3
    <2>. QED  BY <1>7, <2>1, <2>3, <2>4
  <1>. HIDE DEF l, lead, margin
  <1>10. ASSUME m < l
         PROVE  PendingTick(1)' <= now' + Lead /\ last_dispatched_tick' = PendingTick(Pending)'
    <2>1. 1 \in 1 .. l - m /\ l - m \in 1 .. l - m /\ m + (l - m) = l /\ l > 0
      BY <1>4, <1>10
    <2>2. PendingTick(1)' = queue[m + 1].execute_at /\ m + 1 \in 1 .. l
      BY <1>8, <2>1
    <2>3. queue[m + 1].execute_at <= now + Lead
      <3>1. CASE m = 0
        BY <1>9, <2>1, <3>1
      <3>2. CASE m > 0
        <4>1. m \in 1 .. l - 1 /\ m \in 1 .. l
          BY <1>4, <1>10, <3>2
        <4>2. queue[m].execute_at <= now
          BY <1>2, <1>4, <4>1
        <4>3. \/ queue[m + 1].execute_at <= queue[m].execute_at + margin
              \/ queue[m + 1].execute_at <= now + lead
          BY <1>9, <4>1
        <4>4. queue[m].execute_at \in Nat /\ queue[m + 1].execute_at \in Nat
          BY <1>7, <2>2, <4>1
        <4>. QED  BY <1>4, <1>5, <4>2, <4>3, <4>4
      <3>. QED  BY <1>4, <3>1, <3>2
    <2>4. PendingTick(Pending)' = queue[l].execute_at
      <3>1. \A k \in 1 .. l - m : k = Pending' => PendingTick(Pending)' = queue[m + k].execute_at
        BY <1>8 DEF PendingTick
      <3>. QED  BY <1>6, <2>1, <3>1
    <2>. QED  BY <1>1, <1>9, <2>1, <2>2, <2>3, <2>4
  <1>11. ASSUME m = l, last_dispatched_tick # None  PROVE last_dispatched_tick <= now
    <2>1. CASE l = 0
      BY <1>9, <1>11, <2>1
    <2>2. CASE l > 0
      <3>1. l \in 1 .. l /\ l <= m
        BY <1>4, <1>11, <2>2
      <3>. QED  BY <1>2, <1>9, <2>2, <3>1
    <2>. QED  BY <1>4, <2>1, <2>2
  <1>12. ASSUME NEW k \in 1 .. Pending' - 1
         PROVE  \/ PendingTick(k + 1)' <= PendingTick(k)' + margin
                \/ PendingTick(k + 1)' <= now' + lead
    <2>1. /\ k \in 1 .. l - m /\ k + 1 \in 1 .. l - m
          /\ m + k \in 1 .. l - 1 /\ m + (k + 1) = (m + k) + 1
      BY <1>4, <1>6
    <2>2. PendingTick(k)' = queue[m + k].execute_at
      BY <1>8, <2>1
    <2>3. PendingTick(k + 1)' = queue[(m + k) + 1].execute_at
      <3>1. PendingTick(k + 1)' = queue[m + (k + 1)].execute_at
        BY <1>8, <2>1
      <3>. QED  BY <2>1, <3>1
    <2>. QED  BY <1>1, <1>9, <2>1, <2>2, <2>3
  <1>13. Pending' > 0 => m < l
    BY <1>4, <1>6
  <1>14. Pending' = 0 => m = l
    BY <1>4, <1>6
  <1>. QED  BY <1>1, <1>10, <1>11, <1>12, <1>13, <1>14 DEF ChainInv, lead, margin

\* A batch is scheduled on the quantum and from the window's start on.
LEMMA BatchGrid ==
    ASSUME Streamable, StreamTyped, StatusInv, GridInv, turn = "dispatch",
           RP!DispatchBatch, UNCHANGED vars
    PROVE  GridInv'
  <1>. DEFINE n == RP!BatchSize
  <1>1. /\ n \in 1 .. Len(job_queue) /\ Len(outbox') = n
        /\ last_dispatched_tick' = RP!TickOf[n]
        /\ \A i \in 1 .. n : outbox'[i].execute_at = RP!TickOf[i]
    BY RunnerConstants, RP!BatchShape DEF StreamTyped
  <1>. HIDE DEF n
  <1>2. n \in 1 .. n /\ \A i \in 1 .. n : i \in 1 .. Len(job_queue)
    BY <1>1 DEF StreamTyped
  <1>3. /\ EarliestAccepted' = EarliestAccepted
        /\ RP!Believed.earliest_accepted_tick = EarliestAccepted
    BY DEF vars, EarliestAccepted, StatusInv, RP!Believed
  <1>4. EarliestAccepted % STEP_TICKS = 0
    <2>1. EarliestAccepted = now + DefaultWindow.min_lead_ticks
      BY DEF EarliestAccepted, StatusInv
    <2>2. now \in Nat /\ now % STEP_TICKS = 0 /\ STEP_TICKS \in Nat \ {0}
      BY QueueAssumption DEF StreamTyped, TypeOK, QueueInv
    <2>3. DefaultWindow.min_lead_ticks \in Nat /\ DefaultWindow.min_lead_ticks % STEP_TICKS = 0
      BY LeadType DEF Streamable
    <2>. QED  BY <2>1, <2>2, <2>3, RunnerConstants, RP!GridSum
  <1>5. \A i \in 1 .. Len(job_queue) : RP!TickOf[i] % STEP_TICKS = 0
    <2>1. STEP_TICKS \in Nat \ {0} /\ schedule_lead_margin_us % STEP_TICKS = 0
      BY QueueAssumption DEF Streamable
    <2>2. RP!Believed.earliest_accepted_tick % STEP_TICKS = 0
      BY <1>3, <1>4
    <2>3. RP!RunnerInv /\ RP!Untimed
      BY JobIsUntimed DEF StreamTyped, Streamable
    <2>4. last_dispatched_tick # None => last_dispatched_tick % STEP_TICKS = 0
      BY DEF GridInv
    <2>. QED  BY <2>1, <2>2, <2>3, <2>4, RunnerConstants, RP!UntimedOnGrid
  <1>6. \A i \in 1 .. Len(job_queue) : RP!TickOf[i] >= EarliestAccepted
    <2>1. RP!RunnerInv /\ RP!Untimed
      BY JobIsUntimed DEF StreamTyped, Streamable
    <2>. QED  BY <1>3, <2>1, RunnerConstants, RP!UntimedTick
  <1>. QED  BY <1>1, <1>2, <1>3, <1>5, <1>6 DEF GridInv

\* A command that is handed over moves from the batch to the end of the queue.
LEMMA SentChain ==
    ASSUME StreamTyped, ChainInv, SendNext,
           queue' = Append(queue, [execute_at |-> outbox[1].execute_at,
                                   command |-> outbox[1].command])
    PROVE  ChainInv' /\ Pending' = Pending /\ Len(queue') = Len(queue) + 1
  <1>. DEFINE e == [execute_at |-> outbox[1].execute_at, command |-> outbox[1].command]
              l == Len(queue)
  <1>1. /\ outbox # <<>> /\ outbox' = Tail(outbox) /\ last_dispatched_tick' = last_dispatched_tick
        /\ now' = now
    BY DEF SendNext, Runner!SendNext, WireCommand, Accept
  <1>2. /\ Len(outbox) \in Nat \ {0} /\ Len(outbox') = Len(outbox) - 1
        /\ \A i \in 1 .. Len(outbox) - 1 : outbox'[i] = outbox[i + 1]
        /\ outbox[1].execute_at \in Nat
    BY <1>1, NextSent
  <1>3. queue \in Seq(QueuedCommand) /\ l \in Nat /\ e.execute_at = outbox[1].execute_at
    BY DEF StreamTyped, TypeOK
  <1>4. /\ Len(queue') = l + 1 /\ queue'[l + 1] = e
        /\ \A i \in 1 .. l : queue'[i] = queue[i]
    <2>. HIDE DEF e
    <2>1. queue' = Append(queue, e)
      BY DEF e
    <2>. QED  BY <1>3, <2>1
  <1>. HIDE DEF e
  <1>5. Pending' = Pending /\ Pending = l + Len(outbox)
    BY <1>2, <1>3, <1>4 DEF Pending
  <1>. HIDE DEF l
  <1>6. ASSUME NEW k \in 1 .. Pending  PROVE PendingTick(k)' = PendingTick(k)
    <2>1. CASE k <= l
      <3>1. k \in 1 .. l /\ k <= Len(queue')
        BY <1>3, <1>4, <2>1
      <3>. QED  BY <1>4, <2>1, <3>1 DEF PendingTick, l
    <2>2. CASE k = l + 1
      <3>1. ~(k <= l) /\ k - l = 1 /\ k <= Len(queue')
        BY <1>3, <1>4, <2>2
      <3>. QED  BY <1>3, <1>4, <2>2, <3>1 DEF PendingTick, l
    <2>3. CASE k > l + 1
      <3>. DEFINE j == k - (l + 1)
      <3>1. /\ ~(k <= l) /\ ~(k <= Len(queue')) /\ j \in 1 .. Len(outbox) - 1
            /\ k - Len(queue') = j /\ k - l = j + 1
        <4>1. k \in 1 .. l + Len(outbox) /\ l \in Nat /\ Len(outbox) \in Nat /\ Len(queue') = l + 1
          BY <1>2, <1>3, <1>4, <1>5
        <4>. QED  BY <2>3, <4>1
      <3>. HIDE DEF j
      <3>2. PendingTick(k)' = outbox'[j].execute_at /\ PendingTick(k) = outbox[j + 1].execute_at
        BY <3>1 DEF PendingTick, l
      <3>. QED  BY <1>2, <3>1, <3>2
    <2>. QED  BY <1>2, <1>3, <1>5, <2>1, <2>2, <2>3
  <1>7. now' \in Nat /\ now <= now'
    BY <1>1 DEF StreamTyped, TypeOK
  <1>8. ChainInv'
    BY <1>1, <1>5, <1>6, <1>7, ChainStays
  <1>. QED  BY <1>4, <1>5, <1>8 DEF l

\* Reading the status makes the runner's books true: what it takes for done
\* has been begun.
LEMMA StatusFlow ==
    ASSUME StreamTyped, FlowInv, ReadStatus
    PROVE  FlowInv'
  <1>1. /\ UNCHANGED <<vars, started>> /\ Runner!UpdateControllerStatus(SessionStatus)
        /\ outbox = <<>> /\ Len(outbox) = 0
    BY DEF ReadStatus, Runner!UpdateControllerStatus
  <1>2. RP!UpdateControllerStatus(SessionStatus)
    BY <1>1, SameUpdate
  <1>3. /\ UNCHANGED <<job_queue, total_enqueued, total_dispatched, last_dispatched_tick, outbox>>
        /\ last_controller_status' = SessionStatus
        /\ total_completed' = RP!CompletedBy(SessionStatus)
    BY <1>2 DEF RP!UpdateControllerStatus
  <1>4. /\ SessionStatus.queue_fill = Len(queue) /\ SessionStatus # None
        /\ SessionStatus.earliest_accepted_tick = EarliestAccepted
    BY SessionStatusType, RunnerConstants DEF StreamTyped, RP!RunnerAssumption
  <1>5. /\ Len(queue) \in Nat /\ Pending = Len(queue) /\ started \in Nat
        /\ started + Len(queue) = total_dispatched
    BY <1>1, Lengths DEF Pending, FlowInv, CountInv
  <1>6. UNCHANGED <<EarliestAccepted, Pending>> /\ \A k : PendingTick(k)' = PendingTick(k)
    BY <1>1, <1>3 DEF vars, EarliestAccepted, Pending, PendingTick
  <1>7. StatusInv'
    <2>1. RP!CompletedBy(SessionStatus) = total_dispatched - Len(queue)
      <3>. DEFINE b == total_dispatched - Len(queue)
      <3>1. RP!CompletedBy(SessionStatus) = RP!Max({0, b})
        BY <1>4 DEF RP!CompletedBy
      <3>2. b \in Nat
        BY <1>5
      <3>. HIDE DEF b
      <3>3. /\ RP!Max({0, b}) \in {0, b}
            /\ RP!Max({0, b}) >= 0 /\ RP!Max({0, b}) >= b
        BY <3>2, RunnerConstants, RP!MaxWithZero
      <3>4. RP!Max({0, b}) = b
        BY <3>2, <3>3
      <3>. QED  BY <3>1, <3>4 DEF b
    <2>2. total_completed' = total_dispatched' - Len(queue)'
      BY <1>1, <1>3, <2>1 DEF vars
    <2>. QED  BY <1>1, <1>3, <1>4, <1>6, <2>2 DEF FlowInv, StatusInv, vars
  <1>8. GridInv'
    BY <1>3, <1>6 DEF FlowInv, GridInv
  <1>9. ChainInv'
    BY <1>1, <1>3, PendingTypes, ChainStays, <1>6 DEF FlowInv, vars
  <1>10. state' = "Completed" => started = total_enqueued
    <2>1. state' = "Completed" => RP!Drained(SessionStatus) \/ state = "Completed"
      BY <1>2 DEF RP!UpdateControllerStatus, RP!Flagged
    <2>2. RP!Drained(SessionStatus) => Len(queue) = 0 /\ total_dispatched = total_enqueued
      BY <1>4 DEF RP!Drained
    <2>3. state = "Completed" => started = total_enqueued
      BY DEF FlowInv, CountInv, CompletedMeansStarted
    <2>. QED  BY <1>5, <2>1, <2>2, <2>3
  <1>11. CountInv'
    BY <1>1, <1>3, <1>6, <1>10 DEF FlowInv, CountInv, CompletedMeansStarted
  <1>. QED  BY <1>7, <1>8, <1>9, <1>11 DEF FlowInv

\* A dispatch schedules what the controller will admit, and reports Completed
\* only when nothing is pending.
LEMMA DispatchFlow ==
    ASSUME Streamable, StreamTyped, FlowInv, Dispatch
    PROVE  FlowInv'
  <1>1. /\ turn = "dispatch" /\ turn' = "send" /\ UNCHANGED <<vars, started>>
        /\ outbox = <<>> /\ Len(outbox) = 0
        /\ RP!DispatchBatch \/ RP!DispatchNothing \/ RP!DispatchThrottled
    BY SameDispatch DEF Dispatch, RP!NextDispatchBatch, StreamTyped
  <1>2. StatusInv'
    BY <1>1 DEF FlowInv, StatusInv, vars
  <1>3. /\ Len(queue) \in Nat /\ Pending = Len(queue) /\ started \in Nat
        /\ started + Len(queue) = total_dispatched
        /\ total_completed = total_dispatched - Len(queue)
    BY <1>1, Lengths DEF Pending, FlowInv, CountInv, StatusInv
  <1>4. CASE RP!DispatchBatch
    <2>. DEFINE n == RP!BatchSize
    <2>1. n \in 1 .. Len(job_queue) /\ Len(outbox') = n
      BY <1>4, RunnerConstants, RP!BatchShape DEF StreamTyped
    <2>2. /\ total_dispatched' = total_dispatched + n
          /\ state' # "Completed"
      BY <1>4 DEF RP!DispatchBatch
    <2>3. n \in Nat /\ Len(queue') = Len(queue)
      BY <1>1, <2>1 DEF vars, StreamTyped
    <2>. HIDE DEF n
    <2>4. CountInv'
      BY <1>1, <1>3, <2>1, <2>2, <2>3 DEF CountInv, CompletedMeansStarted, Pending
    <2>5. GridInv' /\ ChainInv'
      BY <1>1, <1>4, BatchGrid, BatchChain DEF FlowInv, Streamable
    <2>. QED  BY <1>2, <2>4, <2>5 DEF FlowInv
  <1>5. CASE RP!DispatchNothing \/ RP!DispatchThrottled
    <2>1. /\ UNCHANGED <<outbox, last_dispatched_tick, total_enqueued, total_dispatched>>
          /\ state' = "Completed" => job_queue = <<>> /\ total_completed = total_dispatched
      BY <1>5 DEF RP!DispatchNothing, RP!DispatchThrottled, RP!counters
    <2>2. UNCHANGED <<EarliestAccepted, Pending>> /\ \A k : PendingTick(k)' = PendingTick(k)
      BY <1>1, <2>1 DEF vars, EarliestAccepted, Pending, PendingTick
    <2>3. GridInv'
      BY <2>1, <2>2 DEF FlowInv, GridInv
    <2>4. ChainInv'
      BY <1>1, <2>1, <2>2, PendingTypes, ChainStays DEF FlowInv, vars
    <2>5. state' = "Completed" => started = total_enqueued
      <3>1. total_enqueued = total_dispatched + Len(job_queue)
        BY DEF StreamTyped, RP!RunnerInv, RP!Conserved
      <3>2. SUFFICES ASSUME state' = "Completed"  PROVE started = total_enqueued
        OBVIOUS
      <3>3. Len(job_queue) = 0 /\ total_completed = total_dispatched
        BY <2>1, <3>2
      <3>. QED  BY <1>3, <3>1, <3>3
    <2>6. CountInv'
      BY <1>1, <2>1, <2>2, <2>5 DEF FlowInv, CountInv, CompletedMeansStarted
    <2>. QED  BY <1>2, <2>3, <2>4, <2>6 DEF FlowInv
  <1>. QED  BY <1>1, <1>4, <1>5

\* A command that is handed over is accepted.
LEMMA SendFlow ==
    ASSUME Streamable, StreamTyped, HorizonInv, MarginInv, FlowInv, SendNext
    PROVE  FlowInv' /\ Len(queue') = Len(queue) + 1
  <1>1. /\ outbox # <<>> /\ outbox' = Tail(outbox) /\ turn = "send" /\ turn' = turn
        /\ UNCHANGED <<now, latched_fault, queue_window, started, state, total_enqueued,
                       total_dispatched, last_dispatched_tick>>
    BY DEF SendNext, Runner!SendNext, Runner!counters, WireCommand, Accept
  <1>2. queue' = Append(queue, [execute_at |-> outbox[1].execute_at,
                                command |-> outbox[1].command])
    BY SentIsAdmitted, SentIsAppended
  <1>3. ChainInv' /\ Pending' = Pending /\ Len(queue') = Len(queue) + 1
    BY <1>2, SentChain DEF FlowInv
  <1>4. StatusInv'
    BY <1>1 DEF FlowInv, StatusInv
  <1>5. GridInv'
    <2>1. EarliestAccepted' = EarliestAccepted
      BY <1>1 DEF EarliestAccepted
    <2>2. ASSUME NEW i \in 1 .. Len(outbox')
          PROVE  i + 1 \in 1 .. Len(outbox) /\ outbox'[i] = outbox[i + 1]
      BY <1>1, NextSent
    <2>. QED  BY <1>1, <2>1, <2>2 DEF FlowInv, GridInv
  <1>6. CountInv'
    BY <1>1, <1>3 DEF FlowInv, CountInv, CompletedMeansStarted
  <1>. QED  BY <1>3, <1>4, <1>5, <1>6 DEF FlowInv

\* An iteration starts once everything is handed over.
LEMMA RunStartsFlow ==
    ASSUME StreamTyped, FlowInv, RunStarts
    PROVE  FlowInv'
  <1>1. /\ outbox' = outbox /\ Len(outbox) = 0 /\ turn' = "run" /\ queue' = queue
        /\ now' = now + STEP_TICKS
        /\ UNCHANGED <<latched_fault, queue_window, started, state, total_enqueued,
                       total_dispatched, last_dispatched_tick>>
    BY DEF RunStarts, Tick, runnerVars
  <1>2. now \in Nat /\ now' \in Nat /\ now <= now'
    BY <1>1, QueueAssumption DEF StreamTyped, TypeOK
  <1>3. Pending' = Pending /\ \A k : PendingTick(k)' = PendingTick(k)
    BY <1>1 DEF Pending, PendingTick
  <1>4. ChainInv'
    BY <1>1, <1>2, <1>3, ChainStays DEF FlowInv
  <1>5. StatusInv' /\ GridInv' /\ CountInv'
    BY <1>1, <1>3 DEF FlowInv, StatusInv, GridInv, CountInv, CompletedMeansStarted
  <1>. QED  BY <1>4, <1>5 DEF FlowInv

\* An iteration starts what leaves the queue.
LEMMA RunEndsFlow ==
    ASSUME StreamTyped, FlowInv, RunEnds
    PROVE  FlowInv'
  <1>1. /\ outbox' = outbox /\ Len(outbox) = 0 /\ turn' = "status"
        /\ UNCHANGED <<latched_fault, queue_window, state, total_enqueued,
                       total_dispatched, last_dispatched_tick>>
        /\ started' = started + Len(queue) - Len(queue')
        /\ \E n \in 0 .. Len(queue) : queue' = SubSeq(queue, n + 1, Len(queue))
    BY Lengths DEF RunEnds, Finish, runnerVars
  <1>2. Len(queue') \in Nat /\ Len(queue') <= Len(queue) /\ Len(queue) \in Nat
    BY <1>1, PoppedIsQueue, Lengths DEF StreamTyped, TypeOK
  <1>3. ChainInv'
    BY RunEndsChain DEF FlowInv
  <1>4. StatusInv' /\ GridInv'
    BY <1>1 DEF FlowInv, StatusInv, GridInv
  <1>5. /\ Pending = Len(queue) /\ Pending' = Len(queue')
        /\ started \in Nat /\ started + Len(queue) = total_dispatched
    BY <1>1, <1>2 DEF FlowInv, CountInv, Pending
  <1>6. state = "Completed" => started = total_enqueued /\ total_dispatched = total_enqueued
    BY DEF FlowInv, CountInv, CompletedMeansStarted, StreamTyped, RP!RunnerInv,
           RP!CompletedIsDrained
  <1>7. started' \in Nat /\ started' + Len(queue') = total_dispatched
    BY <1>1, <1>2, <1>5
  <1>8. state = "Completed" => started' = total_enqueued
    BY <1>1, <1>2, <1>5, <1>6
  <1>9. CountInv'
    BY <1>1, <1>5, <1>7, <1>8 DEF CountInv, CompletedMeansStarted
  <1>. QED  BY <1>3, <1>4, <1>9 DEF FlowInv

\* Every step keeps the stream flowing.
LEMMA FlowStep ==
    ASSUME Streamable, StreamTyped, HorizonInv, MarginInv, FlowInv, [StreamNext]_streamVars
    PROVE  FlowInv'
  <1>1. CASE \E n \in 1 .. MaxBatch : \E envelopes \in [1 .. n -> Envelopes] : Enqueues(envelopes)
    <2>1. /\ UNCHANGED <<vars, turn, started, outbox, last_controller_status,
                         total_dispatched, total_completed, last_dispatched_tick>>
          /\ state' # "Completed"
      BY <1>1 DEF Enqueues, Runner!EnqueueBatch
    <2>2. UNCHANGED <<EarliestAccepted, Pending>> /\ \A k : PendingTick(k)' = PendingTick(k)
      BY <2>1 DEF vars, EarliestAccepted, Pending, PendingTick
    <2>3. ChainInv'
      BY <2>1, <2>2, PendingTypes, ChainStays DEF FlowInv, vars
    <2>. QED  BY <2>1, <2>2, <2>3
              DEF FlowInv, StatusInv, GridInv, CountInv, CompletedMeansStarted, vars
  <1>2. CASE UNCHANGED streamVars
    <2>1. UNCHANGED <<vars, turn, started, outbox, last_controller_status, state,
                      total_enqueued, total_dispatched, total_completed, last_dispatched_tick>>
      BY <1>2 DEF streamVars, runnerVars
    <2>2. UNCHANGED <<EarliestAccepted, Pending>> /\ \A k : PendingTick(k)' = PendingTick(k)
      BY <2>1 DEF vars, EarliestAccepted, Pending, PendingTick
    <2>3. ChainInv'
      BY <2>1, <2>2, PendingTypes, ChainStays DEF FlowInv, vars
    <2>. QED  BY <2>1, <2>2, <2>3
              DEF FlowInv, StatusInv, GridInv, CountInv, CompletedMeansStarted, vars
  <1>3. ~(SendFails \/ DispatchAgain \/ StreamReset)
    BY DEF Streamable, SendFails, DispatchAgain, StreamReset
  <1>. QED  BY <1>1, <1>2, <1>3, StatusFlow, DispatchFlow, SendFlow, RunStartsFlow, RunEndsFlow
            DEF StreamNext, HostLoop

\* All that an undisturbed stream keeps.
StreamInv == StreamTyped /\ HorizonInv /\ MarginInv /\ FlowInv

\* It holds throughout.
LEMMA StreamInvariant == ASSUME Streamable  PROVE StreamSpec => []StreamInv
  <1>1. StreamInit => HorizonInv /\ MarginInv /\ FlowInv
    <2>. SUFFICES ASSUME StreamInit  PROVE HorizonInv /\ MarginInv /\ FlowInv
      OBVIOUS
    <2>1. HorizonInv /\ MarginInv
      BY JobAssumption, QueueAssumption DEF StreamInit, Init, Runner!Init, HorizonInv, MarginInv
    <2>2. /\ Len(queue) = 0 /\ Len(outbox) = 0 /\ turn = "status" /\ started = 0
          /\ last_dispatched_tick = None /\ total_dispatched = 0 /\ state = "Idle"
          /\ ~latched_fault /\ queue_window = DefaultWindow
      BY DEF StreamInit, Init, Runner!Init
    <2>3. Pending = 0
      BY <2>2 DEF Pending
    <2>. QED  BY <2>1, <2>2, <2>3
              DEF FlowInv, StatusInv, GridInv, ChainInv, CountInv, CompletedMeansStarted
  <1>2. StreamTyped /\ HorizonInv /\ MarginInv /\ FlowInv /\ [StreamNext]_streamVars
           => HorizonInv' /\ MarginInv' /\ FlowInv'
    BY HorizonStep, MarginStep, FlowStep DEF Streamable
  <1>. QED  BY <1>1, <1>2, StreamTypes, PTL DEF StreamSpec, StreamInv

\* In an undisturbed stream no command is refused: none comes with a tick in
\* the past, beyond the window or off the quantum, none finds the queue full
\* (next_dispatch_batch against accept).
THEOREM AcceptedTheorem == ASSUME Streamable  PROVE StreamSpec => DispatchedIsAccepted
  <1>1. StreamInv /\ [StreamNext]_streamVars
           => [SendNext => Len(queue') = Len(queue) + 1]_streamVars
    BY SendFlow DEF StreamInv
  <1>. QED  BY <1>1, StreamInvariant, PTL DEF StreamSpec, DispatchedIsAccepted

\* In an undisturbed stream, when a job is reported Completed, the controller
\* has begun every command of it (update_controller_status,
\* next_dispatch_batch, start_due); the last motions may still be running.
THEOREM CompletionTheorem == ASSUME Streamable  PROVE StreamSpec => []CompletedMeansStarted
  <1>1. StreamInv => CompletedMeansStarted
    BY DEF StreamInv, FlowInv, CountInv
  <1>. QED  BY <1>1, StreamInvariant, PTL
=============================================================================
