------------------------ MODULE SimControllerProofs ------------------------
(***************************************************************************)
(* Proofs about SimController, for every configuration that satisfies its  *)
(* assumptions.                                                            *)
(***************************************************************************)
EXTENDS SimController, SequenceTheorems, WellFoundedInduction, NaturalsInduction, TLAPS

-----------------------------------------------------------------------------
(* Lemmas about the operators.                                             *)

\* The last command of a nonempty set of popped positions is one of them
\* and none of them comes after it (start_due lets the last one win).
LEMMA LatestIsLast ==
    ASSUME NEW n \in Nat, NEW S \in SUBSET (1 .. n), S # {}
    PROVE  /\ Latest(S) \in S
           /\ \A j \in S : j <= Latest(S)
  <1> DEFINE T == { n - i : i \in S }
  <1>1. T \subseteq Nat /\ T # {}
    <2>1. \A i \in S : i \in 1 .. n /\ n - i \in Nat
      OBVIOUS
    <2> QED  BY <2>1
  <1>2. IsWellFoundedOn(OpToRel(<, Nat), Nat)
    BY NatLessThanWellFounded
  <1>3. PICK x \in T : \A y \in T : ~(<<y, x>> \in OpToRel(<, Nat))
    <2> HIDE DEF T
    <2> QED  BY <1>1, <1>2, WFMin
  <1>4. PICK i \in S : x = n - i
    BY <1>3
  <1>5. \A j \in S : j <= i
    <2> SUFFICES ASSUME NEW j \in S  PROVE j <= i
      OBVIOUS
    <2>1. ~(<<n - j, n - i>> \in OpToRel(<, Nat))
      BY <1>3, <1>4
    <2>2. i \in 1 .. n /\ j \in 1 .. n
      OBVIOUS
    <2>3. ~(n - j < n - i)
      BY <2>1, <2>2 DEF OpToRel
    <2> QED  BY <2>2, <2>3
  <1> QED  BY <1>5 DEF Latest

\* Inserting a command at p keeps the queue a queue, one longer, with the
\* entries before p in place and the others moved up by one.
LEMMA InsertedIsQueue ==
    ASSUME NEW S, NEW s \in Seq(S), NEW p \in 1 .. Len(s) + 1, NEW e \in S
    PROVE  /\ InsertAt(s, p, e) \in Seq(S)
           /\ Len(InsertAt(s, p, e)) = Len(s) + 1
           /\ \A i \in 1 .. Len(s) + 1 :
                 InsertAt(s, p, e)[i] = IF i < p THEN s[i] ELSE IF i = p THEN e ELSE s[i - 1]
  <1> DEFINE a == SubSeq(s, 1, p - 1)
             b == SubSeq(s, p, Len(s))
  <1>1. /\ a \in Seq(S) /\ Len(a) = p - 1
        /\ \A i \in 1 .. p - 1 : a[i] = s[i]
    BY SubSeqProperties
  <1>2. /\ b \in Seq(S) /\ Len(b) = Len(s) - p + 1
        /\ \A i \in 1 .. Len(s) - p + 1 : b[i] = s[p + i - 1]
    BY SubSeqProperties
  <1>3. <<e>> \in Seq(S) /\ Len(<<e>>) = 1 /\ <<e>>[1] = e
    OBVIOUS
  <1>4. /\ a \o <<e>> \in Seq(S) /\ Len(a \o <<e>>) = p
        /\ \A i \in 1 .. p : (a \o <<e>>)[i] = IF i < p THEN s[i] ELSE e
    <2> HIDE DEF a
    <2> QED  BY <1>1, <1>3, ConcatProperties
  <1>5. InsertAt(s, p, e) = (a \o <<e>>) \o b
    BY DEF InsertAt
  <1>6. /\ (a \o <<e>>) \o b \in Seq(S)
        /\ Len((a \o <<e>>) \o b) = Len(s) + 1
        /\ \A i \in 1 .. Len(s) + 1 :
              ((a \o <<e>>) \o b)[i] = IF i < p THEN s[i] ELSE IF i = p THEN e ELSE s[i - 1]
    <2> DEFINE c == a \o <<e>>
    <2>1. c \in Seq(S) /\ Len(c) = p /\ \A i \in 1 .. p : c[i] = IF i < p THEN s[i] ELSE e
      BY <1>4
    <2>2. /\ c \o b \in Seq(S) /\ Len(c \o b) = Len(c) + Len(b)
          /\ \A i \in 1 .. Len(c) + Len(b) :
                (c \o b)[i] = IF i <= Len(c) THEN c[i] ELSE b[i - Len(c)]
      <3> HIDE DEF b, c
      <3> QED  BY <2>1, <1>2, ConcatProperties
    <2>3. Len(c) + Len(b) = Len(s) + 1
      BY <2>1, <1>2
    <2>4. ASSUME NEW i \in 1 .. Len(s) + 1
          PROVE  (c \o b)[i] = IF i < p THEN s[i] ELSE IF i = p THEN e ELSE s[i - 1]
      <3> HIDE DEF b, c
      <3>1. CASE i <= p
        BY <3>1, <2>1, <2>2, <2>3
      <3>2. CASE i > p
        <4>1. i - p \in 1 .. Len(s) - p + 1 /\ p + (i - p) - 1 = i - 1
          BY <3>2
        <4> QED  BY <4>1, <3>2, <1>2, <2>1, <2>2, <2>3
      <3>3. i <= p \/ i > p
        OBVIOUS
      <3> QED  BY <3>1, <3>2, <3>3
    <2> QED  BY <2>2, <2>3, <2>4
  <1> QED  BY <1>5, <1>6

\* What remains of the queue when its first n entries are popped.
LEMMA PoppedIsQueue ==
    ASSUME NEW S, NEW s \in Seq(S), NEW n \in 0 .. Len(s)
    PROVE  /\ SubSeq(s, n + 1, Len(s)) \in Seq(S)
           /\ Len(SubSeq(s, n + 1, Len(s))) = Len(s) - n
           /\ \A i \in 1 .. Len(s) - n : SubSeq(s, n + 1, Len(s))[i] = s[n + i]
  BY SubSeqProperties

-----------------------------------------------------------------------------
(* Type correctness.                                                       *)

\* A heater target command that executes carries an integer target.
LEMMA CommandedType ==
    ASSUME TypeOK, NEW h \in Heaters, NEW n \in 0 .. Len(queue)
    PROVE  Commanded(h, n) \in HeaterState
  <1> DEFINE S == TargetCommands(h, n)
  <1>1. heater[h] \in HeaterState
    BY DEF TypeOK
  <1>2. CASE S = {}
    BY <1>1, <1>2 DEF Commanded
  <1>3. CASE S # {}
    <2>1. n \in Nat /\ S \in SUBSET (1 .. n)
      BY DEF TypeOK, TargetCommands
    <2>0. Latest(S) \in S
      BY <2>1, <1>3, LatestIsLast
    <2>2. Latest(S) \in 1 .. Len(queue)
      BY <2>0, <2>1 DEF TargetCommands
    <2>3. queue[Latest(S)] \in QueuedCommand
      BY <2>2, ElementOfSeq DEF TypeOK
    <2>4. queue[Latest(S)].command \in Command
      BY <2>3 DEF QueuedCommand
    <2>5. queue[Latest(S)].command.type = "set_heater_target"
      BY <2>0, <2>1 DEF TargetCommands
    <2>6. queue[Latest(S)].command.target_milli_c \in Int
      BY <2>4, <2>5 DEF Command
    <2> QED  BY <1>1, <1>3, <2>6 DEF Commanded, HeaterState
  <1> QED  BY <1>2, <1>3

\* Converting a rate to a displacement per step yields an integer.
LEMMA PerMsType ==
    ASSUME NEW k \in Int
    PROVE  /\ Sign(k) \in Int /\ Magnitude(k) \in Nat
           /\ AsI64(k) \in Int /\ PerMs(k) \in Int
  <1>1. Sign(k) \in {-1, 0, 1} /\ Magnitude(k) \in Nat
    BY DEF Sign, Magnitude
  <1>2. AsI64(k) \in Int
    BY QueueAssumption DEF AsI64
  <1>3. Magnitude(k) \div MsPerS \in Int
    BY <1>1, QueueAssumption
  <1>4. PerMs(k) \in Int
    BY <1>1, <1>3 DEF PerMs
  <1> QED  BY <1>1, <1>2, <1>4

\* The motion a home or move command starts is well formed.
LEMMA NewMotionType ==
    ASSUME NEW c \in Command, c.type \in {"home", "move"}
    PROVE  NewMotion(c) \in Motion
  <1>1. CASE c.type = "home"
    <2>1. c.rate_um_s \in Nat
      BY <1>1 DEF Command
    <2>2. -PerMs(AsI64(c.rate_um_s)) \in Int
      BY <2>1, PerMsType
    <2> QED  BY <1>1, <2>2 DEF NewMotion, Motion
  <1>2. CASE c.type = "move"
    <2>1. c.rate_um_s \in Nat /\ c.distance_um \in Int
      BY <1>2 DEF Command
    <2>2. Sign(c.distance_um) \in {-1, 0, 1} /\ AsI64(c.rate_um_s) \in Int
      BY <2>1, PerMsType DEF Sign
    <2>3. Sign(c.distance_um) * AsI64(c.rate_um_s) \in Int
      BY <2>2
    <2>4. PerMs(Sign(c.distance_um) * AsI64(c.rate_um_s)) \in Int
      BY <2>3, PerMsType
    <2> QED  BY <1>2, <2>1, <2>4 DEF NewMotion, Motion
  <1> QED  BY <1>1, <1>2

\* An axis keeps its type when a motion starts and when it moves.
LEMMA DisplacedType ==
    ASSUME TypeOK, NEW a \in Axes, NEW n \in 0 .. Len(queue)
    PROVE  Displaced(Started(a, n)) \in AxisState
  <1> DEFINE S == MotionCommands(a, n)
             r == Started(a, n)
  <1>1. axis[a] \in AxisState
    BY DEF TypeOK
  <1>2. /\ <<>> \in Option(Motion)
        /\ \A m \in Motion : <<m>> \in Option(Motion)
    BY DEF Option
  <1>3. r \in AxisState
    <2>1. CASE S = {}
      BY <1>1, <2>1 DEF Started
    <2>2. CASE S # {}
      <3>1. n \in Nat /\ S \in SUBSET (1 .. n)
        BY DEF TypeOK, MotionCommands
      <3>0. Latest(S) \in S
        BY <3>1, <2>2, LatestIsLast
      <3>2. Latest(S) \in 1 .. Len(queue)
        BY <3>0, <3>1 DEF MotionCommands
      <3>3. queue[Latest(S)] \in QueuedCommand
        BY <3>2, ElementOfSeq DEF TypeOK
      <3>4. queue[Latest(S)].command \in Command
        BY <3>3 DEF QueuedCommand
      <3>5. queue[Latest(S)].command.type \in {"home", "move"}
        BY <3>0, <3>1 DEF MotionCommands
      <3>6. NewMotion(queue[Latest(S)].command) \in Motion
        BY <3>4, <3>5, NewMotionType
      <3> QED  BY <1>1, <1>2, <2>2, <3>6 DEF Started, AxisState
    <2> QED  BY <2>1, <2>2
  <1>4. CASE r.motion = <<>>
    BY <1>3, <1>4 DEF Displaced
  <1>5. CASE r.motion # <<>>
    <2> DEFINE m == r.motion[1]
    <2> HIDE DEF r
    <2>1. r.motion \in Seq(Motion) /\ r.motion # <<>> /\ r.position_um \in Int
      BY <1>3, <1>5 DEF AxisState, Option
    <2>2. m \in Motion
      <3>1. 1 \in 1 .. Len(r.motion)
        BY <2>1, EmptySeq
      <3> QED  BY <2>1, <3>1, ElementOfSeq
    <2>3. HomingStep(r) \in AxisState
      <3> DEFINE p == r.position_um + m.per_ms_um
      <3>1. p \in Int /\ <<>> \in Option(Motion)
        BY <1>2, <2>1, <2>2 DEF Motion
      <3>2. [r EXCEPT !.position_um = p] \in AxisState
        <4> HIDE DEF p
        <4> QED  BY <1>3, <3>1 DEF AxisState
      <3>3. [position_um |-> 0, motion |-> <<>>] \in AxisState
        BY <3>1 DEF AxisState
      <3>4. HomingStep(r) \in {[r EXCEPT !.position_um = p], [position_um |-> 0, motion |-> <<>>]}
        BY DEF HomingStep
      <3> QED  BY <3>2, <3>3, <3>4
    <2>4. MoveStep(r) \in AxisState
      <3> DEFINE step == IF Magnitude(m.per_ms_um) >= Magnitude(m.remaining_um)
                         THEN m.remaining_um ELSE m.per_ms_um
                 left == m.remaining_um - step
      <3>1. step \in Int /\ left \in Int /\ r.position_um + step \in Int
        BY <2>1, <2>2 DEF Motion
      <3>2. [m EXCEPT !.remaining_um = left] \in Motion
        <4> HIDE DEF m, left
        <4> QED  BY <2>2, <3>1 DEF Motion
      <3>3. (IF left = 0 THEN <<>> ELSE <<[m EXCEPT !.remaining_um = left]>>) \in Option(Motion)
        BY <1>2, <3>2
      <3>4. MoveStep(r) = [position_um |-> r.position_um + step,
                           motion |-> IF left = 0 THEN <<>>
                                      ELSE <<[m EXCEPT !.remaining_um = left]>>]
        BY DEF MoveStep
      <3> HIDE DEF m, step, left
      <3> QED  BY <3>1, <3>3, <3>4 DEF AxisState
    <2> QED  BY <1>5, <2>3, <2>4 DEF Displaced, r
  <1> QED  BY <1>4, <1>5

\* Handling a command, delivered or framed, keeps every type.
LEMMA AcceptType ==
    ASSUME TypeOK, NEW c \in Command, NEW t \in Nat \cup {None}, Accept(c, t)
    PROVE  TypeOK'
  <1> DEFINE at == IF t = None THEN now ELSE t
             e == [execute_at |-> at, command |-> c]
  <1>1. e \in QueuedCommand
    BY InputAssumption DEF QueuedCommand, TypeOK
  <1>2. queue' \in Seq(QueuedCommand) /\ Len(queue') <= QueueCapacity
    <2>1. CASE Admissible(c, t)
      <3>1. PICK p \in 1 .. Len(queue) + 1 : queue' = InsertAt(queue, p, e)
        BY <2>1 DEF Accept, Enqueue
      <3>2. queue \in Seq(QueuedCommand) /\ Len(queue) < QueueCapacity
        BY <2>1 DEF TypeOK, Admissible
      <3> HIDE DEF e
      <3>3. /\ InsertAt(queue, p, e) \in Seq(QueuedCommand)
            /\ Len(InsertAt(queue, p, e)) = Len(queue) + 1
        BY <1>1, <3>2, InsertedIsQueue
      <3>4. Len(queue) \in Nat
        BY <3>2
      <3> QED  BY <3>1, <3>2, <3>3, <3>4, QueueAssumption
    <2>2. CASE ~Admissible(c, t)
      BY <2>2 DEF Accept, TypeOK
    <2> QED  BY <2>1, <2>2
  <1>3. last_heartbeat' \in Nat
    BY DEF Accept, TypeOK
  <1> QED  BY <1>2, <1>3 DEF Accept, TypeOK, plants

\* Ending an iteration keeps every type.
LEMMA FinishType ==
    ASSUME TypeOK, Finish
    PROVE  TypeOK'
  <1>1. PICK n \in 0 .. Len(queue), temp \in [Heaters -> Temperatures] :
           /\ queue' = SubSeq(queue, n + 1, Len(queue))
           /\ heater' = [h \in Heaters |-> Integrated(Enveloped(h, Commanded(h, n)), temp[h])]
           /\ axis' = [a \in Axes |-> Displaced(Started(a, n))]
    BY DEF Finish
  <1>2. queue' \in Seq(QueuedCommand) /\ Len(queue') <= QueueCapacity
    <2>1. queue \in Seq(QueuedCommand) /\ Len(queue) <= QueueCapacity /\ Len(queue) \in Nat
      BY DEF TypeOK
    <2>2. queue' \in Seq(QueuedCommand) /\ Len(queue') = Len(queue) - n
      BY <1>1, <2>1, PoppedIsQueue
    <2> QED  BY <2>1, <2>2, QueueAssumption
  <1>3. ASSUME NEW h \in Heaters
        PROVE  Integrated(Enveloped(h, Commanded(h, n)), temp[h]) \in HeaterState
    <2> DEFINE r == Commanded(h, n)
               s == Enveloped(h, r)
    <2>1. r \in HeaterState
      BY CommandedType
    <2> HIDE DEF r
    <2>2. s \in HeaterState
      <3>1. CASE Starved(h, r)
        BY <2>1, <3>1 DEF Enveloped, Off, HeaterState
      <3>2. CASE ~Starved(h, r)
        BY <2>1, <3>2 DEF Enveloped
      <3> QED  BY <3>1, <3>2
    <2> HIDE DEF s
    <2>3. temp[h] \in Int
      BY ConfigAssumption
    <2>4. Integrated(s, temp[h]) \in HeaterState
      BY <2>2, <2>3 DEF Integrated, Wants, HeaterState
    <2> QED  BY <2>4 DEF s, r
  <1>4. \A a \in Axes : Displaced(Started(a, n)) \in AxisState
    BY DisplacedType
  <1>5. heater' \in [Heaters -> HeaterState] /\ axis' \in [Axes -> AxisState]
    BY <1>1, <1>3, <1>4
  <1>6. next_temp_sample' \in Nat
    <2>1. next_temp_sample \in Nat /\ next_temp_sample + SampleEvery \in Nat
      BY QueueAssumption DEF TypeOK
    <2>2. next_temp_sample' \in {next_temp_sample, next_temp_sample + SampleEvery}
      BY DEF Finish
    <2> QED  BY <2>1, <2>2
  <1>7. stepping' \in BOOLEAN
    BY DEF Finish
  <1> QED  BY <1>2, <1>5, <1>6, <1>7 DEF Finish, TypeOK

\* Every step of the controller keeps the types.
LEMMA TypeStep == TypeOK /\ [Next]_vars => TypeOK'
  <1> SUFFICES ASSUME TypeOK, [Next]_vars  PROVE TypeOK'
    OBVIOUS
  <1>1. CASE Tick
    BY <1>1, QueueAssumption DEF Tick, TypeOK, plants
  <1>2. ASSUME NEW c \in Commands, NEW t \in ExecuteTimes \cup {None},
               Deliver(c, t) \/ WireCommand(c, t)
        PROVE  TypeOK'
    BY <1>2, AcceptType, InputAssumption DEF Deliver, WireCommand
  <1>3. CASE Finish
    BY <1>3, FinishType
  <1>4. CASE Reset
    <2>1. heater' \in [Heaters -> HeaterState]
      <3>1. \A h \in Heaters : heater[h] \in HeaterState
        BY DEF TypeOK
      <3>2. \A h \in Heaters : Off(heater[h], FALSE) \in HeaterState
        BY <3>1 DEF Off, HeaterState
      <3> QED  BY <1>4, <3>2 DEF Reset
    <2>2. axis' \in [Axes -> AxisState]
      <3>1. <<>> \in Option(Motion)
        BY DEF Option
      <3> QED  BY <1>4, <3>1 DEF Reset, TypeOK, AxisState
    <2>3. queue' \in Seq(QueuedCommand) /\ Len(queue') <= QueueCapacity
      <3>1. queue' = <<>>
        BY <1>4 DEF Reset
      <3> QED  BY <3>1, QueueAssumption
    <2> QED  BY <1>4, <2>1, <2>2, <2>3 DEF Reset, TypeOK
  <1>5. ASSUME NEW w \in Windows, SetQueueWindow(w)
        PROVE  TypeOK'
    BY <1>5, InputAssumption DEF SetQueueWindow, TypeOK, plants
  <1>6. CASE UNCHANGED vars
    BY <1>6 DEF vars, plants, TypeOK
  <1> QED  BY <1>1, <1>2, <1>3, <1>4, <1>5, <1>6 DEF Next

\* The types hold initially.
LEMMA TypeInit == Init => TypeOK
  <1> SUFFICES ASSUME Init  PROVE TypeOK
    OBVIOUS
  <1>1. heater \in [Heaters -> HeaterState]
    BY ConfigAssumption DEF Init, HeaterState
  <1>2. axis \in [Axes -> AxisState]
    <2>1. <<>> \in Option(Motion)
      BY DEF Option
    <2> QED  BY <2>1, ConfigAssumption DEF Init, AxisState
  <1>3. queue \in Seq(QueuedCommand) /\ Len(queue) <= QueueCapacity
    BY QueueAssumption DEF Init
  <1>4. stepping \in BOOLEAN /\ latched_fault \in BOOLEAN
    BY DEF Init
  <1> QED  BY <1>1, <1>2, <1>3, <1>4, QueueAssumption DEF Init, TypeOK

\* Every variable of the controller always has the type of its field, and
\* the queue never exceeds its capacity.
THEOREM TypeCorrect == Spec => []TypeOK
  BY TypeInit, TypeStep, PTL DEF Spec

-----------------------------------------------------------------------------
(* The safety envelope and the latched fault.                              *)

\* One heater through one iteration, whatever commands it executes: the
\* envelope comes after the commands and before the plant.
LEMMA HeaterThroughIteration ==
    ASSUME Warm, TypeOK, EdgeInv, NEW h \in Heaters, NEW n \in 0 .. Len(queue),
           NEW t \in Int,
           Toward(Enveloped(h, Commanded(h, n)).milli_c,
                  Asymptote(h, Enveloped(h, Commanded(h, n))), t)
    PROVE  LET s == Integrated(Enveloped(h, Commanded(h, n)), t)
           IN  /\ s.milli_c >= 0
               /\ s.forced_safe => s.target_milli_c <= 0
               /\ s.duty_on => s.target_milli_c > 0
               /\ h \in TimedHeaters /\ (s.duty_on \/ s.target_milli_c > 0) =>
                     now - last_heartbeat <= HeartbeatTimeout[h]
  <1> DEFINE c == Commanded(h, n)
             r == Enveloped(h, c)
             s == Integrated(r, t)
  <1>1. c \in HeaterState
    BY CommandedType
  <1>2. c.milli_c >= 0 /\ (c.forced_safe => c.target_milli_c <= 0)
    <2>1. heater[h] \in HeaterState
      BY DEF TypeOK
    <2>2. heater[h].milli_c >= 0 /\ (heater[h].forced_safe => heater[h].target_milli_c <= 0)
      BY DEF EdgeInv
    <2>3. CASE TargetCommands(h, n) = {}
      BY <2>2, <2>3 DEF Commanded
    <2>4. CASE TargetCommands(h, n) # {}
      <3>1. c.milli_c = heater[h].milli_c /\ c.forced_safe = FALSE
        BY <2>1, <2>4 DEF Commanded, HeaterState
      <3> QED  BY <2>2, <3>1
    <2> QED  BY <2>3, <2>4
  <1> HIDE DEF c
  <1>3. r \in HeaterState
    BY <1>1 DEF Enveloped, Off, HeaterState
  <1>4. /\ r.milli_c >= 0
        /\ r.forced_safe => r.target_milli_c <= 0
        /\ ~Starved(h, r)
    <2>1. CASE Starved(h, c)
      <3>1. r = Off(c, TRUE)
        BY <2>1 DEF Enveloped
      <3>2. r.milli_c = c.milli_c /\ r.target_milli_c = 0
        BY <3>1 DEF Off
      <3>3. ~(r.target_milli_c > 0)
        BY <3>2
      <3> QED  BY <1>2, <3>2, <3>3 DEF Starved
    <2>2. CASE ~Starved(h, c)
      BY <1>2, <2>2 DEF Enveloped
    <2> QED  BY <2>1, <2>2
  <1>5. Asymptote(h, r) \in Int /\ Asymptote(h, r) >= 0
    <2>1. AmbientMilliC \in Int /\ GainMilliC[h] \in Int
      BY ConfigAssumption
    <2>2. AmbientMilliC >= 0 /\ GainMilliC[h] >= 0
      BY DEF Warm
    <2>3. Asymptote(h, r) \in {AmbientMilliC, AmbientMilliC + GainMilliC[h]}
      BY <2>1 DEF Asymptote
    <2> QED  BY <2>1, <2>2, <2>3
  <1>6. t >= 0
    <2>1. Toward(r.milli_c, Asymptote(h, r), t)
      BY DEF c
    <2>2. r.milli_c \in Int
      BY <1>3 DEF HeaterState
    <2> HIDE DEF r
    <2> QED  BY <1>4, <1>5, <2>1, <2>2 DEF Toward
  <1> HIDE DEF r
  <1>7. /\ s.milli_c = t /\ s.forced_safe = r.forced_safe
        /\ s.target_milli_c = r.target_milli_c /\ s.duty_on = Wants(r)
    BY <1>3 DEF Integrated, HeaterState
  <1>8. Wants(r) => r.target_milli_c > 0
    <2>1. r.milli_c \in Int /\ r.target_milli_c \in Int
      BY <1>3 DEF HeaterState
    <2>2. r.milli_c < r.target_milli_c => r.target_milli_c > 0
      BY <1>4, <2>1
    <2> QED  BY <2>2 DEF Wants
  <1>9. h \in TimedHeaters /\ r.target_milli_c > 0 => now - last_heartbeat <= HeartbeatTimeout[h]
    <2>1. SUFFICES ASSUME h \in TimedHeaters, r.target_milli_c > 0
                   PROVE  now - last_heartbeat <= HeartbeatTimeout[h]
      OBVIOUS
    <2>2. r.target_milli_c \in Int /\ now - last_heartbeat \in Int /\ HeartbeatTimeout[h] \in Int
      BY <1>3, <2>1, ConfigAssumption DEF HeaterState, TypeOK
    <2>3. ~(r.target_milli_c <= 0)
      BY <2>1, <2>2
    <2>4. ~r.forced_safe
      BY <1>4, <2>3
    <2>5. ~(now - last_heartbeat > HeartbeatTimeout[h])
      BY <1>4, <2>1, <2>4 DEF Starved
    <2> QED  BY <2>2, <2>5
  <1>10. /\ s.milli_c >= 0
         /\ s.forced_safe => s.target_milli_c <= 0
         /\ s.duty_on => s.target_milli_c > 0
         /\ h \in TimedHeaters /\ (s.duty_on \/ s.target_milli_c > 0) =>
               now - last_heartbeat <= HeartbeatTimeout[h]
    <2> HIDE DEF s
    <2> QED  BY <1>4, <1>6, <1>7, <1>8, <1>9
  <1> QED  BY <1>10 DEF s, r, c

\* A latched fault survives an iteration with every output still off: there
\* is nothing to execute and no heater wants power.
LEMMA FaultThroughIteration ==
    ASSUME Warm, TypeOK, EdgeInv, Finish, latched_fault
    PROVE  FaultedOutputsOff'
  <1>1. /\ queue = <<>>
        /\ \A h \in Heaters : ~Energized(h)
        /\ \A a \in Axes : axis[a].motion = <<>>
    BY DEF EdgeInv, FaultedOutputsOff
  <1>2. PICK n \in 0 .. Len(queue), temp \in [Heaters -> Temperatures] :
           /\ queue' = SubSeq(queue, n + 1, Len(queue))
           /\ heater' = [h \in Heaters |-> Integrated(Enveloped(h, Commanded(h, n)), temp[h])]
           /\ axis' = [a \in Axes |-> Displaced(Started(a, n))]
    BY DEF Finish
  <1>3. n = 0
    BY <1>1, <1>2
  <1>4. queue' = <<>>
    BY <1>1, <1>2, <1>3, SubSeqEmpty
  <1>5. ASSUME NEW h \in Heaters
        PROVE  ~(heater'[h].duty_on \/ heater'[h].target_milli_c > 0)
    <2>1. TargetCommands(h, n) = {}
      BY <1>3 DEF TargetCommands
    <2>2. Commanded(h, n) = heater[h]
      BY <2>1 DEF Commanded
    <2>3. ~(heater[h].target_milli_c > 0)
      BY <1>1 DEF Energized
    <2>4. Enveloped(h, heater[h]) = heater[h]
      BY <2>3 DEF Enveloped, Starved
    <2>5. heater[h] \in HeaterState
      BY DEF TypeOK
    <2>6. heater[h].milli_c >= 0
      BY DEF EdgeInv
    <2>7. heater'[h] = Integrated(heater[h], temp[h])
      BY <1>2, <2>2, <2>4
    <2>8. ~(heater[h].milli_c < heater[h].target_milli_c)
      BY <2>3, <2>5, <2>6 DEF HeaterState
    <2>9. /\ heater'[h].duty_on = Wants(heater[h])
          /\ heater'[h].target_milli_c = heater[h].target_milli_c
      BY <2>5, <2>7 DEF Integrated, HeaterState
    <2> QED  BY <2>3, <2>8, <2>9 DEF Wants
  <1>6. ASSUME NEW a \in Axes
        PROVE  axis'[a].motion = <<>>
    <2>1. MotionCommands(a, n) = {}
      BY <1>3 DEF MotionCommands
    <2>2. Started(a, n) = axis[a]
      BY <2>1 DEF Started
    <2>3. axis'[a] = axis[a]
      BY <1>1, <1>2, <2>2 DEF Displaced
    <2> QED  BY <1>1, <2>3
  <1> QED  BY <1>4, <1>5, <1>6 DEF FaultedOutputsOff, Energized

\* Handling a command moves no heater; only an unfaulted controller listens.
LEMMA AcceptEdgeInv ==
    ASSUME TypeOK, EdgeInv, NEW c \in Commands, NEW t \in ExecuteTimes \cup {None}, Accept(c, t)
    PROVE  EdgeInv'
  <1>1. heater' = heater /\ axis' = axis /\ now' = now /\ stepping' = stepping
        /\ latched_fault' = latched_fault
    BY DEF Accept, plants
  <1>2. last_heartbeat' = now \/ last_heartbeat' = last_heartbeat
    BY DEF Accept
  <1>3. latched_fault => queue' = queue
    BY DEF Accept, Admissible
  <1>4. HeartbeatEnvelope'
    <2>1. SUFFICES ASSUME ~stepping, NEW h \in TimedHeaters, Energized(h)
                   PROVE  now - last_heartbeat' <= HeartbeatTimeout[h]
      BY <1>1 DEF HeartbeatEnvelope, Energized
    <2>2. now - last_heartbeat <= HeartbeatTimeout[h]
      BY <2>1 DEF EdgeInv, HeartbeatEnvelope
    <2>3. HeartbeatTimeout[h] \in Nat
      BY ConfigAssumption
    <2> QED  BY <1>2, <2>2, <2>3 DEF TypeOK
  <1>5. FaultedOutputsOff'
    BY <1>1, <1>3 DEF EdgeInv, FaultedOutputsOff, Energized
  <1>6. last_heartbeat' = now' \/ last_heartbeat' <= now' - STEP_TICKS
    BY <1>1, <1>2 DEF EdgeInv
  <1> QED  BY <1>1, <1>4, <1>5, <1>6 DEF EdgeInv

\* The strengthened envelope is inductive.
LEMMA EdgeInductive ==
    ASSUME Warm
    PROVE  /\ Init => EdgeInv
           /\ TypeOK /\ EdgeInv /\ [Next]_vars => EdgeInv'
  <1>1. Init => EdgeInv
    <2> SUFFICES ASSUME Init  PROVE EdgeInv
      OBVIOUS
    <2>1. ASSUME NEW h \in Heaters
          PROVE  /\ heater[h].milli_c = AmbientMilliC /\ heater[h].target_milli_c = 0
                 /\ heater[h].duty_on = FALSE /\ heater[h].forced_safe = FALSE
      BY DEF Init
    <2>2. ASSUME NEW h \in Heaters
          PROVE  heater[h].milli_c >= 0 /\ heater[h].target_milli_c <= 0
                   /\ ~(heater[h].target_milli_c > 0)
      <3>1. heater[h].milli_c = AmbientMilliC /\ heater[h].target_milli_c = 0
        BY <2>1
      <3> QED  BY <3>1 DEF Warm
    <2>3. \A h \in Heaters : ~Energized(h)
      BY <2>1, <2>2 DEF Energized
    <2>4. TimedHeaters \subseteq Heaters
      BY ConfigAssumption
    <2>5. last_heartbeat = now /\ ~stepping /\ ~latched_fault
      BY DEF Init
    <2> QED  BY <2>1, <2>2, <2>3, <2>4, <2>5 DEF EdgeInv, HeartbeatEnvelope, FaultedOutputsOff
  <1>2. TypeOK /\ EdgeInv /\ [Next]_vars => EdgeInv'
    <2> SUFFICES ASSUME TypeOK, EdgeInv, [Next]_vars  PROVE EdgeInv'
      OBVIOUS
    <2>0. STEP_TICKS \in Nat /\ STEP_TICKS > 0 /\ now \in Nat /\ last_heartbeat \in Nat
      BY QueueAssumption DEF TypeOK
    <2>1. CASE Tick
      <3>1. /\ heater' = heater /\ axis' = axis /\ queue' = queue /\ stepping' = TRUE
            /\ latched_fault' = latched_fault /\ last_heartbeat' = last_heartbeat
            /\ now' = now + STEP_TICKS
        BY <2>1 DEF Tick, plants
      <3>2. last_heartbeat' <= now' - STEP_TICKS /\ STEP_TICKS <= now'
        BY <2>0, <3>1 DEF EdgeInv
      <3> QED  BY <3>1, <3>2 DEF EdgeInv, HeartbeatEnvelope, FaultedOutputsOff, Energized
    <2>2. ASSUME NEW c \in Commands, NEW t \in ExecuteTimes \cup {None},
                 Deliver(c, t) \/ WireCommand(c, t)
          PROVE  EdgeInv'
      BY <2>2, AcceptEdgeInv DEF Deliver, WireCommand
    <2>3. CASE Finish
      <3>1. PICK n \in 0 .. Len(queue), temp \in [Heaters -> Temperatures] :
               /\ \A h \in Heaters :
                     LET r == Enveloped(h, Commanded(h, n))
                     IN  Toward(r.milli_c, Asymptote(h, r), temp[h])
               /\ heater' = [h \in Heaters |->
                              Integrated(Enveloped(h, Commanded(h, n)), temp[h])]
        BY <2>3 DEF Finish
      <3>2. \A h \in Heaters : temp[h] \in Int
        BY ConfigAssumption
      <3>3. ASSUME NEW h \in Heaters
            PROVE  /\ heater'[h].milli_c >= 0
                   /\ heater'[h].forced_safe => heater'[h].target_milli_c <= 0
                   /\ heater'[h].duty_on => heater'[h].target_milli_c > 0
                   /\ h \in TimedHeaters /\ (heater'[h].duty_on \/ heater'[h].target_milli_c > 0)
                        => now - last_heartbeat <= HeartbeatTimeout[h]
        <4>1. heater'[h] = Integrated(Enveloped(h, Commanded(h, n)), temp[h])
          BY <3>1
        <4>2. Toward(Enveloped(h, Commanded(h, n)).milli_c,
                     Asymptote(h, Enveloped(h, Commanded(h, n))), temp[h])
          BY <3>1
        <4> QED  BY <3>2, <4>1, <4>2, HeaterThroughIteration
      <3>4. now' = now /\ last_heartbeat' = last_heartbeat /\ stepping' = FALSE
            /\ latched_fault' = latched_fault
        BY <2>3 DEF Finish
      <3>5. HeartbeatEnvelope'
        BY <3>3, <3>4, ConfigAssumption DEF HeartbeatEnvelope, Energized
      <3>6. FaultedOutputsOff'
        <4>1. CASE latched_fault
          BY <2>3, <4>1, FaultThroughIteration
        <4>2. CASE ~latched_fault
          BY <3>4, <4>2 DEF FaultedOutputsOff
        <4> QED  BY <4>1, <4>2
      <3> QED  BY <3>3, <3>4, <3>5, <3>6 DEF EdgeInv
    <2>4. CASE Reset
      <3>1. /\ queue' = <<>> /\ latched_fault' = TRUE
            /\ now' = now /\ stepping' = stepping /\ last_heartbeat' = last_heartbeat
        BY <2>4 DEF Reset
      <3>2. ASSUME NEW h \in Heaters
            PROVE  /\ heater'[h].milli_c = heater[h].milli_c
                   /\ heater'[h].target_milli_c = 0
                   /\ ~heater'[h].duty_on
        BY <2>4 DEF Reset, Off
      <3>3. ASSUME NEW h \in Heaters
            PROVE  heater'[h].target_milli_c <= 0 /\ ~(heater'[h].target_milli_c > 0)
        <4>1. heater'[h].target_milli_c = 0
          BY <3>2
        <4> QED  BY <4>1
      <3>4. \A h \in Heaters : ~Energized(h)'
        BY <3>2, <3>3 DEF Energized
      <3>5. \A a \in Axes : axis'[a].motion = <<>>
        BY <2>4 DEF Reset, TypeOK, AxisState
      <3>6. FaultedOutputsOff' /\ HeartbeatEnvelope'
        BY <3>1, <3>4, <3>5, ConfigAssumption DEF FaultedOutputsOff, HeartbeatEnvelope
      <3>7. \A h \in Heaters : heater'[h].milli_c >= 0
        BY <3>2 DEF EdgeInv
      <3> QED  BY <3>1, <3>2, <3>3, <3>6, <3>7 DEF EdgeInv
    <2>5. ASSUME NEW w \in Windows, SetQueueWindow(w)
          PROVE  EdgeInv'
      BY <2>5 DEF SetQueueWindow, plants, EdgeInv, HeartbeatEnvelope, FaultedOutputsOff, Energized
    <2>6. CASE UNCHANGED vars
      BY <2>6 DEF vars, plants, EdgeInv, HeartbeatEnvelope, FaultedOutputsOff, Energized
    <2> QED  BY <2>1, <2>2, <2>3, <2>4, <2>5, <2>6 DEF Next
  <1> QED  BY <1>1, <1>2

\* In a warm room, every state satisfies the strengthened envelope.
LEMMA EdgeInvariant == ASSUME Warm  PROVE Spec => []EdgeInv
  BY EdgeInductive, TypeCorrect, PTL DEF Spec

\* No stale queue, late command, lost heartbeat or reset leaves a supervised
\* heater energized past its timeout (the envelope run enforces each step).
THEOREM EnvelopeHolds == ASSUME Warm  PROVE Spec => []HeartbeatEnvelope
  <1>1. EdgeInv => HeartbeatEnvelope
    BY DEF EdgeInv
  <1> QED  BY <1>1, EdgeInvariant, PTL

\* After reset latches its fault every output is off for good.
THEOREM FaultHolds == ASSUME Warm  PROVE Spec => []FaultedOutputsOff
  <1>1. EdgeInv => FaultedOutputsOff
    BY DEF EdgeInv
  <1> QED  BY <1>1, EdgeInvariant, PTL

-----------------------------------------------------------------------------
(* The controller implements EdgeSafety.                                   *)

\* A step that touches neither heaters, clock, heartbeat nor fault is a
\* stutter of the contract.
LEMMA EdgeStutter ==
    ASSUME heater' = heater, latched_fault' = latched_fault, Silence' = Silence
    PROVE  UNCHANGED Edge!edgeVars
  BY DEF Edge!edgeVars, Energized

\* A command, delivered or framed, is a heartbeat heard or a stutter.
LEMMA AcceptRefines ==
    ASSUME TypeOK, NEW c \in Commands, NEW t \in ExecuteTimes \cup {None}, Accept(c, t)
    PROVE  Edge!Hear \/ UNCHANGED Edge!edgeVars
  <1>1. /\ heater' = heater /\ now' = now /\ stepping' = stepping
        /\ latched_fault' = latched_fault
    BY DEF Accept, plants
  <1>2. CASE last_heartbeat' = last_heartbeat
    <2>1. Silence' = Silence
      BY <1>1, <1>2 DEF Silence, Accounted
    <2> QED  BY <1>1, <2>1, EdgeStutter
  <1>3. CASE last_heartbeat' # last_heartbeat
    <2>1. last_heartbeat' = now /\ ~latched_fault
      BY <1>3 DEF Accept
    <2>2. Silence' = 0
      BY <1>1, <2>1, QueueAssumption DEF Silence, Accounted, TypeOK
    <2> QED  BY <1>1, <2>1, <2>2 DEF Edge!Hear, Energized
  <1> QED  BY <1>2, <1>3

\* The end of an iteration is a completed step of the contract.
LEMMA FinishRefines ==
    ASSUME TypeOK, EdgeInv, EdgeInv', Finish
    PROVE  Edge!Elapse
  <1>1. /\ stepping /\ stepping' = FALSE /\ now' = now
        /\ last_heartbeat' = last_heartbeat /\ latched_fault' = latched_fault
    BY DEF Finish
  <1>2. /\ now \in Nat /\ last_heartbeat \in Nat /\ STEP_TICKS \in Nat /\ STEP_TICKS > 0
        /\ last_heartbeat = now \/ last_heartbeat <= now - STEP_TICKS
    BY QueueAssumption DEF TypeOK, EdgeInv
  <1>3. Silence' = now - last_heartbeat
    BY <1>1, <1>2 DEF Silence, Accounted
  <1>4. Silence' \in {Silence + STEP_TICKS} \cup (IF Silence = 0 THEN {0} ELSE {})
    <2>1. CASE last_heartbeat = now
      BY <1>1, <1>2, <1>3, <2>1 DEF Silence, Accounted
    <2>2. CASE last_heartbeat <= now - STEP_TICKS
      <3>1. Silence = now - STEP_TICKS - last_heartbeat
        BY <1>1, <1>2, <2>2 DEF Silence, Accounted
      <3> QED  BY <1>2, <1>3, <3>1
    <2> QED  BY <1>2, <2>1, <2>2
  <1>5. { h \in Heaters : Energized(h) }' \subseteq
           IF latched_fault THEN {} ELSE Edge!Permitted(Silence')
    <2>1. CASE latched_fault
      BY <1>1, <2>1 DEF EdgeInv, FaultedOutputsOff
    <2>2. CASE ~latched_fault
      <3>1. ASSUME NEW h \in Heaters, Energized(h)', h \in TimedHeaters
            PROVE  Silence' <= HeartbeatTimeout[h]
        BY <1>1, <1>3, <3>1 DEF EdgeInv, HeartbeatEnvelope
      <3> QED  BY <2>2, <3>1 DEF Edge!Permitted
    <2> QED  BY <2>1, <2>2
  <1> QED  BY <1>1, <1>4, <1>5 DEF Edge!Elapse

\* Whatever the host, the queue and the test driver do, the controller keeps
\* the edge-safety contract of spec.md 3.5.
THEOREM ImplementsEdgeSafety == ASSUME Warm  PROVE Spec => EdgeSafetySpec
  <1>1. Init => Edge!Init
    <2> SUFFICES ASSUME Init  PROVE Edge!Init
      OBVIOUS
    <2>1. ASSUME NEW h \in Heaters  PROVE ~Energized(h)
      <3>1. heater[h].duty_on = FALSE
        BY DEF Init
      <3>2. ~(heater[h].target_milli_c > 0)
        <4>1. heater[h].target_milli_c = 0
          BY DEF Init
        <4> QED  BY <4>1
      <3> QED  BY <3>1, <3>2 DEF Energized
    <2>2. Silence = 0
      <3>1. last_heartbeat = 0 /\ now = 0 /\ ~stepping
        BY DEF Init
      <3> QED  BY <3>1 DEF Silence, Accounted
    <2>3. latched_fault = FALSE
      BY DEF Init
    <2> QED  BY <2>1, <2>2, <2>3 DEF Edge!Init
  <1>2. /\ TypeOK /\ EdgeInv /\ EdgeInv' /\ [Next]_vars
        => [Edge!Next]_(Edge!edgeVars)
    <2> SUFFICES ASSUME TypeOK, EdgeInv, EdgeInv', [Next]_vars
                 PROVE  [Edge!Next]_(Edge!edgeVars)
      OBVIOUS
    <2>1. CASE Tick
      <3>1. /\ heater' = heater /\ latched_fault' = latched_fault /\ ~stepping /\ stepping'
            /\ last_heartbeat' = last_heartbeat /\ now' = now + STEP_TICKS
        BY <2>1 DEF Tick, plants
      <3>2. Accounted' = Accounted
        BY <3>1, QueueAssumption DEF Accounted, TypeOK
      <3> QED  BY <3>1, <3>2, EdgeStutter DEF Silence
    <2>2. ASSUME NEW c \in Commands, NEW t \in ExecuteTimes \cup {None},
                 Deliver(c, t) \/ WireCommand(c, t)
          PROVE  [Edge!Next]_(Edge!edgeVars)
      BY <2>2, AcceptRefines DEF Deliver, WireCommand, Edge!Next
    <2>3. CASE Finish
      BY <2>3, FinishRefines DEF Edge!Next
    <2>4. CASE Reset
      <3>1. latched_fault' = TRUE /\ Silence' = Silence
        BY <2>4 DEF Reset, Silence, Accounted
      <3>2. { h \in Heaters : Energized(h) }' = {}
        BY <3>1 DEF EdgeInv, FaultedOutputsOff
      <3> QED  BY <3>1, <3>2 DEF Edge!Fault, Edge!Next
    <2>5. ASSUME NEW w \in Windows, SetQueueWindow(w)
          PROVE  [Edge!Next]_(Edge!edgeVars)
      BY <2>5, EdgeStutter DEF SetQueueWindow, plants, Silence, Accounted
    <2>6. CASE UNCHANGED vars
      BY <2>6, EdgeStutter DEF vars, plants, Silence, Accounted
    <2> QED  BY <2>1, <2>2, <2>3, <2>4, <2>5, <2>6 DEF Next
  <1> QED  BY <1>1, <1>2, TypeCorrect, EdgeInvariant, PTL DEF Spec, Edge!Spec, EdgeSafetySpec

-----------------------------------------------------------------------------
(* The order and the instants of the queue.                                *)

\* One quantum after an instant at which run executes comes the next.
LEMMA NextQuantum ==
    ASSUME NEW s \in Nat \ {0}, NEW t \in Nat, t % s = 0
    PROVE  (t + s) % s = 0
  <1>1. PICK k \in Nat : t = s * k
    <2>1. t = s * (t \div s) /\ t \div s \in Nat
      OBVIOUS
    <2> QED  BY <2>1
  <1>2. t + s = s * (k + 1)
    BY <1>1
  <1>3. (s * (k + 1)) % s = 0
    OBVIOUS
  <1> QED  BY <1>2, <1>3

\* QueueSound is inductive together with the clock, which only holds instants
\* at which run executes and is past the first of them within an iteration.
QueueInv ==
    /\ now % STEP_TICKS = 0
    /\ stepping => STEP_TICKS <= now
    /\ QueueSound

\* The earliest instant the queue may still hold.
Horizon == IF stepping THEN now - STEP_TICKS ELSE now

\* What is queued has an instant.
LEMMA QueuedInstants ==
    ASSUME TypeOK
    PROVE  \A i \in 1 .. Len(queue) : queue[i].execute_at \in Nat
  <1> SUFFICES ASSUME NEW i \in 1 .. Len(queue)  PROVE queue[i].execute_at \in Nat
    OBVIOUS
  <1>1. queue[i] \in QueuedCommand
    BY ElementOfSeq DEF TypeOK
  <1> QED  BY <1>1 DEF QueuedCommand

\* A command is queued for an instant that is still to come, or for now.
LEMMA AdmittedInstant ==
    ASSUME TypeOK, QueueInv, NEW c \in Command, NEW t \in Nat \cup {None},
           Admissible(c, t)
    PROVE  LET at == IF t = None THEN now ELSE t
           IN  at \in Nat /\ at % STEP_TICKS = 0 /\ at >= Horizon
  <1>1. CASE t = None
    BY <1>1, QueueAssumption DEF TypeOK, QueueInv, Horizon
  <1>2. CASE t # None
    <2>1. t \in Nat /\ t % STEP_TICKS = 0 /\ now + queue_window.min_lead_ticks <= t
      BY <1>2, InputAssumption DEF Admissible, InWindow, EarliestAccepted
    <2>2. queue_window.min_lead_ticks \in Nat /\ now \in Nat
      BY DEF TypeOK, QueueWindow
    <2> QED  BY <1>2, <2>1, <2>2, QueueAssumption DEF Horizon
  <1> QED  BY <1>1, <1>2

\* The queue with a command more.
LEMMA QueueInserted ==
    ASSUME TypeOK, NEW p \in 1 .. Len(queue) + 1, NEW e \in QueuedCommand
    PROVE  /\ InsertAt(queue, p, e) \in Seq(QueuedCommand)
           /\ Len(InsertAt(queue, p, e)) = Len(queue) + 1
           /\ \A i \in 1 .. Len(queue) + 1 :
                 InsertAt(queue, p, e)[i] =
                     IF i < p THEN queue[i] ELSE IF i = p THEN e ELSE queue[i - 1]
  <1>1. queue \in Seq(QueuedCommand)
    BY DEF TypeOK
  <1>2. /\ InsertAt(queue, p, e) \in Seq(QueuedCommand)
        /\ Len(InsertAt(queue, p, e)) = Len(queue) + 1
    BY <1>1, InsertedIsQueue
  <1>3. ASSUME NEW i \in 1 .. Len(queue) + 1
        PROVE  InsertAt(queue, p, e)[i] =
                   IF i < p THEN queue[i] ELSE IF i = p THEN e ELSE queue[i - 1]
    BY <1>1, InsertedIsQueue
  <1> QED  BY <1>2, <1>3

\* A command that is queued goes between those that execute no later and
\* those that execute later.
LEMMA AcceptQueueInv ==
    ASSUME TypeOK, QueueInv, NEW c \in Command, NEW t \in Nat \cup {None},
           Accept(c, t)
    PROVE  QueueInv'
  <1>1. now' = now /\ stepping' = stepping
    BY DEF Accept
  <1>2. CASE ~Admissible(c, t)
    BY <1>1, <1>2 DEF Accept, QueueInv, QueueSound
  <1>3. CASE Admissible(c, t)
    <2> DEFINE at == IF t = None THEN now ELSE t
               e == [execute_at |-> at, command |-> c]
    <2>1. at \in Nat /\ at % STEP_TICKS = 0 /\ at >= Horizon
      BY <1>3, AdmittedInstant
    <2>2. e \in QueuedCommand /\ e.execute_at = at
      BY <2>1, InputAssumption DEF QueuedCommand
    <2>3. PICK p \in 1 .. Len(queue) + 1 :
             /\ \A i \in 1 .. p - 1 : queue[i].execute_at <= at
             /\ p <= Len(queue) => queue[p].execute_at > at
             /\ queue' = InsertAt(queue, p, e)
      BY <1>3 DEF Accept, Enqueue
    <2> HIDE DEF at, e
    <2>4. queue \in Seq(QueuedCommand) /\ Len(queue) \in Nat
      BY DEF TypeOK
    <2>5. /\ queue' \in Seq(QueuedCommand) /\ Len(queue') = Len(queue) + 1
          /\ \A i \in 1 .. Len(queue) + 1 :
                queue'[i] = IF i < p THEN queue[i] ELSE IF i = p THEN e ELSE queue[i - 1]
      BY <2>2, <2>3, QueueInserted
    <2>6. \A i \in 1 .. Len(queue) : queue[i].execute_at \in Nat
      BY QueuedInstants
    <2>7. \A i \in 1 .. Len(queue) :
             queue[i].execute_at % STEP_TICKS = 0 /\ queue[i].execute_at >= Horizon
      BY <2>4 DEF QueueInv, QueueSound, Horizon
    <2>8. \A i, j \in 1 .. Len(queue) : i < j => queue[i].execute_at <= queue[j].execute_at
      BY <2>4 DEF QueueInv, QueueSound
    <2>9. \A i \in p .. Len(queue) : queue[i].execute_at > at
      <3> SUFFICES ASSUME NEW i \in p .. Len(queue)  PROVE queue[i].execute_at > at
        OBVIOUS
      <3>1. i = p \/ (p < i /\ queue[p].execute_at <= queue[i].execute_at)
        BY <2>4, <2>8
      <3>2. p \in 1 .. Len(queue) /\ i \in 1 .. Len(queue)
        BY <2>4
      <3> QED  BY <3>1, <3>2, <2>1, <2>3, <2>6
    <2>10. DOMAIN queue' = 1 .. Len(queue) + 1
      BY <2>5
    <2>11. ASSUME NEW i \in DOMAIN queue'
           PROVE  /\ queue'[i].execute_at % STEP_TICKS = 0
                  /\ queue'[i].execute_at >= Horizon
      <3>1. CASE i < p
        <4>1. i \in 1 .. Len(queue) /\ queue'[i] = queue[i]
          BY <3>1, <2>4, <2>5, <2>10
        <4> QED  BY <4>1, <2>7
      <3>2. CASE i = p
        BY <3>2, <2>1, <2>2, <2>5, <2>10
      <3>3. CASE i > p
        <4>1. i - 1 \in 1 .. Len(queue) /\ queue'[i] = queue[i - 1]
          BY <3>3, <2>4, <2>5, <2>10
        <4> QED  BY <4>1, <2>7
      <3> QED  BY <3>1, <3>2, <3>3, <2>4, <2>10
    <2>12. ASSUME NEW i \in DOMAIN queue', NEW j \in DOMAIN queue', i < j
           PROVE  queue'[i].execute_at <= queue'[j].execute_at
      <3>1. i \in 1 .. Len(queue) + 1 /\ j \in 1 .. Len(queue) + 1
        BY <2>10
      <3>2. CASE j < p
        <4>1. /\ i \in 1 .. Len(queue) /\ j \in 1 .. Len(queue)
              /\ queue'[i] = queue[i] /\ queue'[j] = queue[j]
          BY <3>1, <3>2, <2>4, <2>5, <2>12
        <4> QED  BY <4>1, <2>8, <2>12
      <3>3. CASE j = p
        <4>1. i \in 1 .. p - 1 /\ queue'[i] = queue[i] /\ queue'[j] = e
          BY <3>1, <3>3, <2>4, <2>5, <2>12
        <4> QED  BY <4>1, <2>2, <2>3
      <3>4. CASE j > p
        <4>1. j - 1 \in p .. Len(queue) /\ queue'[j] = queue[j - 1]
          BY <3>1, <3>4, <2>4, <2>5
        <4>2. CASE i < p
          <5>1. /\ i \in 1 .. Len(queue) /\ j - 1 \in 1 .. Len(queue) /\ i < j - 1
                /\ queue'[i] = queue[i]
            BY <3>1, <3>4, <4>1, <4>2, <2>4, <2>5
          <5> QED  BY <5>1, <4>1, <2>8
        <4>3. CASE i = p
          <5>1. queue'[i] = e /\ queue[j - 1].execute_at > at
            BY <4>1, <4>3, <2>5, <2>9
          <5>2. queue[j - 1].execute_at \in Nat
            BY <4>1, <2>4, <2>6
          <5> QED  BY <5>1, <5>2, <4>1, <2>1, <2>2
        <4>4. CASE i > p
          <5>1. /\ i - 1 \in 1 .. Len(queue) /\ j - 1 \in 1 .. Len(queue) /\ i - 1 < j - 1
                /\ queue'[i] = queue[i - 1]
            BY <3>1, <4>1, <4>4, <2>4, <2>5, <2>12
          <5> QED  BY <5>1, <4>1, <2>8
        <4> QED  BY <4>2, <4>3, <4>4, <3>1, <2>4
      <3> QED  BY <3>1, <3>2, <3>3, <3>4, <2>4
    <2>13. QueueSound'
      BY <1>1, <2>11, <2>12 DEF QueueSound, Horizon
    <2> QED  BY <1>1, <2>13 DEF QueueInv
  <1> QED  BY <1>2, <1>3

\* What an iteration leaves in the queue comes later than its instant.
LEMMA FinishQueueInv ==
    ASSUME TypeOK, QueueInv, Finish
    PROVE  QueueInv'
  <1>1. PICK n \in 0 .. Len(queue) :
           IsDuePrefix(n) /\ queue' = SubSeq(queue, n + 1, Len(queue))
    BY DEF Finish
  <1>2. now' = now /\ stepping' = FALSE
    BY DEF Finish
  <1>3. queue \in Seq(QueuedCommand) /\ Len(queue) \in Nat /\ now \in Nat
    BY DEF TypeOK
  <1>4. /\ queue' \in Seq(QueuedCommand) /\ Len(queue') = Len(queue) - n
        /\ \A i \in 1 .. Len(queue) - n : queue'[i] = queue[n + i]
    BY <1>1, <1>3, PoppedIsQueue
  <1>5. DOMAIN queue' = 1 .. Len(queue) - n
    BY <1>4
  <1>6. \A i \in 1 .. Len(queue) : queue[i].execute_at \in Nat
    BY QueuedInstants
  <1>7. \A i, j \in 1 .. Len(queue) : i < j => queue[i].execute_at <= queue[j].execute_at
    BY <1>3 DEF QueueInv, QueueSound
  <1>8. ASSUME NEW i \in DOMAIN queue'
        PROVE  queue'[i].execute_at % STEP_TICKS = 0 /\ queue'[i].execute_at >= now
    <2>0. i \in 1 .. Len(queue) - n /\ n \in Nat
      BY <1>5
    <2>1. n + i \in 1 .. Len(queue) /\ n + 1 \in 1 .. Len(queue) /\ queue'[i] = queue[n + i]
      BY <2>0, <1>3, <1>4
    <2>2. queue[n + i].execute_at % STEP_TICKS = 0
      BY <2>1, <1>3 DEF QueueInv, QueueSound
    <2>3. queue[n + 1].execute_at > now
      BY <2>1, <1>1, <1>3 DEF IsDuePrefix
    <2>4. n + 1 = n + i \/ n + 1 < n + i
      BY <2>0, <1>3
    <2>5. queue[n + 1].execute_at <= queue[n + i].execute_at
      BY <2>1, <2>4, <1>6, <1>7
    <2> QED  BY <2>1, <2>2, <2>3, <2>5, <1>3, <1>6
  <1>9. ASSUME NEW i \in DOMAIN queue', NEW j \in DOMAIN queue', i < j
        PROVE  queue'[i].execute_at <= queue'[j].execute_at
    <2>0. /\ i \in 1 .. Len(queue) - n /\ j \in 1 .. Len(queue) - n
          /\ n \in Nat /\ i < j
      BY <1>5, <1>9
    <2>1. n + i \in 1 .. Len(queue) /\ n + j \in 1 .. Len(queue) /\ n + i < n + j
      BY <2>0, <1>3
    <2>2. queue'[i] = queue[n + i] /\ queue'[j] = queue[n + j]
      BY <2>0, <1>4
    <2> QED  BY <2>1, <2>2, <1>7
  <1>10. QueueSound'
    BY <1>2, <1>8, <1>9 DEF QueueSound
  <1> QED  BY <1>2, <1>10 DEF QueueInv

\* Every step of the controller keeps the queue sound and the clock on its grid.
LEMMA QueueStep == TypeOK /\ QueueInv /\ [Next]_vars => QueueInv'
  <1> SUFFICES ASSUME TypeOK, QueueInv, [Next]_vars  PROVE QueueInv'
    OBVIOUS
  <1>1. CASE Tick
    <2>1. now \in Nat /\ STEP_TICKS \in Nat \ {0} /\ now' = now + STEP_TICKS /\ stepping'
          /\ ~stepping /\ queue' = queue
      BY <1>1, QueueAssumption DEF Tick, TypeOK
    <2>2. now' % STEP_TICKS = 0 /\ STEP_TICKS <= now' /\ now' - STEP_TICKS = now
      <3>1. (now + STEP_TICKS) % STEP_TICKS = 0
        BY <2>1, NextQuantum DEF QueueInv
      <3>2. STEP_TICKS <= now + STEP_TICKS /\ (now + STEP_TICKS) - STEP_TICKS = now
        BY <2>1
      <3> QED  BY <2>1, <3>1, <3>2
    <2> QED  BY <2>1, <2>2 DEF QueueInv, QueueSound
  <1>2. CASE \E c \in Commands, t \in ExecuteTimes \cup {None} :
                Deliver(c, t) \/ WireCommand(c, t)
    BY <1>2, AcceptQueueInv, InputAssumption DEF Deliver, WireCommand
  <1>3. CASE Finish
    BY <1>3, FinishQueueInv
  <1>4. CASE Reset
    <2>1. DOMAIN queue' = {} /\ now' = now /\ stepping' = stepping
      BY <1>4 DEF Reset
    <2> QED  BY <2>1 DEF QueueInv, QueueSound
  <1>5. CASE \E w \in Windows : SetQueueWindow(w)
    BY <1>5 DEF SetQueueWindow, QueueInv, QueueSound
  <1>6. CASE UNCHANGED vars
    BY <1>6 DEF vars, QueueInv, QueueSound
  <1> QED  BY <1>1, <1>2, <1>3, <1>4, <1>5, <1>6 DEF Next

\* The initial queue is empty, at an instant at which run executes.
LEMMA QueueInit == Init => QueueInv
  <1> SUFFICES ASSUME Init  PROVE QueueInv
    OBVIOUS
  <1>1. 0 % STEP_TICKS = 0
    BY QueueAssumption
  <1>2. DOMAIN queue = {}
    BY DEF Init
  <1> QED  BY <1>1, <1>2 DEF Init, QueueInv, QueueSound

\* The queue stays sound throughout.
LEMMA QueueInvariant == Spec => []QueueInv
  BY QueueInit, QueueStep, TypeCorrect, PTL DEF Spec

\* Commands wait in the order in which they execute, for instants at which
\* run executes and that no iteration has passed (accept, start_due, run).
THEOREM QueueTheorem == Spec => []QueueSound
  <1>1. QueueInv => QueueSound
    BY DEF QueueInv
  <1> QED  BY <1>1, QueueInvariant, PTL

\* Two instants at which run executes are a quantum apart.
LEMMA QuantaApart ==
    ASSUME NEW s \in Nat \ {0}, NEW t \in Nat, NEW u \in Nat, t % s = 0, u % s = 0, t < u
    PROVE  t + s <= u
  <1>1. PICK k \in Nat : t = s * k
    <2>1. t = s * (t \div s) /\ t \div s \in Nat
      OBVIOUS
    <2> QED  BY <2>1
  <1>2. PICK l \in Nat : u = s * l
    <2>1. u = s * (u \div s) /\ u \div s \in Nat
      OBVIOUS
    <2> QED  BY <2>1
  <1>3. k < l
    <2> SUFFICES ASSUME l <= k  PROVE FALSE
      OBVIOUS
    <2>1. s * l <= s * k
      OBVIOUS
    <2> QED  BY <2>1, <1>1, <1>2
  <1>4. s * (k + 1) <= s * l
    <2>1. k + 1 <= l
      BY <1>3
    <2> QED  BY <2>1
  <1>5. s * (k + 1) = s * k + s
    OBVIOUS
  <1> QED  BY <1>1, <1>2, <1>4, <1>5

\* An iteration pops exactly the entries that are due: they come first.
LEMMA FinishPopsDue ==
    ASSUME TypeOK, QueueInv, Finish
    PROVE  \E n \in 0 .. Len(queue) :
              /\ queue' = SubSeq(queue, n + 1, Len(queue))
              /\ \A i \in 1 .. Len(queue) : i <= n <=> queue[i].execute_at <= now
  <1>1. PICK n \in 0 .. Len(queue) :
           IsDuePrefix(n) /\ queue' = SubSeq(queue, n + 1, Len(queue))
    BY DEF Finish
  <1>2. queue \in Seq(QueuedCommand) /\ Len(queue) \in Nat /\ now \in Nat
    BY DEF TypeOK
  <1>3. \A i \in 1 .. Len(queue) : queue[i].execute_at \in Nat
    BY QueuedInstants
  <1>4. \A i, j \in 1 .. Len(queue) : i < j => queue[i].execute_at <= queue[j].execute_at
    BY <1>2 DEF QueueInv, QueueSound
  <1>5. ASSUME NEW i \in 1 .. Len(queue)
        PROVE  i <= n <=> queue[i].execute_at <= now
    <2>1. CASE i <= n
      BY <2>1, <1>1 DEF IsDuePrefix
    <2>2. CASE n < i
      <3>1. n + 1 \in 1 .. Len(queue) /\ queue[n + 1].execute_at > now
        BY <2>2, <1>1, <1>2 DEF IsDuePrefix
      <3>2. n + 1 = i \/ n + 1 < i
        BY <2>2
      <3>3. queue[n + 1].execute_at <= queue[i].execute_at
        BY <3>1, <3>2, <1>3, <1>4
      <3> QED  BY <2>2, <3>1, <3>3, <1>2, <1>3
    <2> QED  BY <2>1, <2>2
  <1> QED  BY <1>1, <1>5

\* What an iteration executes was queued for its instant or for the one before.
LEMMA DueInstants ==
    ASSUME TypeOK, QueueInv, stepping,
           NEW i \in DOMAIN queue, queue[i].execute_at <= now
    PROVE  queue[i].execute_at \in {now, now - STEP_TICKS}
  <1> DEFINE e == queue[i].execute_at
  <1>1. DOMAIN queue = 1 .. Len(queue)
    BY LenProperties DEF TypeOK
  <1>2. e \in Nat /\ now \in Nat /\ STEP_TICKS \in Nat \ {0}
    BY <1>1, QueuedInstants, QueueAssumption DEF TypeOK
  <1>3. e % STEP_TICKS = 0 /\ e >= now - STEP_TICKS /\ now % STEP_TICKS = 0 /\ e <= now
    BY DEF QueueInv, QueueSound
  <1>4. e < now => e + STEP_TICKS <= now
    <2> HIDE DEF e
    <2> QED  BY <1>2, <1>3, QuantaApart
  <1> QED  BY <1>2, <1>3, <1>4

\* The queue never loses a command but to execution and to a reset, and every
\* iteration executes exactly what is due (start_due, inject_reset).
THEOREM DueTheorem == Spec => ExecutesWhenDue
  <1>1. TypeOK /\ QueueInv /\ [Next]_vars => [LeavesWhenDue]_vars
    <2> SUFFICES ASSUME TypeOK, QueueInv, Next  PROVE LeavesWhenDue
      OBVIOUS
    <2>1. DOMAIN queue = 1 .. Len(queue) /\ Len(queue) \in Nat
      BY LenProperties DEF TypeOK
    <2>2. CASE Finish
      <3>1. stepping /\ IterationEnds
        BY <2>2 DEF Finish, IterationEnds
      <3>2. \A i \in DOMAIN queue : queue[i].execute_at <= now =>
               queue[i].execute_at \in {now, now - STEP_TICKS}
        BY <3>1, DueInstants
      <3> QED  BY <2>1, <2>2, <3>1, <3>2, FinishPopsDue DEF LeavesWhenDue
    <2>3. ASSUME NEW c \in Commands, NEW t \in ExecuteTimes \cup {None}, Accept(c, t)
          PROVE  LeavesWhenDue
      <3>1. ~IterationEnds
        BY <2>3 DEF Accept, IterationEnds
      <3>2. CASE queue' = queue
        BY <3>1, <3>2, <2>1 DEF LeavesWhenDue
      <3>3. CASE Enqueue(c, t) /\ Admissible(c, t)
        <4> DEFINE e == [execute_at |-> IF t = None THEN now ELSE t, command |-> c]
        <4>1. PICK p \in 1 .. Len(queue) + 1 : queue' = InsertAt(queue, p, e)
          BY <3>3 DEF Enqueue
        <4>2. e \in QueuedCommand
          BY InputAssumption DEF QueuedCommand, TypeOK
        <4>3. Len(queue') = Len(queue) + 1
          <5> HIDE DEF e
          <5> QED  BY <4>1, <4>2, QueueInserted
        <4> QED  BY <3>1, <4>3, <2>1 DEF LeavesWhenDue
      <3> QED  BY <2>3, <3>2, <3>3 DEF Accept
    <2>4. CASE Reset
      BY <2>4 DEF Reset, IterationEnds, LeavesWhenDue
    <2>5. CASE Tick \/ \E w \in Windows : SetQueueWindow(w)
      <3>1. queue' = queue /\ ~IterationEnds
        BY <2>5 DEF Tick, SetQueueWindow, IterationEnds
      <3> QED  BY <3>1, <2>1 DEF LeavesWhenDue
    <2> QED  BY <2>2, <2>3, <2>4, <2>5 DEF Next, Deliver, WireCommand
  <1> QED  BY <1>1, TypeCorrect, QueueInvariant, PTL DEF Spec, ExecutesWhenDue

-----------------------------------------------------------------------------
(* Motion.                                                                 *)

\* The rates at which a motion makes progress: at least one micrometre per
\* step, and a rate that stays positive as an i64.
Paced == \A c \in Commands : c.type \in {"home", "move"} =>
            MsPerS <= c.rate_um_s /\ c.rate_um_s < I64Limit

\* A motion goes where it is to end: homing towards 0, a move towards what
\* remains of it.
Directed(m) ==
    IF m.homing THEN m.per_ms_um < 0
    ELSE \/ m.per_ms_um > 0 /\ m.remaining_um > 0
         \/ m.per_ms_um < 0 /\ m.remaining_um < 0
         \/ m.per_ms_um = 0 /\ m.remaining_um = 0

\* What makes MotionAdvances hold: every motion under way is directed, and so
\* will be every one the queue holds.
MotionInv ==
    /\ queue \in Seq([execute_at : Nat, command : Commands])
    /\ \A a \in Axes : axis[a].motion # <<>> => Directed(axis[a].motion[1])

\* A rate of at least one unit per step moves by at least one unit per step.
LEMMA PerMsPositive ==
    ASSUME NEW k \in Nat, MsPerS <= k
    PROVE  PerMs(k) > 0 /\ PerMs(-k) < 0 /\ PerMs(0) = 0
  <1>1. MsPerS \in Nat /\ MsPerS > 0
    BY QueueAssumption
  <1>2. k \div MsPerS \in Nat /\ k \div MsPerS > 0
    BY <1>1
  <1>3. /\ Sign(k) = 1 /\ Magnitude(k) = k /\ Sign(-k) = -1 /\ Magnitude(-k) = k
        /\ Sign(0) = 0 /\ Magnitude(0) = 0
    BY <1>1 DEF Sign, Magnitude
  <1>4. PerMs(k) = k \div MsPerS /\ PerMs(-k) = -(k \div MsPerS)
    BY <1>2, <1>3 DEF PerMs
  <1>5. PerMs(0) = 0 * (0 \div MsPerS) /\ 0 \div MsPerS \in Int
    BY <1>1, <1>3 DEF PerMs
  <1> QED  BY <1>2, <1>4, <1>5

\* Motions start in their direction.
LEMMA NewMotionDirected ==
    ASSUME Paced, NEW c \in Commands, c.type \in {"home", "move"}
    PROVE  NewMotion(c) \in Motion /\ Directed(NewMotion(c))
  <1>1. c \in Command /\ MsPerS <= c.rate_um_s /\ c.rate_um_s < I64Limit
    BY InputAssumption DEF Paced
  <1>2. c.rate_um_s \in Nat
    BY <1>1 DEF Command
  <1>3. AsI64(c.rate_um_s) = c.rate_um_s
    BY <1>1 DEF AsI64
  <1>4. /\ PerMs(c.rate_um_s) > 0 /\ PerMs(-c.rate_um_s) < 0 /\ PerMs(0) = 0
        /\ PerMs(c.rate_um_s) \in Int
    BY <1>1, <1>2, PerMsPositive, PerMsType
  <1>5. NewMotion(c) \in Motion
    BY <1>1, NewMotionType
  <1>6. CASE c.type = "home"
    BY <1>3, <1>4, <1>5, <1>6 DEF NewMotion, Directed
  <1>7. CASE c.type = "move"
    <2> DEFINE d == c.distance_um
               s == Sign(d) * c.rate_um_s
    <2>1. d \in Int
      BY <1>1, <1>7 DEF Command
    <2>2. NewMotion(c) = [per_ms_um |-> PerMs(s), remaining_um |-> d, homing |-> FALSE]
      BY <1>3, <1>7 DEF NewMotion
    <2>3. \/ d > 0 /\ s = c.rate_um_s
          \/ d < 0 /\ s = -c.rate_um_s
          \/ d = 0 /\ s = 0
      BY <1>2, <2>1 DEF Sign
    <2> HIDE DEF d, s
    <2>4. \/ d > 0 /\ PerMs(s) > 0
          \/ d < 0 /\ PerMs(s) < 0
          \/ d = 0 /\ PerMs(s) = 0
      BY <1>4, <2>3
    <2> QED  BY <1>5, <2>2, <2>4 DEF Directed
  <1> QED  BY <1>6, <1>7

\* One step of a directed motion advances it and leaves it directed.
LEMMA DirectedAdvances ==
    ASSUME NEW r \in AxisState, r.motion # <<>>, Directed(r.motion[1])
    PROVE  LET s == Displaced(r)
           IN  Advanced(r, s) /\ (s.motion # <<>> => Directed(s.motion[1]))
  <1> DEFINE m == r.motion[1]
  <1>1. r.position_um \in Int /\ m \in Motion
    BY DEF AxisState, Option
  <1>2. m.per_ms_um \in Int /\ m.remaining_um \in Int /\ m.homing \in BOOLEAN
    BY <1>1 DEF Motion
  <1>3. CASE m.homing
    <2> DEFINE p == r.position_um + m.per_ms_um
    <2>1. m.per_ms_um < 0 /\ p < r.position_um
      BY <1>1, <1>2, <1>3 DEF Directed
    <2>2. CASE p <= 0
      <3>1. Displaced(r) = [position_um |-> 0, motion |-> <<>>]
        BY <1>3, <2>2 DEF Displaced, HomingStep
      <3> QED  BY <1>3, <3>1 DEF Advanced
    <2>3. CASE ~(p <= 0)
      <3>1. Displaced(r) = [r EXCEPT !.position_um = p]
        BY <1>3, <2>3 DEF Displaced, HomingStep
      <3>2. Displaced(r).position_um = p /\ Displaced(r).motion = r.motion
        BY <3>1 DEF AxisState
      <3> QED  BY <1>3, <2>1, <3>2 DEF Advanced
    <2> QED  BY <2>2, <2>3
  <1>4. CASE ~m.homing
    <2> DEFINE rem == m.remaining_um
               per == m.per_ms_um
               step == IF Magnitude(per) >= Magnitude(rem) THEN rem ELSE per
               left == rem - step
    <2>1. Displaced(r) = [position_um |-> r.position_um + step,
                          motion |-> IF left = 0 THEN <<>> ELSE <<[m EXCEPT !.remaining_um = left]>>]
      BY <1>4 DEF Displaced, MoveStep
    <2>2. \/ per > 0 /\ rem > 0
          \/ per < 0 /\ rem < 0
          \/ per = 0 /\ rem = 0
      BY <1>4 DEF Directed
    <2>3. /\ step \in Int /\ left \in Int
          /\ left = 0 => step = rem
          /\ left # 0 => /\ Magnitude(left) < Magnitude(rem)
                        /\ \/ per > 0 /\ left > 0
                           \/ per < 0 /\ left < 0
      <3> HIDE DEF rem, per
      <3>1. per \in Int /\ rem \in Int
        BY <1>2 DEF per, rem
      <3> QED  BY <2>2, <3>1 DEF Magnitude
    <2> DEFINE n == [m EXCEPT !.remaining_um = left]
    <2>4. n.per_ms_um = per /\ n.remaining_um = left /\ n.homing = m.homing
      BY <1>1 DEF Motion
    <2> HIDE DEF left, step, n
    <2>5. CASE left = 0
      <3>1. Displaced(r).motion = <<>> /\ Displaced(r).position_um = r.position_um + step
        BY <2>1, <2>5
      <3> QED  BY <1>4, <2>3, <2>5, <3>1 DEF Advanced
    <2>6. CASE left # 0
      <3>1. /\ Displaced(r).motion # <<>>
            /\ Displaced(r).motion[1] = n
            /\ Displaced(r).position_um = r.position_um + step
        BY <2>1, <2>6 DEF n
      <3>2. r.position_um + step + left = r.position_um + rem
        BY <1>1, <1>2, <2>3 DEF left
      <3>3. Directed(Displaced(r).motion[1])
        BY <1>4, <2>3, <2>4, <2>6, <3>1 DEF Directed
      <3>4. Advanced(r, Displaced(r))
        BY <1>4, <2>3, <2>4, <2>6, <3>1, <3>2 DEF Advanced
      <3> QED  BY <3>3, <3>4
    <2> QED  BY <2>5, <2>6
  <1> QED  BY <1>3, <1>4

\* With or without a command of its own, an axis has a directed motion or none.
LEMMA StartedDirected ==
    ASSUME TypeOK, MotionInv, Paced, NEW a \in Axes, NEW n \in 0 .. Len(queue)
    PROVE  /\ Started(a, n) \in AxisState
           /\ Started(a, n).motion # <<>> => Directed(Started(a, n).motion[1])
  <1> DEFINE S == MotionCommands(a, n)
             c == queue[Latest(S)].command
  <1>1. axis[a] \in AxisState
    BY DEF TypeOK
  <1>2. CASE S = {}
    BY <1>1, <1>2 DEF Started, MotionInv
  <1>3. CASE S # {}
    <2>1. n \in Nat /\ S \in SUBSET (1 .. n) /\ Len(queue) \in Nat
      BY DEF TypeOK, MotionCommands
    <2>2. Latest(S) \in S
      BY <2>1, <1>3, LatestIsLast
    <2>3. Latest(S) \in 1 .. Len(queue) /\ c.type \in {"home", "move"}
      BY <2>1, <2>2 DEF MotionCommands
    <2>4. queue[Latest(S)] \in [execute_at : Nat, command : Commands]
      BY <2>3, ElementOfSeq DEF MotionInv
    <2>5. NewMotion(c) \in Motion /\ Directed(NewMotion(c))
      BY <2>3, <2>4, NewMotionDirected
    <2>6. Started(a, n) = [axis[a] EXCEPT !.motion = <<NewMotion(c)>>]
      BY <1>3 DEF Started
    <2> HIDE DEF c
    <2>7. <<NewMotion(c)>> \in Option(Motion)
      BY <2>5 DEF Option
    <2> QED  BY <1>1, <2>5, <2>6, <2>7 DEF AxisState
  <1> QED  BY <1>2, <1>3

\* An axis that no due command disturbs makes its step of the motion it has.
LEMMA UndisturbedGoesOn ==
    ASSUME TypeOK, NEW a \in Axes, Undisturbed(a),
           NEW n \in 0 .. Len(queue), IsDuePrefix(n)
    PROVE  Started(a, n) = axis[a]
  <1>1. DOMAIN queue = 1 .. Len(queue) /\ Len(queue) \in Nat
    BY LenProperties DEF TypeOK
  <1>2. MotionCommands(a, n) = {}
    BY <1>1 DEF MotionCommands, Undisturbed, IsDuePrefix
  <1> QED  BY <1>2 DEF Started

\* An iteration advances every undisturbed motion and leaves all directed.
LEMMA FinishMotion ==
    ASSUME TypeOK, MotionInv, Paced, Finish
    PROVE  /\ MotionInv'
           /\ \A a \in Axes : Undisturbed(a) => Advanced(axis[a], axis'[a])
  <1>1. PICK n \in 0 .. Len(queue) :
           /\ IsDuePrefix(n)
           /\ queue' = SubSeq(queue, n + 1, Len(queue))
           /\ axis' = [a \in Axes |-> Displaced(Started(a, n))]
    BY DEF Finish
  <1>2. queue' \in Seq([execute_at : Nat, command : Commands])
    BY <1>1, PoppedIsQueue DEF MotionInv
  <1>3. ASSUME NEW a \in Axes
        PROVE  /\ axis'[a].motion # <<>> => Directed(axis'[a].motion[1])
               /\ Undisturbed(a) => Advanced(axis[a], axis'[a])
    <2> DEFINE r == Started(a, n)
    <2>1. r \in AxisState /\ (r.motion # <<>> => Directed(r.motion[1]))
      BY StartedDirected
    <2>2. axis'[a] = Displaced(r)
      BY <1>1
    <2>3. Undisturbed(a) => r = axis[a] /\ r.motion # <<>>
      BY <1>1, UndisturbedGoesOn DEF Undisturbed
    <2> HIDE DEF r
    <2>4. CASE r.motion = <<>>
      <3>1. Displaced(r) = r
        BY <2>4 DEF Displaced
      <3> QED  BY <2>2, <2>3, <2>4, <3>1
    <2>5. CASE r.motion # <<>>
      BY <2>1, <2>2, <2>3, <2>5, DirectedAdvances
    <2> QED  BY <2>4, <2>5
  <1> QED  BY <1>2, <1>3 DEF MotionInv

\* Every step keeps it.
LEMMA MotionStep == Paced /\ TypeOK /\ MotionInv /\ [Next]_vars => MotionInv'
  <1> SUFFICES ASSUME Paced, TypeOK, MotionInv, [Next]_vars  PROVE MotionInv'
    OBVIOUS
  <1>1. CASE Finish
    BY <1>1, FinishMotion
  <1>2. ASSUME NEW c \in Commands, NEW t \in ExecuteTimes \cup {None}, Accept(c, t)
        PROVE  MotionInv'
    <2>1. axis' = axis
      BY <1>2 DEF Accept, plants
    <2>2. CASE queue' = queue
      BY <2>1, <2>2 DEF MotionInv
    <2>3. CASE Enqueue(c, t)
      <3> DEFINE e == [execute_at |-> IF t = None THEN now ELSE t, command |-> c]
                 S == [execute_at : Nat, command : Commands]
      <3>1. PICK p \in 1 .. Len(queue) + 1 : queue' = InsertAt(queue, p, e)
        BY <2>3 DEF Enqueue
      <3>2. e \in S /\ queue \in Seq(S)
        BY InputAssumption DEF TypeOK, MotionInv
      <3>3. queue' \in Seq(S)
        <4> HIDE DEF e, S
        <4> QED  BY <3>1, <3>2, InsertedIsQueue
      <3> QED  BY <2>1, <3>3 DEF MotionInv
    <2> QED  BY <1>2, <2>2, <2>3 DEF Accept
  <1>3. CASE Reset
    <2>1. \A a \in Axes : axis'[a].motion = <<>>
      <3>1. \A a \in Axes : axis[a] \in AxisState
        BY DEF TypeOK
      <3> QED  BY <1>3, <3>1 DEF Reset, AxisState
    <2> QED  BY <1>3, <2>1 DEF Reset, MotionInv
  <1>4. CASE UNCHANGED <<axis, queue>>
    BY <1>4 DEF MotionInv
  <1> QED
    BY <1>1, <1>2, <1>3, <1>4
    DEF Next, Deliver, WireCommand, Tick, SetQueueWindow, vars, plants

\* No iteration leaves a moving axis where it is, takes it away from the end of
\* its motion or past it, until the motion ends or a due command replaces it.
THEOREM MotionTheorem == ASSUME Paced  PROVE Spec => MotionAdvances
  <1> DEFINE Advances ==
                IterationEnds => \A a \in Axes : Undisturbed(a) => Advanced(axis[a], axis'[a])
  <1>1. Init => MotionInv
    BY ConfigAssumption DEF Init, MotionInv
  <1>2. Spec => []MotionInv
    BY <1>1, MotionStep, TypeCorrect, PTL DEF Spec
  <1>3. TypeOK /\ MotionInv /\ [Next]_vars => [Advances]_vars
    <2> SUFFICES ASSUME TypeOK, MotionInv, Next, IterationEnds
                 PROVE  \A a \in Axes : Undisturbed(a) => Advanced(axis[a], axis'[a])
      OBVIOUS
    <2>1. Finish
      BY DEF IterationEnds, Next, Tick, Deliver, WireCommand, Accept, Reset, SetQueueWindow
    <2> QED  BY <2>1, FinishMotion
  <1>4. Spec => [][Advances]_vars
    BY <1>2, <1>3, TypeCorrect, PTL DEF Spec
  <1> QED  BY <1>4, PTL DEF MotionAdvances
============================================================================
