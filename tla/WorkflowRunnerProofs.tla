------------------------ MODULE WorkflowRunnerProofs ------------------------
(***************************************************************************)
(* Proofs about the workflow runner for every configuration, every job and *)
(* every sequence of controller reports.                                   *)
(***************************************************************************)
EXTENDS WorkflowRunner, WellFoundedInduction, NaturalsInduction, TLAPS

-----------------------------------------------------------------------------
(* Minima and maxima of the few numbers the runner compares.               *)

\* The smaller of two numbers is one of them (the horizon).
LEMMA MinOfTwo ==
    ASSUME NEW a \in Int, NEW b \in Int
    PROVE  Min({a, b}) \in {a, b} /\ Min({a, b}) <= a /\ Min({a, b}) <= b
  <1>1. \E x \in {a, b} : \A y \in {a, b} : x <= y
    OBVIOUS
  <1>. QED  BY <1>1 DEF Min

\* The smallest of three numbers is below all of them (the batch size).
LEMMA MinOfThree ==
    ASSUME NEW a \in Int, NEW b \in Int, NEW c \in Int
    PROVE  /\ Min({a, b, c}) \in {a, b, c}
           /\ Min({a, b, c}) <= a /\ Min({a, b, c}) <= b /\ Min({a, b, c}) <= c
  <1>1. \E x \in {a, b, c} : \A y \in {a, b, c} : x <= y
    OBVIOUS
  <1>. QED  BY <1>1 DEF Min

\* The larger of 0 and a number (the saturating subtraction).
LEMMA MaxWithZero ==
    ASSUME NEW b \in Int
    PROVE  Max({0, b}) \in {0, b} /\ Max({0, b}) >= 0 /\ Max({0, b}) >= b
  <1>1. \E x \in {0, b} : \A y \in {0, b} : x >= y
    OBVIOUS
  <1>. QED  BY <1>1 DEF Max

\* The largest of three numbers is one of them and above all of them.
LEMMA MaxOfThree ==
    ASSUME NEW a \in Int, NEW b \in Int, NEW c \in Int
    PROVE  /\ Max({a, b, c}) \in {a, b, c}
           /\ Max({a, b, c}) >= a /\ Max({a, b, c}) >= b /\ Max({a, b, c}) >= c
  <1>1. \E x \in {a, b, c} : \A y \in {a, b, c} : x >= y
    OBVIOUS
  <1>. QED  BY <1>1 DEF Max

\* The sum of two multiples is a multiple.
LEMMA GridSum ==
    ASSUME NEW s \in Nat \ {0}, NEW a \in Nat, NEW b \in Nat, a % s = 0, b % s = 0
    PROVE  (a + b) % s = 0
  <1>1. PICK k \in Nat : a = s * k
    <2>1. a = s * (a \div s) /\ a \div s \in Nat
      OBVIOUS
    <2>. QED  BY <2>1
  <1>2. PICK l \in Nat : b = s * l
    <2>1. b = s * (b \div s) /\ b \div s \in Nat
      OBVIOUS
    <2>. QED  BY <2>1
  <1>3. a + b = s * (k + l)
    BY <1>1, <1>2
  <1>4. (s * (k + l)) % s = 0
    OBVIOUS
  <1>. QED  BY <1>3, <1>4

-----------------------------------------------------------------------------
(* Recursion over the positions of a batch.                                *)

\* A set of numbers with 0 and every successor of its numbers has all of them.
LEMMA NatSet ==
    ASSUME NEW P, 0 \in P, \A m \in Nat : m \in P => m + 1 \in P
    PROVE  Nat \subseteq P
  <1>. DEFINE D == Nat \ P
  <1>1. SUFFICES ASSUME D # {}  PROVE FALSE
    OBVIOUS
  <1>2. IsWellFoundedOn(OpToRel(<, Nat), Nat)
    BY NatLessThanWellFounded
  <1>3. PICK x \in D : \A y \in D : ~(<<y, x>> \in OpToRel(<, Nat))
    <2>1. D \subseteq Nat
      OBVIOUS
    <2> HIDE DEF D
    <2> QED  BY <1>1, <1>2, <2>1, WFMin
  <1>4. x \in Nat /\ x # 0 /\ x - 1 \in Nat /\ (x - 1) + 1 = x
    OBVIOUS
  <1>5. x - 1 \in P
    <2>1. SUFFICES ASSUME x - 1 \notin P  PROVE FALSE
      OBVIOUS
    <2>2. ~(<<x - 1, x>> \in OpToRel(<, Nat))
      BY <1>3, <1>4, <2>1
    <2>3. x - 1 < x
      BY <1>4
    <2>. QED  BY <1>4, <2>2, <2>3 DEF OpToRel
  <1>. QED  BY <1>4, <1>5

\* Some function over 0 .. n starts at a and proceeds by F.
HasRecursion(T, n, a, F) ==
    \E f \in [0 .. n -> T] : \A i \in 0 .. n : f[i] = IF i = 0 THEN a ELSE F[i][f[i - 1]]

\* A function over 0 .. n may be defined by recursion on its argument.
LEMMA RecursionExists ==
    ASSUME NEW T, NEW n \in Nat, NEW a \in T, NEW F \in [1 .. n -> [T -> T]]
    PROVE  HasRecursion(T, n, a, F)
  <1>. DEFINE Good(m, f) == \A i \in 0 .. m : f[i] = IF i = 0 THEN a ELSE F[i][f[i - 1]]
              P == { m \in Nat : m <= n => \E f \in [0 .. m -> T] : Good(m, f) }
  <1>1. 0 \in P
    <2>. DEFINE f == [i \in 0 .. 0 |-> a]
    <2>1. f \in [0 .. 0 -> T] /\ Good(0, f)
      OBVIOUS
    <2>. QED  BY <2>1
  <1>2. ASSUME NEW m \in Nat, m \in P  PROVE m + 1 \in P
    <2>1. SUFFICES ASSUME m + 1 <= n
                   PROVE  \E g \in [0 .. m + 1 -> T] : Good(m + 1, g)
      OBVIOUS
    <2>2. PICK f \in [0 .. m -> T] : Good(m, f)
      BY <1>2, <2>1
    <2>. DEFINE g == [i \in 0 .. m + 1 |-> IF i = m + 1 THEN F[m + 1][f[m]] ELSE f[i]]
    <2>3. f[m] \in T /\ m + 1 \in 1 .. n
      BY <2>1
    <2>4. F[m + 1][f[m]] \in T
      BY <2>3
    <2>5. g \in [0 .. m + 1 -> T]
      BY <2>4
    <2>6. ASSUME NEW i \in 0 .. m + 1
          PROVE  g[i] = IF i = 0 THEN a ELSE F[i][g[i - 1]]
      <3>1. CASE i = m + 1
        <4>1. i - 1 = m /\ i # 0 /\ m \in 0 .. m + 1 /\ m # m + 1
          BY <3>1
        <4>2. g[i - 1] = f[m]
          BY <4>1
        <4>. QED  BY <3>1, <4>1, <4>2
      <3>2. CASE i # m + 1 /\ i # 0
        <4>1. i \in 0 .. m /\ i - 1 \in 0 .. m + 1 /\ i - 1 # m + 1
          BY <3>2
        <4>2. g[i] = f[i] /\ g[i - 1] = f[i - 1]
          BY <3>2, <4>1
        <4>. QED  BY <2>2, <3>2, <4>1, <4>2
      <3>3. CASE i = 0
        <4>1. i \in 0 .. m /\ i # m + 1
          BY <3>3
        <4>2. g[i] = f[i] /\ f[i] = a
          BY <2>2, <3>3, <4>1
        <4>. QED  BY <3>3, <4>2
      <3>. QED  BY <3>1, <3>2, <3>3
    <2>. QED  BY <2>5, <2>6
  <1>3. n \in P
    <2>. HIDE DEF P
    <2>. QED  BY <1>1, <1>2, NatSet
  <1>. QED  BY <1>3 DEF HasRecursion

-----------------------------------------------------------------------------
(* The inductive invariant: the counters with the types they need.         *)

RunnerInv ==
    /\ job_queue \in Seq(CommandEnvelope)
    /\ last_controller_status \in ControllerSessionStatus \cup {None}
    /\ last_dispatched_tick \in Nat \cup {None}
    /\ total_enqueued \in Nat /\ total_dispatched \in Nat /\ total_completed \in Nat
    /\ Conserved
    /\ CompletedIsDrained

\* The runner's initial state satisfies the invariant.
LEMMA RunnerInvInit == Init => RunnerInv
  BY DEF Init, RunnerInv, Conserved, CompletedIsDrained

\* Appending to the job queue keeps the sum of what is queued and dispatched.
LEMMA EnqueueKeeps ==
    ASSUME RunnerInv,
           NEW n \in 1 .. MaxBatch, NEW envelopes \in [1 .. n -> Envelopes],
           EnqueueBatch(envelopes)
    PROVE  RunnerInv'
  <1>. USE RunnerAssumption DEF RunnerInv, EnqueueBatch
  <1>1. envelopes \in Seq(CommandEnvelope) /\ Len(envelopes) \in Nat
    OBVIOUS
  <1>2. /\ job_queue' \in Seq(CommandEnvelope)
        /\ Len(job_queue') = Len(job_queue) + Len(envelopes)
    BY <1>1
  <1>3. Conserved'
    BY <1>1, <1>2 DEF Conserved
  <1>4. state' # "Completed"
    OBVIOUS
  <1>. QED  BY <1>1, <1>2, <1>3, <1>4 DEF CompletedIsDrained

\* A status report only moves the count of completed commands, within what
\* was dispatched, and completes a job only when it is drained.
LEMMA UpdateKeeps ==
    ASSUME RunnerInv, NEW status \in ControllerSessionStatus, UpdateControllerStatus(status)
    PROVE  RunnerInv'
  <1>. USE DEF RunnerInv
  <1>1. status \in ControllerSessionStatus /\ status.queue_fill \in Nat
    BY DEF ControllerSessionStatus
  <1>2. /\ total_completed' = CompletedBy(status)
        /\ last_controller_status' = status
        /\ outbox = <<>> /\ outbox' = outbox
        /\ UNCHANGED <<job_queue, total_enqueued, total_dispatched>>
    BY DEF UpdateControllerStatus
  <1>3. total_completed' \in Nat /\ total_completed' <= total_dispatched
    <2>. DEFINE d == total_dispatched - status.queue_fill
    <2>1. d \in Int /\ d <= total_dispatched /\ total_dispatched \in Nat
      BY <1>1
    <2>2. total_completed' = Max({0, d})
      BY <1>2 DEF CompletedBy
    <2>. HIDE DEF d
    <2>3. Max({0, d}) \in {0, d} /\ Max({0, d}) >= 0
      BY <2>1, MaxWithZero
    <2>. QED  BY <2>1, <2>2, <2>3
  <1>4. state' = "Completed" => job_queue = <<>> /\ total_dispatched = total_enqueued
    <2>1. state' = "Completed" => Drained(status) \/ Flagged(status) = "Completed"
      BY DEF UpdateControllerStatus
    <2>2. Flagged(status) = "Completed" => state = "Completed"
      BY DEF Flagged
    <2>. QED  BY <2>1, <2>2 DEF Drained, CompletedIsDrained
  <1>5. last_dispatched_tick' \in Nat \cup {None}
    BY DEF UpdateControllerStatus
  <1>. QED  BY <1>1, <1>2, <1>3, <1>4, <1>5 DEF Conserved, CompletedIsDrained

\* What the runner believes of the controller is a controller status.
LEMMA BelievedType ==
    ASSUME RunnerInv
    PROVE  /\ Believed \in ControllerSessionStatus
           /\ Believed.queue_fill \in Nat /\ Believed.queue_capacity \in Nat
           /\ Believed.earliest_accepted_tick \in Nat /\ Believed.latest_accepted_tick \in Nat
  <1>1. Believed \in ControllerSessionStatus
    BY RunnerAssumption DEF RunnerInv, Believed, ControllerSessionStatus
  <1>. QED  BY <1>1 DEF ControllerSessionStatus

\* A scheduled tick lies in the controller's window, provided that it has
\* one, and a margin behind the last; a command that asks for no tick gets
\* the earliest that does.
LEMMA ScheduledTickBounds ==
    ASSUME RunnerInv, NEW requested \in Nat \cup {None}, NEW last \in Nat \cup {None}
    PROVE  LET t == ScheduledTick(requested, last)
               earliest == Believed.earliest_accepted_tick
               latest == Believed.latest_accepted_tick
           IN  /\ t \in Nat
               /\ latest = 0 \/ earliest <= latest => t >= earliest
               /\ requested = None =>
                     /\ t >= earliest
                     /\ last # None => t >= last + schedule_lead_margin_us
                     /\ t = earliest \/ (last # None /\ t = last + schedule_lead_margin_us)
  <1>. DEFINE e == Believed.earliest_accepted_tick
              l == Believed.latest_accepted_tick
              b == IF requested = None THEN e ELSE requested
              c == IF last = None THEN e ELSE last + schedule_lead_margin_us
              S == {Believed.earliest_accepted_tick}
                       \cup ({requested} \ {None})
                       \cup (IF last = None THEN {} ELSE {last + schedule_lead_margin_us})
  <1>1. e \in Nat /\ l \in Nat
    BY BelievedType
  <1>2. b \in Nat /\ c \in Nat
    BY <1>1, RunnerAssumption
  <1>3. S = {e, b, c}
    OBVIOUS
  <1>4. /\ requested = None => b = e
        /\ last # None => c = last + schedule_lead_margin_us
        /\ last = None => c = e
    OBVIOUS
  <1>5. ScheduledTick(requested, last)
          = IF requested # None /\ l > 0 /\ Max(S) > l THEN l ELSE Max(S)
    BY DEF ScheduledTick
  <1>. HIDE DEF e, l, b, c, S
  <1>6. Max(S) \in {e, b, c} /\ Max(S) >= e /\ Max(S) >= b /\ Max(S) >= c
    <2>1. e \in Int /\ b \in Int /\ c \in Int
      BY <1>1, <1>2
    <2>. QED  BY <1>3, <2>1, MaxOfThree
  <1>. DEFINE m == Max(S)
  <1>7. m \in Nat /\ m >= e /\ m >= c /\ m \in {e, b, c}
    BY <1>1, <1>2, <1>6
  <1>. HIDE DEF m
  <1>8. ScheduledTick(requested, last) = IF requested # None /\ l > 0 /\ m > l THEN l ELSE m
    BY <1>5 DEF m
  <1>. DEFINE t == ScheduledTick(requested, last)
  <1>9. /\ t \in Nat
        /\ l = 0 \/ e <= l => t >= e
        /\ requested = None => t = m
    BY <1>1, <1>7, <1>8
  <1>10. requested = None =>
            /\ t >= e
            /\ last # None => t >= last + schedule_lead_margin_us
            /\ t = e \/ (last # None /\ t = last + schedule_lead_margin_us)
    <2>. HIDE DEF t
    <2>. QED  BY <1>4, <1>7, <1>9
  <1>. QED  BY <1>9, <1>10 DEF e, l

\* Every queued command asks for a tick or for none.
LEMMA AskedTick ==
    ASSUME RunnerInv, NEW i \in 1 .. Len(job_queue)
    PROVE  job_queue[i] \in CommandEnvelope /\ job_queue[i].execute_at \in Nat \cup {None}
  <1>1. job_queue[i] \in CommandEnvelope
    BY DEF RunnerInv
  <1>. QED  BY <1>1 DEF CommandEnvelope

\* The recursion that schedules a batch: every command builds on the tick of
\* the one before it.
LEMMA TickOfRecursion ==
    ASSUME RunnerInv
    PROVE  /\ TickOf[0] = last_dispatched_tick
           /\ \A i \in 1 .. Len(job_queue) :
                 TickOf[i] = ScheduledTick(job_queue[i].execute_at, TickOf[i - 1])
           /\ \A i \in 0 .. Len(job_queue) : TickOf[i] \in Nat \cup {None}
  <1>. DEFINE T == Nat \cup {None}
              n == Len(job_queue)
              F == [i \in 1 .. n |-> [last \in T |-> ScheduledTick(job_queue[i].execute_at, last)]]
  <1>1. n \in Nat /\ \A i \in 1 .. n : job_queue[i].execute_at \in T
    <2>1. \A i \in 1 .. n : job_queue[i] \in CommandEnvelope
      BY DEF RunnerInv
    <2>. QED  BY <2>1 DEF CommandEnvelope, RunnerInv
  <1>2. F \in [1 .. n -> [T -> T]]
    <2>1. ASSUME NEW i \in 1 .. n, NEW last \in T
          PROVE  ScheduledTick(job_queue[i].execute_at, last) \in T
      <3>1. job_queue[i].execute_at \in Nat \cup {None} /\ last \in Nat \cup {None}
        BY <1>1
      <3>. QED  BY <3>1, ScheduledTickBounds
    <2>. QED  BY <2>1
  <1>3. PICK f \in [0 .. n -> T] :
           \A i \in 0 .. n : f[i] = IF i = 0 THEN last_dispatched_tick ELSE F[i][f[i - 1]]
    <2>. HIDE DEF F, n, T
    <2>1. last_dispatched_tick \in T
      BY DEF T, RunnerInv
    <2>2. n \in Nat
      BY <1>1
    <2>3. HasRecursion(T, n, last_dispatched_tick, F)
      BY <1>2, <2>1, <2>2, RecursionExists
    <2>. QED  BY <2>3 DEF HasRecursion
  <1>. DEFINE Step(g) ==
         [i \in 0 .. Len(job_queue) |->
             IF i = 0 THEN last_dispatched_tick
             ELSE ScheduledTick(job_queue[i].execute_at, g[i - 1])]
  <1>4. f = Step(f)
    <2>1. ASSUME NEW i \in 0 .. n
          PROVE  f[i] = IF i = 0 THEN last_dispatched_tick
                        ELSE ScheduledTick(job_queue[i].execute_at, f[i - 1])
      <3>1. CASE i = 0
        BY <1>3, <3>1
      <3>2. CASE i # 0
        <4>1. i \in 1 .. n /\ i - 1 \in 0 .. n
          BY <1>1, <3>2
        <4>2. f[i - 1] \in T
          BY <4>1
        <4>3. F[i][f[i - 1]] = ScheduledTick(job_queue[i].execute_at, f[i - 1])
          BY <4>1, <4>2
        <4>. QED  BY <1>3, <3>2, <4>3
      <3>. QED  BY <3>1, <3>2
    <2>. QED  BY <2>1
  <1>5. TickOf = Step(TickOf)
    <2>1. TickOf = CHOOSE g : g = Step(g)
      BY DEF TickOf
    <2>. HIDE DEF Step
    <2>. QED  BY <1>4, <2>1
  <1>6. ASSUME NEW i \in 0 .. n
        PROVE  TickOf[i] = IF i = 0 THEN last_dispatched_tick
                           ELSE ScheduledTick(job_queue[i].execute_at, TickOf[i - 1])
    BY <1>5
  <1>7. ASSUME NEW i \in 1 .. n
        PROVE  TickOf[i] = ScheduledTick(job_queue[i].execute_at, TickOf[i - 1])
    <2>1. i \in 0 .. n /\ i # 0
      BY <1>1
    <2>. QED  BY <1>6, <2>1
  <1>8. \A i \in 0 .. n : TickOf[i] \in T
    <2>. DEFINE P == { m \in Nat : m <= n => TickOf[m] \in T }
    <2>1. 0 \in P
      <3>1. TickOf[0] = last_dispatched_tick
        BY <1>1, <1>6
      <3>. QED  BY <3>1 DEF RunnerInv
    <2>2. ASSUME NEW m \in Nat, m \in P  PROVE m + 1 \in P
      <3>1. SUFFICES ASSUME m + 1 <= n  PROVE TickOf[m + 1] \in T
        OBVIOUS
      <3>2. m + 1 \in 1 .. n /\ (m + 1) - 1 = m /\ TickOf[m] \in Nat \cup {None}
        BY <1>1, <2>2, <3>1
      <3>3. job_queue[m + 1].execute_at \in Nat \cup {None}
        BY <1>1, <3>2
      <3>4. ScheduledTick(job_queue[m + 1].execute_at, TickOf[m]) \in Nat
        BY <3>2, <3>3, ScheduledTickBounds
      <3>. QED  BY <1>7, <3>2, <3>4
    <2>3. Nat \subseteq P
      <3>. HIDE DEF P
      <3>. QED  BY <2>1, <2>2, NatSet
    <2>. QED  BY <1>1, <2>3
  <1>9. TickOf[0] = last_dispatched_tick
    BY <1>1, <1>6
  <1>. QED  BY <1>7, <1>8, <1>9

\* The job asks for no ticks: the runner schedules every command.
Untimed == \A i \in 1 .. Len(job_queue) : job_queue[i].execute_at = None

\* The command gets the earliest tick that keeps the margin to the one before.
LEMMA UntimedTick ==
    ASSUME RunnerInv, Untimed, NEW i \in 1 .. Len(job_queue)
    PROVE  LET earliest == Believed.earliest_accepted_tick
               last == TickOf[i - 1]
           IN  /\ TickOf[i] \in Nat /\ last \in Nat \cup {None}
               /\ TickOf[i] >= earliest
               /\ last # None => TickOf[i] >= last + schedule_lead_margin_us
               /\ \/ TickOf[i] = earliest
                  \/ last # None /\ TickOf[i] = last + schedule_lead_margin_us
  <1>1. i - 1 \in 0 .. Len(job_queue)
    BY DEF RunnerInv
  <1>2. /\ TickOf[i] = ScheduledTick(job_queue[i].execute_at, TickOf[i - 1])
        /\ TickOf[i - 1] \in Nat \cup {None}
    BY <1>1, TickOfRecursion
  <1>3. job_queue[i].execute_at = None
    BY DEF Untimed
  <1>. QED  BY <1>2, <1>3, ScheduledTickBounds

\* Ticks of a batch are a margin apart, and from what was dispatched before.
LEMMA UntimedSpaced ==
    ASSUME RunnerInv, Untimed, NEW i \in 0 .. Len(job_queue), NEW j \in 0 .. Len(job_queue),
           i < j, TickOf[i] # None
    PROVE  TickOf[j] >= TickOf[i] + schedule_lead_margin_us
  <1>. DEFINE margin == schedule_lead_margin_us
              t == TickOf[i]
              P == { m \in Nat : i < m /\ m <= Len(job_queue) =>
                                    TickOf[m] \in Nat /\ TickOf[m] >= t + margin }
  <1>1. Len(job_queue) \in Nat /\ margin \in Nat /\ t \in Nat
    BY TickOfRecursion, RunnerAssumption DEF RunnerInv
  <1>2. 0 \in P
    OBVIOUS
  <1>3. ASSUME NEW m \in Nat, m \in P  PROVE m + 1 \in P
    <2>1. SUFFICES ASSUME i < m + 1, m + 1 <= Len(job_queue)
                   PROVE  TickOf[m + 1] \in Nat /\ TickOf[m + 1] >= t + margin
      OBVIOUS
    <2>2. m + 1 \in 1 .. Len(job_queue) /\ (m + 1) - 1 = m
      BY <1>1, <2>1
    <2>3. TickOf[m + 1] \in Nat /\ (TickOf[m] # None => TickOf[m + 1] >= TickOf[m] + margin)
      BY <2>2, UntimedTick
    <2>4. CASE i = m
      BY <2>3, <2>4
    <2>5. CASE i < m
      <3>1. TickOf[m] \in Nat /\ TickOf[m] >= t + margin
        BY <1>1, <1>3, <2>1, <2>5
      <3>2. TickOf[m] # None
        BY <3>1, RunnerAssumption
      <3>. HIDE DEF t, margin
      <3>3. TickOf[m + 1] >= TickOf[m] + margin
        BY <2>3, <3>2
      <3>. QED  BY <1>1, <2>3, <3>1, <3>3
    <2>. QED  BY <2>1, <2>4, <2>5
  <1>4. Nat \subseteq P
    <2>. HIDE DEF P
    <2>. QED  BY <1>2, <1>3, NatSet
  <1>. QED  BY <1>1, <1>4

\* Ticks are multiples of whatever divides the window's start and the margin.
LEMMA UntimedOnGrid ==
    ASSUME RunnerInv, Untimed, NEW s \in Nat \ {0},
           schedule_lead_margin_us % s = 0, Believed.earliest_accepted_tick % s = 0,
           last_dispatched_tick # None => last_dispatched_tick % s = 0,
           NEW j \in 1 .. Len(job_queue)
    PROVE  TickOf[j] % s = 0
  <1>. DEFINE P == { m \in Nat : m <= Len(job_queue) /\ TickOf[m] # None => TickOf[m] % s = 0 }
  <1>0. Len(job_queue) \in Nat
    BY DEF RunnerInv
  <1>1. 0 \in P
    BY TickOfRecursion
  <1>2. ASSUME NEW m \in Nat, m \in P  PROVE m + 1 \in P
    <2>1. SUFFICES ASSUME m + 1 <= Len(job_queue)  PROVE TickOf[m + 1] % s = 0
      OBVIOUS
    <2>2. m + 1 \in 1 .. Len(job_queue) /\ (m + 1) - 1 = m
      BY <1>0, <2>1
    <2>3. /\ TickOf[m] \in Nat \cup {None}
          /\ \/ TickOf[m + 1] = Believed.earliest_accepted_tick
             \/ TickOf[m] # None /\ TickOf[m + 1] = TickOf[m] + schedule_lead_margin_us
      BY <2>2, UntimedTick
    <2>4. CASE TickOf[m + 1] = Believed.earliest_accepted_tick
      BY <2>4
    <2>5. CASE TickOf[m] # None /\ TickOf[m + 1] = TickOf[m] + schedule_lead_margin_us
      <3>1. TickOf[m] \in Nat /\ TickOf[m] % s = 0
        BY <1>0, <1>2, <2>1, <2>3, <2>5
      <3>. QED  BY <2>5, <3>1, RunnerAssumption, GridSum
    <2>. QED  BY <2>3, <2>4, <2>5
  <1>3. Nat \subseteq P
    <2>. HIDE DEF P
    <2>. QED  BY <1>1, <1>2, NatSet
  <1>4. j \in Nat /\ j <= Len(job_queue) /\ TickOf[j] # None
    BY <1>0, UntimedTick, RunnerAssumption
  <1>. QED  BY <1>3, <1>4

\* The horizon is a number of commands, and beyond neither the configured
\* one nor the controller's capacity.
LEMMA HorizonType ==
    ASSUME RunnerInv
    PROVE  Horizon \in Nat /\ Horizon <= target_horizon /\ Horizon <= Believed.queue_capacity
  <1>. DEFINE capacity == Believed.queue_capacity
  <1>1. capacity \in Nat /\ target_horizon \in Nat
    BY BelievedType, RunnerAssumption
  <1>2. Horizon = Min({target_horizon, capacity})
    BY DEF Horizon
  <1>. HIDE DEF capacity
  <1>3. /\ Horizon \in {target_horizon, capacity}
        /\ Horizon <= target_horizon /\ Horizon <= capacity
    <2>1. target_horizon \in Int /\ capacity \in Int
      BY <1>1
    <2>. QED  BY <1>2, <2>1, MinOfTwo
  <1>. QED  BY <1>1, <1>3 DEF capacity

\* A batch takes its commands from the front of the job, with their ticks,
\* and fits into what is left of the horizon.
LEMMA BatchShape ==
    ASSUME RunnerInv, DispatchBatch
    PROVE  /\ BatchSize \in 1 .. Len(job_queue)
           /\ BatchSize <= max_batch_size
           /\ Believed.queue_fill + BatchSize <= Horizon
           /\ job_queue' \in Seq(CommandEnvelope)
           /\ Len(job_queue') = Len(job_queue) - BatchSize
           /\ last_dispatched_tick' = TickOf[BatchSize]
           /\ last_dispatched_tick' \in Nat
           /\ outbox' \in Seq(CommandEnvelope) /\ Len(outbox') = BatchSize
           /\ \A i \in 1 .. BatchSize :
                 /\ outbox'[i].command = job_queue[i].command
                 /\ outbox'[i].execute_at = TickOf[i]
                 /\ TickOf[i] \in Nat
  <1>. DEFINE n == BatchSize
              room == Horizon - Believed.queue_fill
              queued == Len(job_queue)
  <1>1. /\ room \in Int /\ max_batch_size \in Int /\ queued \in Nat
        /\ Horizon \in Nat /\ Believed.queue_fill \in Nat
    BY HorizonType, BelievedType, RunnerAssumption DEF RunnerInv
  <1>2. n = Min({room, max_batch_size, queued}) /\ n > 0
    BY DEF BatchSize, DispatchBatch
  <1>3. n \in Int /\ n <= room /\ n <= max_batch_size /\ n <= queued
    <2>. HIDE DEF n, room, queued
    <2>1. queued \in Int
      BY <1>1
    <2>. QED  BY <1>1, <1>2, <2>1, MinOfThree
  <1>4. /\ n \in 1 .. Len(job_queue) /\ n <= max_batch_size
        /\ Believed.queue_fill + n <= Horizon
    <2>1. queued = Len(job_queue) /\ room = Horizon - Believed.queue_fill
      OBVIOUS
    <2>. HIDE DEF n, room, queued
    <2>. QED  BY <1>1, <1>2, <1>3, <2>1
  <1>5. /\ job_queue' = SubSeq(job_queue, n + 1, Len(job_queue))
        /\ outbox' = Batch(n)
        /\ last_dispatched_tick' = TickOf[n]
    BY DEF DispatchBatch
  <1>. HIDE DEF n
  <1>6. job_queue \in Seq(CommandEnvelope) /\ Len(job_queue) \in Nat
    BY DEF RunnerInv
  <1>7. job_queue' \in Seq(CommandEnvelope) /\ Len(job_queue') = Len(job_queue) - n
    BY <1>4, <1>5, <1>6
  <1>8. ASSUME NEW i \in 1 .. n  PROVE TickOf[i] \in Nat
    <2>1. i \in 1 .. Len(job_queue) /\ i - 1 \in 0 .. Len(job_queue)
      BY <1>4, <1>6
    <2>2. /\ TickOf[i] = ScheduledTick(job_queue[i].execute_at, TickOf[i - 1])
          /\ TickOf[i - 1] \in Nat \cup {None}
      BY <2>1, TickOfRecursion
    <2>3. job_queue[i].execute_at \in Nat \cup {None}
      BY <2>1, AskedTick
    <2>. QED  BY <2>2, <2>3, ScheduledTickBounds
  <1>9. ASSUME NEW i \in 1 .. n
        PROVE  LET e == [job_queue[i] EXCEPT !.execute_at = TickOf[i]]
               IN  /\ e \in CommandEnvelope /\ e.execute_at = TickOf[i]
                   /\ e.command = job_queue[i].command
    <2>1. job_queue[i] \in CommandEnvelope /\ TickOf[i] \in Nat
      BY <1>4, <1>6, <1>8
    <2>. QED  BY <2>1 DEF CommandEnvelope
  <1>10. outbox' = [i \in 1 .. n |-> [job_queue[i] EXCEPT !.execute_at = TickOf[i]]] /\ n \in Nat
    BY <1>4, <1>5 DEF Batch
  <1>11. outbox' \in Seq(CommandEnvelope) /\ Len(outbox') = n
    BY <1>9, <1>10
  <1>12. ASSUME NEW i \in 1 .. n
         PROVE  /\ outbox'[i].command = job_queue[i].command
                /\ outbox'[i].execute_at = TickOf[i]
                /\ TickOf[i] \in Nat
    BY <1>8, <1>9, <1>10
  <1>13. last_dispatched_tick' \in Nat
    BY <1>4, <1>5, <1>8
  <1>. QED  BY <1>4, <1>5, <1>7, <1>11, <1>12, <1>13 DEF n

\* A batch moves its commands from the queue to the dispatched ones.
LEMMA DispatchKeeps ==
    ASSUME RunnerInv, NextDispatchBatch
    PROVE  RunnerInv'
  <1>1. CASE DispatchNothing
    BY <1>1 DEF RunnerInv, DispatchNothing, counters, Conserved, CompletedIsDrained
  <1>2. CASE DispatchThrottled
    BY <1>2 DEF RunnerInv, DispatchThrottled, counters, Conserved, CompletedIsDrained
  <1>3. CASE DispatchBatch
    <2>. DEFINE n == BatchSize
    <2>1. /\ n \in 1 .. Len(job_queue) /\ Len(job_queue) \in Nat
          /\ job_queue' \in Seq(CommandEnvelope) /\ Len(job_queue') = Len(job_queue) - n
          /\ last_dispatched_tick' \in Nat
      BY <1>3, BatchShape DEF RunnerInv
    <2>2. /\ total_dispatched' = total_dispatched + n
          /\ UNCHANGED <<last_controller_status, total_enqueued, total_completed>>
      BY <1>3 DEF DispatchBatch
    <2>3. state' # "Completed"
      <3>1. state # "Completed"
        BY <1>3 DEF DispatchBatch, RunnerInv, CompletedIsDrained
      <3>. QED  BY <1>3, <3>1 DEF DispatchBatch
    <2>. HIDE DEF n
    <2>4. /\ total_enqueued \in Nat /\ total_dispatched \in Nat /\ total_completed \in Nat
          /\ total_enqueued = total_dispatched + Len(job_queue)
          /\ total_completed <= total_dispatched
      BY DEF RunnerInv, Conserved
    <2>5. /\ total_enqueued' = total_dispatched' + Len(job_queue')
          /\ total_completed' <= total_dispatched'
          /\ total_dispatched' \in Nat
      BY <2>1, <2>2, <2>4
    <2>6. CompletedIsDrained' /\ Conserved'
      BY <2>3, <2>5 DEF CompletedIsDrained, Conserved
    <2>7. last_controller_status' \in ControllerSessionStatus \cup {None}
      BY <2>2 DEF RunnerInv
    <2>. QED  BY <2>1, <2>2, <2>4, <2>5, <2>6, <2>7 DEF RunnerInv
  <1>. QED  BY <1>1, <1>2, <1>3 DEF NextDispatchBatch

\* Every step keeps the invariant.
LEMMA RunnerInvStep == RunnerInv /\ [Next]_runnerVars => RunnerInv'
  <1>. SUFFICES ASSUME RunnerInv, [Next]_runnerVars PROVE RunnerInv'
    OBVIOUS
  <1>1. ASSUME NEW n \in 1 .. MaxBatch, NEW envelopes \in [1 .. n -> Envelopes],
               EnqueueBatch(envelopes)
        PROVE  RunnerInv'
    BY <1>1, EnqueueKeeps
  <1>2. ASSUME NEW status \in Statuses, UpdateControllerStatus(status)
        PROVE  RunnerInv'
    BY <1>2, UpdateKeeps, RunnerAssumption
  <1>3. CASE NextDispatchBatch
    BY <1>3, DispatchKeeps
  <1>4. CASE SendNext \/ SendFails
    BY <1>4 DEF SendNext, SendFails, counters, RunnerInv, Conserved, CompletedIsDrained
  <1>5. CASE UNCHANGED runnerVars
    BY <1>5 DEF runnerVars, counters, RunnerInv, Conserved, CompletedIsDrained
  <1>. QED  BY <1>1, <1>2, <1>3, <1>4, <1>5 DEF Next

\* The invariant holds throughout.
LEMMA RunnerInvariant == Spec => []RunnerInv
  BY RunnerInvInit, RunnerInvStep, PTL DEF Spec

\* No command is lost or counted twice on its way through the runner, and
\* the reported completions never outrun the dispatches.
THEOREM CommandsConserved == Spec => []Conserved
  <1>1. RunnerInv => Conserved
    BY DEF RunnerInv
  <1>. QED  BY <1>1, RunnerInvariant, PTL

\* A Completed runner has handed over everything it was given.
THEOREM CompletionDrained == Spec => []CompletedIsDrained
  <1>1. RunnerInv => CompletedIsDrained
    BY DEF RunnerInv
  <1>. QED  BY <1>1, RunnerInvariant, PTL

\* A runner that has seen a dead heartbeat is Faulted and stays so; it
\* dispatches nothing more, whatever is reported or enqueued afterwards.
THEOREM FaultFinal == Spec => FaultedIsFinal
  <1>. DEFINE Final ==
         /\ state = "Faulted" => state' = "Faulted" /\ total_dispatched' = total_dispatched
         /\ last_controller_status' # None /\ ~last_controller_status'.heartbeat_ok
               => state' = "Faulted"
       DeadIsFaulted ==
         last_controller_status # None /\ ~last_controller_status.heartbeat_ok
               => state = "Faulted"
  <1>1. Init => DeadIsFaulted
    BY DEF Init
  <1>2. DeadIsFaulted /\ [Next]_runnerVars => Final
    <2>. SUFFICES ASSUME DeadIsFaulted, [Next]_runnerVars PROVE Final
      OBVIOUS
    <2>1. ASSUME NEW n \in 1 .. MaxBatch, NEW envelopes \in [1 .. n -> Envelopes],
                 EnqueueBatch(envelopes)
          PROVE  Final
      BY <2>1 DEF EnqueueBatch
    <2>2. ASSUME NEW status \in Statuses, UpdateControllerStatus(status)
          PROVE  Final
      <3>1. state = "Faulted" \/ ~status.heartbeat_ok => Flagged(status) = "Faulted"
        BY DEF Flagged
      <3>2. Flagged(status) = "Faulted" => state' = "Faulted"
        BY <2>2 DEF UpdateControllerStatus
      <3>3. last_controller_status' = status /\ total_dispatched' = total_dispatched
        BY <2>2 DEF UpdateControllerStatus
      <3>. QED  BY <3>1, <3>2, <3>3
    <2>3. CASE NextDispatchBatch
      BY <2>3 DEF NextDispatchBatch, DispatchNothing, DispatchThrottled, DispatchBatch, counters
    <2>4. CASE SendNext \/ SendFails \/ UNCHANGED runnerVars
      BY <2>4 DEF SendNext, SendFails, runnerVars, counters
    <2>. QED  BY <2>1, <2>2, <2>3, <2>4 DEF Next
  <1>3. Final => DeadIsFaulted'
    OBVIOUS
  <1>4. Final => [Final]_runnerVars
    OBVIOUS
  <1>5. Spec => []DeadIsFaulted
    BY <1>1, <1>2, <1>3, PTL DEF Spec
  <1>. QED  BY <1>2, <1>4, <1>5, PTL DEF Spec, FaultedIsFinal

\* A controller that reports a window reports one that is not empty.
Windowed ==
    \A status \in Statuses : \/ status.latest_accepted_tick = 0
                             \/ status.earliest_accepted_tick <= status.latest_accepted_tick

\* Every batch fits into what the last report leaves of the horizon and of
\* the controller's queue, is taken from the front of the job in order, and
\* schedules nothing before the earliest tick the report accepts.
THEOREM BatchTheorem == ASSUME Windowed  PROVE Spec => BatchFits
  <1>. DEFINE Fits ==
         outbox = <<>> /\ outbox' # <<>> =>
            /\ Len(outbox') <= max_batch_size
            /\ Believed.queue_fill + Len(outbox') <= Horizon
            /\ \A i \in DOMAIN outbox' :
                  /\ outbox'[i].command = job_queue[i].command
                  /\ outbox'[i].execute_at >= Believed.earliest_accepted_tick
       Reported == last_controller_status \in Statuses \cup {None}
  <1>1. Init => Reported
    BY DEF Init
  <1>2. Reported /\ [Next]_runnerVars => Reported'
    <2>. SUFFICES ASSUME Reported, [Next]_runnerVars  PROVE Reported'
      OBVIOUS
    <2>1. ASSUME NEW n \in 1 .. MaxBatch, NEW envelopes \in [1 .. n -> Envelopes],
                 EnqueueBatch(envelopes)
          PROVE  Reported'
      BY <2>1 DEF EnqueueBatch
    <2>2. ASSUME NEW status \in Statuses, UpdateControllerStatus(status)
          PROVE  Reported'
      BY <2>2 DEF UpdateControllerStatus
    <2>3. CASE NextDispatchBatch \/ SendNext \/ SendFails \/ UNCHANGED runnerVars
      BY <2>3 DEF NextDispatchBatch, DispatchNothing, DispatchThrottled, DispatchBatch,
                  SendNext, SendFails, runnerVars, counters
    <2>. QED  BY <2>1, <2>2, <2>3 DEF Next
  <1>3. RunnerInv /\ Reported /\ [Next]_runnerVars => Fits
    <2>. SUFFICES ASSUME RunnerInv, Reported, [Next]_runnerVars, outbox = <<>>, outbox' # <<>>
                  PROVE  Fits
      OBVIOUS
    <2>1. DispatchBatch
      BY DEF Next, EnqueueBatch, UpdateControllerStatus, NextDispatchBatch, DispatchNothing,
             DispatchThrottled, SendNext, SendFails, runnerVars
    <2>. DEFINE n == BatchSize
                earliest == Believed.earliest_accepted_tick
                latest == Believed.latest_accepted_tick
    <2>2. /\ n \in 1 .. Len(job_queue) /\ n <= max_batch_size
          /\ Believed.queue_fill + n <= Horizon
          /\ outbox' \in Seq(CommandEnvelope) /\ Len(outbox') = n
          /\ \A i \in 1 .. n : /\ outbox'[i].command = job_queue[i].command
                                /\ outbox'[i].execute_at = TickOf[i]
      BY <2>1, BatchShape
    <2>. HIDE DEF n
    <2>3. earliest \in Nat /\ latest \in Nat /\ (latest = 0 \/ earliest <= latest)
      <3>1. CASE last_controller_status = None
        BY <3>1 DEF Believed
      <3>2. CASE last_controller_status # None
        <4>1. last_controller_status \in Statuses /\ Believed = last_controller_status
          BY <3>2 DEF Believed
        <4>. QED  BY <4>1, BelievedType DEF Windowed
      <3>. QED  BY <3>1, <3>2
    <2>4. ASSUME NEW i \in 1 .. n  PROVE TickOf[i] >= earliest
      <3>1. i \in 1 .. Len(job_queue) /\ i - 1 \in 0 .. Len(job_queue)
        BY <2>2 DEF RunnerInv
      <3>2. /\ TickOf[i] = ScheduledTick(job_queue[i].execute_at, TickOf[i - 1])
            /\ TickOf[i - 1] \in Nat \cup {None}
        BY <3>1, TickOfRecursion
      <3>3. job_queue[i].execute_at \in Nat \cup {None}
        BY <3>1, AskedTick
      <3>. HIDE DEF earliest, latest
      <3>4. ScheduledTick(job_queue[i].execute_at, TickOf[i - 1]) >= earliest
        BY <2>3, <3>2, <3>3, ScheduledTickBounds DEF earliest, latest
      <3>. QED  BY <3>2, <3>4
    <2>5. DOMAIN outbox' = 1 .. n
      BY <2>2
    <2>. QED  BY <2>2, <2>4, <2>5
  <1>4. Fits => [Fits]_runnerVars
    OBVIOUS
  <1>5. Spec => []Reported
    BY <1>1, <1>2, PTL DEF Spec
  <1>. QED  BY <1>3, <1>4, <1>5, RunnerInvariant, PTL DEF Spec, BatchFits
=============================================================================
