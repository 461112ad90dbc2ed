--------------------------- MODULE SimController ---------------------------
(***************************************************************************)
(* The simulated motion controller of crates/simulator/src/lib.rs: a       *)
(* bounded, timestamp-ordered command queue, heaters and axes driven in a  *)
(* fixed integration step, a heartbeat envelope that forces heaters off,   *)
(* and a fault that a reset latches.                                       *)
(*                                                                         *)
(* One iteration of SimController::run is Tick, then one Deliver for each  *)
(* command the transport hands over, then Finish.  The controller has one  *)
(* thread, so between Tick and Finish (stepping = TRUE) no other entry     *)
(* point runs.                                                             *)
(***************************************************************************)
EXTENDS Integers, Sequences, FiniteSets, SequencesExt

CONSTANTS
    Heaters, Axes,       \* names of the configured heaters and axes
    TimedHeaters,        \* heaters whose heartbeat_timeout is Some(_)
    HeartbeatTimeout,    \* [TimedHeaters -> ticks]
    AmbientMilliC,       \* ambient temperature
    GainMilliC,          \* [Heaters -> rise above ambient at full duty]
    Temperatures,        \* temperatures the plants may take
    StartPosition,       \* [Axes -> start_position_um]
    STEP_TICKS,          \* the integration step and execution quantum
    MsPerS,              \* divisor turning um/s into um per step (1000)
    I64Limit,            \* 2^63: first u64 that "as i64" turns negative
    QueueCapacity,       \* queue_capacity (16)
    Windows,             \* queue windows the host may configure
    DefaultWindow,       \* QueueWindow::default()
    SampleEvery,         \* temp_sample_every
    Commands,            \* commands the host may send
    ExecuteTimes,        \* timestamps the host may ask for
    MaxTime,             \* bound on the virtual clock
    None                 \* Option::None

\* The variants of Command (control-protocol).
Command ==
    [type : {"heartbeat"}]
      \cup [type : {"set_heater_target"}, heater : STRING, target_milli_c : Int]
      \cup [type : {"home"}, axis : STRING, rate_um_s : Nat]
      \cup [type : {"move"}, axis : STRING, distance_um : Int, rate_um_s : Nat]

\* A window that QueueWindow::new accepts.
QueueWindow == { w \in [min_lead_ticks : Nat, max_horizon_ticks : Nat] :
                   w.min_lead_ticks <= w.max_horizon_ticks }

ASSUME ConfigAssumption ==
    /\ Heaters \subseteq STRING /\ Axes \subseteq STRING
    /\ TimedHeaters \subseteq Heaters
    /\ HeartbeatTimeout \in [TimedHeaters -> Nat]
    /\ AmbientMilliC \in Int /\ GainMilliC \in [Heaters -> Int]
    /\ Temperatures \subseteq Int /\ AmbientMilliC \in Temperatures
    /\ StartPosition \in [Axes -> Int]

ASSUME QueueAssumption ==
    /\ STEP_TICKS \in Nat \ {0} /\ MsPerS \in Nat \ {0} /\ I64Limit \in Nat
    /\ QueueCapacity \in Nat /\ SampleEvery \in Nat /\ MaxTime \in Nat
    /\ DefaultWindow \in QueueWindow

ASSUME InputAssumption ==
    /\ \A w \in Windows : w \in QueueWindow
    /\ \A c \in Commands : c \in Command
    /\ ExecuteTimes \subseteq Nat /\ None \notin Nat

VARIABLES
    now,                \* virtual clock
    stepping,           \* inside an iteration of run
    heater,             \* HeaterState of each heater
    axis,               \* AxisState of each axis
    queue,              \* QueuedCommand sequence, front first
    queue_window,
    last_heartbeat,
    latched_fault,      \* latched_fault.is_some()
    next_temp_sample

plants == <<heater, axis>>
vars == <<now, stepping, heater, axis, queue, queue_window, last_heartbeat,
          latched_fault, next_temp_sample>>

HeaterState == [milli_c : Int, target_milli_c : Int,
                duty_on : BOOLEAN, forced_safe : BOOLEAN]
Motion == [per_ms_um : Int, remaining_um : Int, homing : BOOLEAN]
\* Some(m) is <<m>> and None the empty sequence.
Option(S) == { s \in Seq(S) : Len(s) <= 1 }
AxisState == [position_um : Int, motion : Option(Motion)]
QueuedCommand == [execute_at : Nat, command : Command]

Init ==
    /\ now = 0 /\ stepping = FALSE
    /\ heater = [h \in Heaters |-> [milli_c |-> AmbientMilliC, target_milli_c |-> 0,
                                    duty_on |-> FALSE, forced_safe |-> FALSE]]
    /\ axis = [a \in Axes |-> [position_um |-> StartPosition[a], motion |-> <<>>]]
    /\ queue = <<>> /\ queue_window = DefaultWindow
    /\ last_heartbeat = 0 /\ latched_fault = FALSE
    /\ next_temp_sample = SampleEvery

-----------------------------------------------------------------------------
(***************************************************************************)
(* Acceptance (SimController::accept).                                     *)
(***************************************************************************)

EarliestAccepted == now + queue_window.min_lead_ticks
LatestAccepted == now + queue_window.max_horizon_ticks
\* A mistake to detect: the room left is reported as the fill level.
QueueStatusOfRoom == [capacity |-> QueueCapacity, fill_level |-> QueueCapacity - Len(queue),
                      earliest_accepted_timestamp |-> EarliestAccepted,
                      latest_accepted_timestamp |-> LatestAccepted]
QueueStatus == [capacity |-> QueueCapacity, fill_level |-> Len(queue),
                earliest_accepted_timestamp |-> EarliestAccepted,
                latest_accepted_timestamp |-> LatestAccepted]

IsHeartbeat(command) == command.type = "heartbeat"

\* A mistake to detect: what comes too late is let in.
InLateWindow(execute_at) ==
    /\ execute_at % STEP_TICKS = 0
    /\ execute_at <= LatestAccepted

InWindow(execute_at) ==
    /\ execute_at % STEP_TICKS = 0
    /\ EarliestAccepted <= execute_at
    /\ execute_at <= LatestAccepted

\* Mistakes to detect: the capacity, or the latched fault, is not looked at.
Overfilling(command, execute_at) ==
    /\ ~latched_fault
    /\ ~IsHeartbeat(command)
    /\ execute_at = None \/ InWindow(execute_at)
AdmissibleAfterFault(command, execute_at) ==
    /\ ~IsHeartbeat(command)
    /\ execute_at = None \/ InWindow(execute_at)
    /\ Len(queue) < QueueCapacity

\* The command passes every check of accept and is queued.
Admissible(command, execute_at) ==
    /\ ~latched_fault
    /\ ~IsHeartbeat(command)
    /\ execute_at = None \/ InWindow(execute_at)
    /\ Len(queue) < QueueCapacity

\* A mistake to detect: commands are queued in order of arrival.
EnqueueLast(command, execute_at) ==
    queue' = Append(queue, [execute_at |-> IF execute_at = None THEN now ELSE execute_at,
                            command |-> command])

\* Insert before the first entry that executes strictly later.
Enqueue(command, execute_at) ==
    LET at == IF execute_at = None THEN now ELSE execute_at IN
    \E p \in 1 .. Len(queue) + 1 :
        /\ \A i \in 1 .. p - 1 : queue[i].execute_at <= at
        /\ p <= Len(queue) => queue[p].execute_at > at
        /\ queue' = InsertAt(queue, p, [execute_at |-> at, command |-> command])

\* A mistake to detect: any command counts as a sign of life.
AcceptAsHeartbeat(command, execute_at) ==
    /\ IF Admissible(command, execute_at) THEN Enqueue(command, execute_at)
                                          ELSE UNCHANGED queue
    /\ last_heartbeat' = IF ~latched_fault THEN now ELSE last_heartbeat
    /\ UNCHANGED <<now, stepping, plants, queue_window, latched_fault, next_temp_sample>>

\* A command that fails a check leaves everything as it was.
Accept(command, execute_at) ==
    /\ IF Admissible(command, execute_at) THEN Enqueue(command, execute_at)
                                          ELSE UNCHANGED queue
    /\ last_heartbeat' = IF /\ IsHeartbeat(command) /\ execute_at = None
                            /\ ~latched_fault
                         THEN now ELSE last_heartbeat
    /\ UNCHANGED <<now, stepping, plants, queue_window, latched_fault, next_temp_sample>>

-----------------------------------------------------------------------------
(***************************************************************************)
(* One iteration of run after the deliveries: start what is due, enforce   *)
(* the safety envelope, integrate the plants, sample.                      *)
(***************************************************************************)

\* A mistake to detect: a command due right now has to wait.
IsPastPrefix(n) ==
    /\ \A i \in 1 .. n : queue[i].execute_at < now
    /\ n < Len(queue) => queue[n + 1].execute_at >= now

\* The entries 1..n are the ones start_due pops.
IsDuePrefix(n) ==
    /\ \A i \in 1 .. n : queue[i].execute_at <= now
    /\ n < Len(queue) => queue[n + 1].execute_at > now

\* The last of the popped entries that satisfies Test; each overwrites the
\* effect of the ones before it.
Latest(S) == CHOOSE i \in S : \A j \in S : j <= i

TargetCommands(h, n) == { i \in 1 .. n : /\ queue[i].command.type = "set_heater_target"
                                         /\ queue[i].command.heater = h }
MotionCommands(a, n) == { i \in 1 .. n : /\ queue[i].command.type \in {"home", "move"}
                                         /\ queue[i].command.axis = a }

Commanded(h, n) ==
    LET S == TargetCommands(h, n) IN
    IF S = {} THEN heater[h]
    ELSE [heater[h] EXCEPT !.target_milli_c = queue[Latest(S)].command.target_milli_c,
                           !.forced_safe = FALSE]

\* A mistake to detect: the target survives.
OffKeepingTarget(r, forced) == [r EXCEPT !.duty_on = FALSE, !.forced_safe = forced]

\* The heater off, by the heartbeat envelope (forced) or by a reset.
Off(r, forced) == [milli_c |-> r.milli_c, target_milli_c |-> 0,
                   duty_on |-> FALSE, forced_safe |-> forced]

\* The heartbeat envelope of one heater.
Starved(h, r) ==
    /\ h \in TimedHeaters
    /\ ~r.forced_safe
    /\ r.target_milli_c > 0
    /\ now - last_heartbeat > HeartbeatTimeout[h]

\* A mistake to detect: the envelope looks at the heater before the commands.
EnvelopedFirst(h, r) == IF Starved(h, heater[h]) THEN Off(r, TRUE) ELSE r

Enveloped(h, r) == IF Starved(h, r) THEN Off(r, TRUE) ELSE r

\* The thermal plant: one Euler step moves the temperature towards its
\* asymptote and not beyond it (tau_ms >= 1), by an amount left open.
Wants(r) == ~r.forced_safe /\ r.milli_c < r.target_milli_c

Asymptote(h, r) == AmbientMilliC + IF Wants(r) THEN GainMilliC[h] ELSE 0

Toward(from, to, t) == (from <= t /\ t <= to) \/ (to <= t /\ t <= from)

Integrated(r, t) == [r EXCEPT !.milli_c = t, !.duty_on = Wants(r)]

-----------------------------------------------------------------------------
(* Motion.  Rates are u64 cast to i64, and division truncates towards 0.   *)

Sign(n) == IF n > 0 THEN 1 ELSE IF n < 0 THEN -1 ELSE 0
Magnitude(n) == IF n < 0 THEN -n ELSE n
AsI64(n) == IF n < I64Limit THEN n ELSE n - 2 * I64Limit
PerMs(n) == Sign(n) * (Magnitude(n) \div MsPerS)

NewMotion(c) ==
    IF c.type = "home"
    THEN [per_ms_um |-> -PerMs(AsI64(c.rate_um_s)), remaining_um |-> 0, homing |-> TRUE]
    ELSE [per_ms_um |-> PerMs(Sign(c.distance_um) * AsI64(c.rate_um_s)),
          remaining_um |-> c.distance_um, homing |-> FALSE]

\* A motion command replaces whatever motion the axis was making.
Started(a, n) ==
    LET S == MotionCommands(a, n) IN
    IF S = {} THEN axis[a]
    ELSE [axis[a] EXCEPT !.motion = <<NewMotion(queue[Latest(S)].command)>>]

\* Homing ends on the endstop at position 0.
HomingStep(r) ==
    LET p == r.position_um + r.motion[1].per_ms_um IN
    IF p <= 0 THEN [position_um |-> 0, motion |-> <<>>]
              ELSE [r EXCEPT !.position_um = p]

\* A mistake to detect: the last step of a move is not shortened.
UnclampedStep(r) ==
    LET m == r.motion[1]
        left == m.remaining_um - m.per_ms_um
    IN  [position_um |-> r.position_um + m.per_ms_um,
         motion |-> IF Sign(left) # Sign(m.remaining_um) THEN <<>>
                    ELSE <<[m EXCEPT !.remaining_um = left]>>]

\* A move ends exactly on its distance.
MoveStep(r) ==
    LET m == r.motion[1]
        step == IF Magnitude(m.per_ms_um) >= Magnitude(m.remaining_um)
                THEN m.remaining_um ELSE m.per_ms_um
        left == m.remaining_um - step
    IN  [position_um |-> r.position_um + step,
         motion |-> IF left = 0 THEN <<>> ELSE <<[m EXCEPT !.remaining_um = left]>>]

Displaced(r) ==
    IF r.motion = <<>> THEN r
    ELSE IF r.motion[1].homing THEN HomingStep(r) ELSE MoveStep(r)

-----------------------------------------------------------------------------
(***************************************************************************)
(* Actions.                                                                *)
(***************************************************************************)

\* The head of the loop of run: time advances by one step.
Tick ==
    /\ ~stepping
    /\ now + STEP_TICKS <= MaxTime
    /\ now' = now + STEP_TICKS
    /\ stepping' = TRUE
    /\ UNCHANGED <<plants, queue, queue_window, last_heartbeat, latched_fault,
                   next_temp_sample>>

\* A command the transport delivers within the iteration.
Deliver(command, execute_at) ==
    /\ stepping
    /\ Accept(command, execute_at)

\* The rest of the iteration.
Finish ==
    /\ stepping
    /\ stepping' = FALSE
    /\ \E n \in 0 .. Len(queue), temp \in [Heaters -> Temperatures] :
          /\ IsDuePrefix(n)
          /\ queue' = SubSeq(queue, n + 1, Len(queue))
          /\ \A h \in Heaters :
                LET r == Enveloped(h, Commanded(h, n))
                IN  Toward(r.milli_c, Asymptote(h, r), temp[h])
          /\ heater' = [h \in Heaters |-> Integrated(Enveloped(h, Commanded(h, n)), temp[h])]
          /\ axis' = [a \in Axes |-> Displaced(Started(a, n))]
    /\ next_temp_sample' = IF now >= next_temp_sample
                           THEN next_temp_sample + SampleEvery ELSE next_temp_sample
    /\ UNCHANGED <<now, queue_window, last_heartbeat, latched_fault>>

\* A command frame handled between two calls of run (process_wire_frame,
\* message type 1).  The other frame types read the state and reply.
WireCommand(command, execute_at) ==
    /\ ~stepping
    /\ Accept(command, execute_at)

\* Fault injection by the test driver.
Reset ==
    /\ ~stepping
    /\ heater' = [h \in Heaters |-> Off(heater[h], FALSE)]
    /\ axis' = [a \in Axes |-> [axis[a] EXCEPT !.motion = <<>>]]
    /\ queue' = <<>>
    /\ latched_fault' = TRUE
    /\ UNCHANGED <<now, stepping, queue_window, last_heartbeat, next_temp_sample>>

\* Queued entries keep their timestamps and are not validated again.
SetQueueWindow(window) ==
    /\ ~stepping
    /\ queue_window' = window
    /\ UNCHANGED <<now, stepping, plants, queue, last_heartbeat, latched_fault,
                   next_temp_sample>>

Next ==
    \/ Tick
    \/ \E c \in Commands, t \in ExecuteTimes \cup {None} :
          Deliver(c, t) \/ WireCommand(c, t)
    \/ Finish
    \/ Reset
    \/ \E w \in Windows : SetQueueWindow(w)

Spec == Init /\ [][Next]_vars

-----------------------------------------------------------------------------
(***************************************************************************)
(* Properties.                                                             *)
(***************************************************************************)

\* Every variable has the type of its field in the source.
TypeOK ==
    /\ now \in Nat /\ stepping \in BOOLEAN
    /\ heater \in [Heaters -> HeaterState]
    /\ axis \in [Axes -> AxisState]
    /\ queue \in Seq(QueuedCommand) /\ Len(queue) <= QueueCapacity
    /\ queue_window \in QueueWindow
    /\ last_heartbeat \in Nat /\ latched_fault \in BOOLEAN
    /\ next_temp_sample \in Nat

\* An output is energized: it is driven, or it will be once it cools.
Energized(h) == heater[h].duty_on \/ heater[h].target_milli_c > 0

\* Whatever the queue still holds and whenever it executes, no heater under
\* heartbeat supervision is energized at the end of an iteration of run
\* when the host has been silent for longer than its timeout.
HeartbeatEnvelope ==
    ~stepping => \A h \in TimedHeaters :
                    Energized(h) => now - last_heartbeat <= HeartbeatTimeout[h]

\* Once a reset has latched its fault, nothing that was queued, delivered or
\* moving before it, and nothing sent after it, drives an output again.
FaultedOutputsOff ==
    latched_fault =>
        /\ queue = <<>>
        /\ \A h \in Heaters : ~Energized(h)
        /\ \A a \in Axes : axis[a].motion = <<>>

\* Ambient and gains that never bring a heater below 0: a target of 0 is off.
Warm == AmbientMilliC >= 0 /\ \A h \in Heaters : GainMilliC[h] >= 0

\* What makes the two inductive: a forced heater has no target, a driven one
\* has one, and a heartbeat came in this iteration or before the last ended.
EdgeInv ==
    /\ \A h \in Heaters :
          /\ heater[h].milli_c >= 0
          /\ heater[h].forced_safe => heater[h].target_milli_c <= 0
          /\ heater[h].duty_on => heater[h].target_milli_c > 0
    /\ last_heartbeat = now \/ last_heartbeat <= now - STEP_TICKS
    /\ stepping => STEP_TICKS <= now
    /\ HeartbeatEnvelope
    /\ FaultedOutputsOff

\* The queue is in timestamp order, holds only instants at which run
\* executes, and holds nothing whose instant an iteration has passed over.
QueueSound ==
    /\ \A i, j \in DOMAIN queue : i < j => queue[i].execute_at <= queue[j].execute_at
    /\ \A i \in DOMAIN queue :
          /\ queue[i].execute_at % STEP_TICKS = 0
          /\ queue[i].execute_at >= IF stepping THEN now - STEP_TICKS ELSE now

\* The step that ends an iteration of run.
IterationEnds == stepping /\ ~stepping'

\* Commands leave the queue by a reset or by executing; an iteration takes
\* out exactly those that are due, on their own quantum or, when they came
\* by a frame between two iterations, on the next one.
LeavesWhenDue ==
    /\ Len(queue') < Len(queue) => IterationEnds \/ (latched_fault' /\ queue' = <<>>)
    /\ IterationEnds =>
          /\ \E n \in 0 .. Len(queue) :
                /\ queue' = SubSeq(queue, n + 1, Len(queue))
                /\ \A i \in DOMAIN queue : i <= n <=> queue[i].execute_at <= now
          /\ \A i \in DOMAIN queue : queue[i].execute_at <= now =>
                queue[i].execute_at \in {now, now - STEP_TICKS}

ExecutesWhenDue == [][LeavesWhenDue]_vars

\* The axis has a motion and no due command replaces it.
Undisturbed(a) ==
    /\ axis[a].motion # <<>>
    /\ \A i \in DOMAIN queue : queue[i].execute_at <= now =>
          ~(queue[i].command.type \in {"home", "move"} /\ queue[i].command.axis = a)

\* The step from r to s brings r's motion nearer to its end; a move covers its
\* distance exactly, neither short of it nor beyond.
Advanced(r, s) ==
    LET m == r.motion[1]
    IN  IF m.homing
        THEN IF s.motion = <<>> THEN s.position_um = 0
             ELSE s.position_um < r.position_um
        ELSE IF s.motion = <<>>
             THEN s.position_um = r.position_um + m.remaining_um
             ELSE /\ Magnitude(s.motion[1].remaining_um) < Magnitude(m.remaining_um)
                  /\ s.position_um + s.motion[1].remaining_um = r.position_um + m.remaining_um

\* Every iteration advances a moving axis that no command disturbs.
MotionAdvances ==
    [][IterationEnds => \A a \in Axes : Undisturbed(a) => Advanced(axis[a], axis'[a])]_vars

-----------------------------------------------------------------------------
(* The contract of the safety envelope, which this controller implements.  *)

\* The instant up to which the iterations that ended account for time.
Accounted == IF stepping THEN now - STEP_TICKS ELSE now

Silence == IF last_heartbeat > Accounted THEN 0 ELSE Accounted - last_heartbeat

Edge == INSTANCE EdgeSafety WITH
            Outputs <- Heaters, TimedOutputs <- TimedHeaters,
            Timeout <- HeartbeatTimeout, Step <- STEP_TICKS,
            silence <- Silence,
            energized <- { h \in Heaters : Energized(h) },
            faulted <- latched_fault

\* The controller implements the edge-safety contract.
EdgeSafetySpec == Edge!Spec
=============================================================================
