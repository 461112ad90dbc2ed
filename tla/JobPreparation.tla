--------------------------- MODULE JobPreparation ---------------------------
(***************************************************************************)
(* From G-code to the queue of a runner with an auditor: a host lowers a   *)
(* program line by line with one lowerer, and hands what came out of it to *)
(* enqueue or enqueue_batch of crates/workflow-runner/src/lib.rs whenever  *)
(* it likes.                                                               *)
(***************************************************************************)
EXTENDS GcodeLowerer, ToolpathAuditor

CONSTANTS
    Lines,     \* lines a program may hold
    MaxLines   \* bound on the lines of the program

ASSUME PreparationAssumption ==
    /\ MaxLines \in Nat /\ Lines \subseteq Seq(Word)
    /\ default_feed_rate_um_s \in Nat /\ hotend_name \in STRING /\ bed_name \in STRING

ASSUME LimitsAssumption ==
    /\ max_feed_rate_um_s \in Nat
    /\ \A axis \in DOMAIN axes : axes[axis].min_um \in Int /\ axes[axis].max_um \in Int
    /\ \A heater \in DOMAIN heater_ceilings_milli_c : heater_ceilings_milli_c[heater] \in Int

VARIABLES
    lowerer,
    lines,      \* number of lines lowered
    lowered,    \* history: every command lowered
    job,        \* commands lowered and not handed over
    job_queue   \* of the runner, which sends none of them meanwhile

preparationVars == <<lowerer, lines, lowered, job, job_queue>>

Init ==
    /\ lowerer = NewLowerer /\ lines = 0
    /\ lowered = <<>> /\ job = <<>> /\ job_queue = <<>>

LowerLine ==
    /\ lines < MaxLines
    /\ lines' = lines + 1
    /\ \E line \in Lines :
          LET step == Lower(lowerer, line)
          IN  /\ lowerer' = step.lowerer
              /\ lowered' = lowered \o step.commands
              /\ job' = job \o step.commands
    /\ UNCHANGED job_queue

\* One command, audited by itself; one that fails is given up.
Enqueue ==
    /\ job # <<>>
    /\ job' = Tail(job)
    /\ job_queue' = IF Passed(<<Head(job)>>) THEN Append(job_queue, Head(job)) ELSE job_queue
    /\ UNCHANGED <<lowerer, lines, lowered>>

\* A batch, audited as a whole; one that fails is given up.
EnqueueBatch ==
    /\ job # <<>>
    /\ job' = <<>>
    /\ job_queue' = IF Passed(job) THEN job_queue \o job ELSE job_queue
    /\ UNCHANGED <<lowerer, lines, lowered>>

Next == LowerLine \/ Enqueue \/ EnqueueBatch

Spec == Init /\ [][Next]_preparationVars

-----------------------------------------------------------------------------
(***************************************************************************)
(* Properties.  The reference: what the commands do to an axis, one after  *)
(* the other.                                                              *)
(***************************************************************************)

\* Where an axis that starts at a position is after each of the commands.
Track(start, commands, axis) ==
    LET at[i \in 0 .. Len(commands)] ==
            IF i = 0 THEN start
            ELSE CASE commands[i].kind = "Home" /\ commands[i].axis = axis -> 0
                   [] commands[i].kind = "Move" /\ commands[i].axis = axis ->
                         at[i - 1] + commands[i].distance_um
                   [] OTHER -> at[i - 1]
    IN  at

\* A machine that executes the lowered commands is where the lowerer believes
\* it to be, in absolute and relative positioning and across them.
LoweredKeepsPosition ==
    \A axis \in Moved : lowerer.positions[axis] = Track(0, lowered, axis)[Len(lowered)]

Admissible(command) ==
    CASE command.kind = "Heartbeat" -> TRUE
      [] command.kind = "SetHeaterTarget" ->
            /\ command.heater \in DOMAIN heater_ceilings_milli_c
            /\ command.target_milli_c <= heater_ceilings_milli_c[command.heater]
      [] OTHER -> max_feed_rate_um_s = 0 \/ command.rate_um_s <= max_feed_rate_um_s

InBounds(commands) ==
    \A i \in DOMAIN commands : commands[i].kind = "Move" /\ commands[i].axis \in DOMAIN axes =>
        LET at == Track(0, commands, commands[i].axis)[i]
        IN  axes[commands[i].axis].min_um <= at /\ at <= axes[commands[i].axis].max_um

\* The audit passes exactly the jobs that never leave the bounds of an axis
\* from a machine at 0, never exceed the feed rate and never ask a heater for
\* more than its ceiling; and each diagnostic names a command of the job.
AuditDecides ==
    /\ Passed(job) <=> InBounds(job) /\ \A i \in DOMAIN job : Admissible(job[i])
    /\ \A k \in DOMAIN Audit(job) : Audit(job)[k].command_index \in 0 .. Len(job) - 1

\* Whichever way it was enqueued, no command in the queue of a runner with an
\* auditor exceeds the feed rate or the ceiling of its heater.  Of positions
\* nothing can be said: each audit counts them from 0.
QueueAdmissible == \A i \in DOMAIN job_queue : Admissible(job_queue[i])
=============================================================================
