--------------------------- MODULE WorkflowRunner ---------------------------
(***************************************************************************)
(* The streaming job queue of crates/workflow-runner/src/lib.rs.  A host   *)
(* loop enqueues commands, reports the controller's status, and asks for   *)
(* the next batch, which it sends command by command (dispatch_to_client). *)
(* Saturation of the counters and timestamps at 2^64 is left out.          *)
(***************************************************************************)
EXTENDS Integers, Sequences, FiniteSetsExt

CONSTANTS
    target_horizon, max_batch_size, schedule_lead_margin_us,  \* RunnerConfig
    Passes(_),       \* the attached auditor's verdict on a command sequence
    Envelopes,       \* command envelopes the host may enqueue
    MaxJobs,         \* bound on the commands ever enqueued
    MaxBatch,        \* bound on the commands enqueued at once
    MaxUnderruns,    \* bound on the underruns reported
    Statuses,        \* controller statuses the host may report
    None             \* Option::None of a tick, and of the last status

\* A command, which the runner does not look into, with the tick asked for.
CommandEnvelope == [command : { e.command : e \in Envelopes }, execute_at : Nat \cup {None}]

\* The part of ControllerSessionStatus the runner reads.
ControllerSessionStatus ==
    [queue_capacity : Nat, queue_fill : Nat, earliest_accepted_tick : Nat,
     latest_accepted_tick : Nat, underrun : BOOLEAN, heartbeat_ok : BOOLEAN]

ASSUME RunnerAssumption ==
    /\ target_horizon \in Nat /\ max_batch_size \in Nat
    /\ schedule_lead_margin_us \in Nat
    /\ MaxJobs \in Nat /\ MaxBatch \in Nat /\ MaxUnderruns \in Nat
    /\ Envelopes \subseteq CommandEnvelope
    /\ Statuses \subseteq ControllerSessionStatus
    /\ None \notin Nat \cup ControllerSessionStatus

VARIABLES
    job_queue, last_controller_status,
    total_enqueued, total_dispatched, total_completed,
    underrun_events, last_dispatched_tick,
    state,
    outbox           \* the batch dispatch_to_client is sending

counters == <<total_enqueued, total_dispatched, total_completed>>
runnerVars == <<job_queue, last_controller_status, counters, underrun_events,
                last_dispatched_tick, state, outbox>>

Init ==
    /\ job_queue = <<>> /\ last_controller_status = None
    /\ total_enqueued = 0 /\ total_dispatched = 0 /\ total_completed = 0
    /\ underrun_events = 0 /\ last_dispatched_tick = None
    /\ state = "Idle" /\ outbox = <<>>

-----------------------------------------------------------------------------
\* One command, or a batch audited as a whole; a batch that fails its audit
\* is refused and changes nothing.
EnqueueBatch(envelopes) ==
    /\ outbox = <<>>
    /\ envelopes # <<>> /\ Passes(envelopes)
    /\ total_enqueued + Len(envelopes) <= MaxJobs
    /\ job_queue' = job_queue \o envelopes
    /\ total_enqueued' = total_enqueued + Len(envelopes)
    /\ state' = IF state \in {"Idle", "Completed"} THEN "Running" ELSE state
    /\ UNCHANGED <<last_controller_status, total_dispatched, total_completed,
                   underrun_events, last_dispatched_tick, outbox>>

\* A mistake to detect: an underrun outranks the fault.
FlaggedAgain(status) ==
    IF ~status.heartbeat_ok THEN "Faulted"
    ELSE IF status.underrun THEN "UnderrunWarning" ELSE state

\* The state after the heartbeat and underrun flags are looked at.
Flagged(status) ==
    IF ~status.heartbeat_ok THEN "Faulted"
    ELSE IF status.underrun /\ state # "Faulted" THEN "UnderrunWarning"
    ELSE state

\* Mistakes to detect: only one side of the job is looked at.
DrainedController(status) == status.queue_fill = 0 /\ total_enqueued > 0
DrainedRunner(status) ==
    /\ job_queue = <<>>
    /\ total_dispatched = total_enqueued /\ total_enqueued > 0

\* The completion test of update_controller_status.
Drained(status) ==
    /\ job_queue = <<>> /\ status.queue_fill = 0
    /\ total_dispatched = total_enqueued /\ total_enqueued > 0

\* A mistake to detect: the wrong counter.
CompletedOfEnqueued(status) == Max({0, total_enqueued - status.queue_fill})

\* What was dispatched and is not in the controller's queue is taken for done.
CompletedBy(status) == Max({0, total_dispatched - status.queue_fill})

UpdateControllerStatus(status) ==
    /\ outbox = <<>>
    /\ underrun_events' = IF status.heartbeat_ok /\ status.underrun
                          THEN underrun_events + 1 ELSE underrun_events
    /\ underrun_events' <= MaxUnderruns
    /\ total_completed' = CompletedBy(status)
    /\ LET flagged == Flagged(status)
       IN  state' = IF Drained(status) /\ flagged \notin {"Faulted", "UnderrunWarning"}
                    THEN "Completed"
                    ELSE IF flagged = "Throttled" /\ status.queue_fill < target_horizon
                    THEN "Running" ELSE flagged
    /\ last_controller_status' = status
    /\ UNCHANGED <<job_queue, total_enqueued, total_dispatched, last_dispatched_tick,
                   outbox>>

-----------------------------------------------------------------------------
(* next_dispatch_batch.  A status without heartbeat has set Faulted, which *)
(* is final (FaultedIsFinal), so the second test of it changes nothing.    *)

\* What the runner believes of the controller.
Believed ==
    IF last_controller_status = None
    THEN [queue_capacity |-> target_horizon, queue_fill |-> 0, earliest_accepted_tick |-> 0,
          latest_accepted_tick |-> 0, underrun |-> FALSE, heartbeat_ok |-> TRUE]
    ELSE last_controller_status

\* A mistake to detect: the configured horizon is not looked at.
HorizonOfController == Believed.queue_capacity

Horizon == Min({target_horizon, Believed.queue_capacity})

\* Mistakes to detect: the margin, or the window's start, is not looked at.
ScheduledTickUnspaced(requested, last) ==
    Max({Believed.earliest_accepted_tick} \cup ({requested} \ {None}))
ScheduledTickUnfloored(requested, last) ==
    Max({0} \cup ({requested} \ {None})
          \cup (IF last = None THEN {} ELSE {last + schedule_lead_margin_us}))

\* Only a tick the command came with is clamped to the window's end.
ScheduledTick(requested, last) ==
    LET floor == Max({Believed.earliest_accepted_tick}
                       \cup ({requested} \ {None})
                       \cup (IF last = None THEN {} ELSE {last + schedule_lead_margin_us}))
        latest == Believed.latest_accepted_tick
    IN  IF requested # None /\ latest > 0 /\ floor > latest THEN latest ELSE floor

\* Tick of the i-th command of the batch; each one builds on the one before.
TickOf[i \in 0 .. Len(job_queue)] ==
    IF i = 0 THEN last_dispatched_tick
    ELSE ScheduledTick(job_queue[i].execute_at, TickOf[i - 1])

Batch(n) == [i \in 1 .. n |-> [job_queue[i] EXCEPT !.execute_at = TickOf[i]]]

\* There is nothing to dispatch.
DispatchNothing ==
    /\ outbox = <<>> /\ job_queue = <<>> /\ state # "Faulted"
    /\ state' = IF total_completed = total_dispatched /\ total_dispatched > 0
                THEN "Completed"
                ELSE IF state = "UnderrunWarning" THEN state ELSE "Idle"
    /\ UNCHANGED <<job_queue, last_controller_status, counters, underrun_events,
                   last_dispatched_tick, outbox>>

\* The controller's queue is full enough.
DispatchThrottled ==
    /\ outbox = <<>> /\ job_queue # <<>> /\ state # "Faulted"
    /\ Believed.queue_fill >= Horizon
    /\ state' = "Throttled"
    /\ UNCHANGED <<job_queue, last_controller_status, counters, underrun_events,
                   last_dispatched_tick, outbox>>

\* A mistake to detect: what the controller holds already is not looked at.
BatchSizeOfHorizon == Min({Horizon, max_batch_size, Len(job_queue)})

BatchSize == Min({Horizon - Believed.queue_fill, max_batch_size, Len(job_queue)})

DispatchBatch ==
    /\ outbox = <<>> /\ job_queue # <<>> /\ state # "Faulted"
    /\ Believed.queue_fill < Horizon
    /\ BatchSize > 0
    /\ outbox' = Batch(BatchSize)
    /\ job_queue' = SubSeq(job_queue, BatchSize + 1, Len(job_queue))
    /\ last_dispatched_tick' = TickOf[BatchSize]
    /\ total_dispatched' = total_dispatched + BatchSize
    /\ state' = IF state = "UnderrunWarning" THEN state ELSE "Running"
    /\ UNCHANGED <<last_controller_status, total_enqueued, total_completed, underrun_events>>

NextDispatchBatch == DispatchNothing \/ DispatchThrottled \/ DispatchBatch

\* dispatch_to_client hands the next command to the CommandClient ...
SendNext ==
    /\ outbox # <<>>
    /\ outbox' = Tail(outbox)
    /\ UNCHANGED <<job_queue, last_controller_status, counters, underrun_events,
                   last_dispatched_tick, state>>

\* ... and returns on the first error, which drops the rest of the batch.
SendFails ==
    /\ outbox # <<>>
    /\ outbox' = <<>>
    /\ UNCHANGED <<job_queue, last_controller_status, counters, underrun_events,
                   last_dispatched_tick, state>>

Next ==
    \/ \E envelopes \in UNION { [1 .. n -> Envelopes] : n \in 1 .. MaxBatch } :
          EnqueueBatch(envelopes)
    \/ \E status \in Statuses : UpdateControllerStatus(status)
    \/ NextDispatchBatch
    \/ SendNext \/ SendFails

Spec == Init /\ [][Next]_runnerVars

-----------------------------------------------------------------------------
(***************************************************************************)
(* Properties.                                                             *)
(***************************************************************************)

\* No command is lost or counted twice between enqueueing and dispatch, and
\* none is reported completed that was not dispatched, whatever fill levels
\* the controller reports.
Conserved ==
    /\ total_enqueued = total_dispatched + Len(job_queue)
    /\ total_completed <= total_dispatched

\* A batch fits into what the status it was computed from leaves of the
\* horizon and of the controller's queue, takes the commands from the front
\* of the job, and schedules none before the earliest tick that status accepts.
BatchFits ==
    [][outbox = <<>> /\ outbox' # <<>> =>
          /\ Len(outbox') <= max_batch_size
          /\ Believed.queue_fill + Len(outbox') <= Horizon
          /\ \A i \in DOMAIN outbox' :
                /\ outbox'[i].command = job_queue[i].command
                /\ outbox'[i].execute_at >= Believed.earliest_accepted_tick
      ]_runnerVars

\* A dead heartbeat stops the job for good: the runner faults, never leaves
\* that state and dispatches nothing more.
FaultedIsFinal ==
    [][/\ state = "Faulted" => state' = "Faulted" /\ total_dispatched' = total_dispatched
       /\ last_controller_status' # None /\ ~last_controller_status'.heartbeat_ok
             => state' = "Faulted"]_runnerVars

\* A job is only Completed with nothing left to dispatch or to send, and the
\* counters agree that everything dispatched is done.
CompletedIsDrained ==
    state = "Completed" => job_queue = <<>> /\ outbox = <<>> /\ total_dispatched = total_enqueued
=============================================================================
