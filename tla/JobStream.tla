----------------------------- MODULE JobStream -----------------------------
(***************************************************************************)
(* A workflow runner streaming a job into the simulated controller, as the *)
(* host loop of crates/workflow-runner/tests/integration.rs drives them:   *)
(* read the controller's status, dispatch through a CommandClient whose    *)
(* sink is process_wire_frame, run one integration step, repeat.  The host *)
(* may enqueue more at any time, dispatch again on the status it has, meet *)
(* a transport error, and the controller may be reset.                     *)
(***************************************************************************)
EXTENDS SimController

CONSTANTS
    target_horizon, max_batch_size, schedule_lead_margin_us,
    Passes(_), Envelopes, MaxJobs, MaxBatch, MaxUnderruns,
    RereadsStatus,   \* the loop dispatches once per status it reads
    Resets,          \* the controller may be reset
    SinkFails,       \* a transport error may end a dispatch
    LastEnqueue      \* bound on when the host enqueues

ASSUME StreamAssumption ==
    /\ RereadsStatus \in BOOLEAN /\ Resets \in BOOLEAN /\ SinkFails \in BOOLEAN
    /\ LastEnqueue \in Nat

VARIABLES
    job_queue, last_controller_status,
    total_enqueued, total_dispatched, total_completed,
    underrun_events, last_dispatched_tick, state, outbox,
    turn,            \* what the host loop does next
    started          \* history: commands the controller took out of its queue

Runner == INSTANCE WorkflowRunner WITH Statuses <- {}

ASSUME JobAssumption ==
    /\ target_horizon \in Nat /\ max_batch_size \in Nat /\ schedule_lead_margin_us \in Nat
    /\ MaxJobs \in Nat /\ MaxBatch \in Nat /\ MaxUnderruns \in Nat
    /\ Envelopes \subseteq Runner!CommandEnvelope
    /\ \A e \in Envelopes : e.command \in Command
    /\ None \notin Runner!ControllerSessionStatus

runnerVars == <<job_queue, last_controller_status, total_enqueued, total_dispatched,
                total_completed, underrun_events, last_dispatched_tick, state, outbox>>
streamVars == <<vars, runnerVars, turn, started>>

StreamInit ==
    /\ Init
    /\ Runner!Init
    /\ turn = "status" /\ started = 0

\* The status the loop makes out of queue_status and latched_fault.
SessionStatus ==
    [queue_capacity |-> QueueStatus.capacity, queue_fill |-> QueueStatus.fill_level,
     earliest_accepted_tick |-> QueueStatus.earliest_accepted_timestamp,
     latest_accepted_tick |-> QueueStatus.latest_accepted_timestamp,
     underrun |-> latched_fault, heartbeat_ok |-> TRUE]

-----------------------------------------------------------------------------
Enqueues(envelopes) ==
    /\ ~stepping /\ now <= LastEnqueue
    /\ Runner!EnqueueBatch(envelopes)
    /\ UNCHANGED <<vars, turn, started>>

ReadStatus ==
    /\ turn = "status"
    /\ Runner!UpdateControllerStatus(SessionStatus)
    /\ turn' = "dispatch"
    /\ UNCHANGED <<vars, started>>

\* This loop's statuses never lack a heartbeat, so the runner never faults.
Dispatch ==
    /\ turn = "dispatch"
    /\ Runner!NextDispatchBatch
    /\ turn' = "send"
    /\ UNCHANGED <<vars, started>>

\* The sink hands the frame to the controller.
SendNext ==
    /\ turn = "send"
    /\ Runner!SendNext
    /\ WireCommand(Head(outbox).command, Head(outbox).execute_at)
    /\ UNCHANGED <<turn, started>>

SendFails ==
    /\ SinkFails
    /\ turn = "send"
    /\ Runner!SendFails
    /\ UNCHANGED <<vars, turn, started>>

DispatchAgain ==
    /\ ~RereadsStatus
    /\ turn = "send" /\ outbox = <<>>
    /\ turn' = "dispatch"
    /\ UNCHANGED <<vars, runnerVars, started>>

\* run(now + STEP_TICKS) with nothing on its transport.
RunStarts ==
    /\ turn = "send" /\ outbox = <<>>
    /\ Tick
    /\ turn' = "run"
    /\ UNCHANGED <<runnerVars, started>>

RunEnds ==
    /\ turn = "run"
    /\ Finish
    /\ turn' = "status"
    /\ started' = started + Len(queue) - Len(queue')
    /\ UNCHANGED runnerVars

StreamReset ==
    /\ Resets /\ ~latched_fault
    /\ turn # "send"
    /\ Reset
    /\ UNCHANGED <<runnerVars, turn, started>>

HostLoop == ReadStatus \/ Dispatch \/ SendNext \/ RunStarts \/ RunEnds

StreamNext ==
    \/ \E envelopes \in UNION { [1 .. n -> Envelopes] : n \in 1 .. MaxBatch } :
          Enqueues(envelopes)
    \/ HostLoop
    \/ SendFails \/ DispatchAgain
    \/ StreamReset

StreamSpec == StreamInit /\ [][StreamNext]_streamVars

\* The loop is one thread that is never blocked: it always takes its next step.
FairStreamSpec == StreamSpec /\ WF_streamVars(HostLoop)

-----------------------------------------------------------------------------
(***************************************************************************)
(* Properties.                                                             *)
(***************************************************************************)

\* The runner never fills the controller's queue beyond its target horizon,
\* however enqueueing, dispatching and executing interleave.
HorizonKept == Len(queue) <= target_horizon

\* Commands enter the controller's queue behind the ones before them and at
\* least the margin later, so that they execute in the order of the job.
MarginKept ==
    [][Len(queue') > Len(queue) =>
          LET new == queue'[Len(queue')]
          IN  /\ queue' = Append(queue, new)
              /\ queue # <<>> =>
                    new.execute_at >= queue[Len(queue)].execute_at + schedule_lead_margin_us
      ]_streamVars

\* The controller accepts every command it is sent: none comes with a tick
\* in the past, beyond its window or off its quantum, none finds it full.
DispatchedIsAccepted == [][SendNext => Len(queue') = Len(queue) + 1]_streamVars

\* When a job is reported Completed, the controller has taken every command of
\* it out of its queue and begun it.  A motion may still be running: the runner
\* knows of fill levels, not of motions.
CompletedMeansStarted == state = "Completed" => started = total_enqueued

\* Every job the host enqueues is Completed in the end.
JobCompletes == total_enqueued > 0 ~> state = "Completed"
=============================================================================
