---------------------------- MODULE FlashExecutor ----------------------------
(* A plan carried out by the native executor: checked, its artifact staged,  *)
(* and one of the flash tools run on it.  Between these steps the artifact   *)
(* files may be rebuilt and devices come and go.                             *)
EXTENDS FlashPlan

CONSTANTS
    Partial,         \* what a failed write may leave in a file
    MaxDisturbances  \* bounds the rebuilds, plugs and unplugs

VARIABLES
    order,          \* the plan handed to the executor
    artifact_bytes, \* and the image handed over with it
    dry_run,        \* whether the executor only pretends
    step,           \* what the executor does next
    staged,         \* the file for the tool; None for the temporary one
    temp,           \* what is in the temporary file
    written,        \* what the tool wrote, and to which device
    result,         \* how the execution ended
    disturbances,
    rebuilt,         \* history: an artifact was rebuilt since the staging
    removal_refused  \* history: the temporary file could not be removed

history == <<rebuilt, removal_refused>>
executorVars == <<order, artifact_bytes, dry_run, step, staged, temp, written, result,
                  disturbances, history>>

Init ==
    /\ PlanInit
    /\ order = None
    /\ artifact_bytes = None
    /\ dry_run \in BOOLEAN
    /\ step = "idle"
    /\ staged = None
    /\ temp = None
    /\ written = None
    /\ result = None
    /\ disturbances = 0
    /\ rebuilt = FALSE
    /\ removal_refused = FALSE

Plan ==
    /\ PlanDryRun
    /\ UNCHANGED executorVars

-----------------------------------------------------------------------------
(* What goes on beside.  Before the first read of a thing it may be anything *)
(* from the start.                                                           *)

EditPackage ==
    /\ planning \in {"check", "snapshot", "board", "artifact"}
    /\ \E f \in Files, c \in Contents \cup {Absent} : Write(f, c)
    /\ UNCHANGED <<planVars, executorVars>>

Disturb ==
    /\ plan # None
    /\ disturbances < MaxDisturbances
    /\ disturbances' = disturbances + 1
    /\ UNCHANGED <<snapshotVars, request, discovered, rule, planning, plan>>
    /\ UNCHANGED <<order, artifact_bytes, dry_run, step, staged, temp, written, result,
                   removal_refused>>

Rebuild ==
    /\ Disturb
    /\ rebuilt' = TRUE
    /\ \E path \in DOMAIN files, image \in Images \cup {None} :
        /\ image # files[path]
        /\ files' = [files EXCEPT ![path] = image]
    /\ UNCHANGED devices

Plug ==
    /\ Disturb
    /\ \E d \in Devices \ devices : devices' = devices \cup {d}
    /\ UNCHANGED <<files, rebuilt>>

Unplug ==
    /\ Disturb
    /\ \E d \in devices : devices' = devices \ {d}
    /\ UNCHANGED <<files, rebuilt>>

-----------------------------------------------------------------------------

Executor ==
    UNCHANGED <<snapshotVars, planVars, dry_run, disturbances>>

\* A plan that only its artifact's format blocks, made ready: what a native
\* backend's artifact would be, and what the tests do by hand.
Approved ==
    IF plan.blocked_reasons = {"NotDeployable"}
    THEN [plan EXCEPT !.ready = TRUE, !.blocked_reasons = {},
                      !.artifact.deployable = TRUE]
    ELSE plan

Order ==
    /\ Executor
    /\ step = "idle"
    /\ plan # None
    /\ order' \in {plan, Approved}
    /\ artifact_bytes' \in Images
    /\ step' = "validate"
    /\ UNCHANGED <<staged, temp, written, result, history>>

End(outcome) ==
    /\ step' = "ended"
    /\ result' = outcome

\* FromStr of the flash methods.
Tools == {"dfu_util", "stm32flash", "bossac", "picotool"}

\* A mistake to detect: the bytes of a ready plan are taken as they are.
PlanErrorsReadyOnly ==
    IF ~order.ready \/ order.blocked_reasons # {} THEN {"PlanNotReady"}
    ELSE IF Cardinality(order.candidates) # 1 THEN {"DeviceNotFound"}
    ELSE Code("UnsupportedMethod", order.method \notin Tools)

\* validate_plan
PlanErrors ==
    IF ~order.ready \/ order.blocked_reasons # {} THEN {"PlanNotReady"}
    ELSE IF Cardinality(order.candidates) # 1 THEN {"DeviceNotFound"}
    ELSE IF artifact_bytes # order.artifact.sha256 THEN {"ChecksumMismatch"}
    ELSE Code("UnsupportedMethod", order.method \notin Tools)

Validate ==
    /\ Executor
    /\ step = "validate"
    /\ IF PlanErrors = {}
       THEN step' = "stage" /\ UNCHANGED result
       ELSE \E error \in PlanErrors : End(error)
    /\ UNCHANGED <<order, artifact_bytes, staged, temp, written, history>>

\* The file at the plan's path is used where it is when it has the digest.
StageInPlace ==
    /\ Executor
    /\ step = "stage"
    /\ files[order.artifact.path] = order.artifact.sha256
    /\ staged' = order.artifact.path
    /\ rebuilt' = FALSE
    /\ step' = "run"
    /\ UNCHANGED <<order, artifact_bytes, temp, written, result, removal_refused>>

\* create_temp_artifact.  The write may fail before it has made the file or after.
StageCopy ==
    /\ Executor
    /\ step = "stage"
    /\ files[order.artifact.path] # order.artifact.sha256
    /\ \/ /\ temp' = artifact_bytes
          /\ staged' = None
          /\ step' = "run"
          /\ UNCHANGED result
       \/ /\ End("CannotWrite")
          /\ temp' \in {None, Partial}
          /\ UNCHANGED staged
    /\ UNCHANGED <<order, artifact_bytes, written, history>>

Copied == staged = None

\* A mistake to detect: only a success removes the temporary file.
RemoveTempOnSuccess ==
    /\ temp' = IF result' = "Success" THEN None ELSE temp
    /\ UNCHANGED removal_refused

\* The temporary file is removed however the tool ended; that the removal
\* failed is not looked at.
RemoveTemp ==
    \/ temp' = None /\ UNCHANGED removal_refused
    \/ temp # None /\ removal_refused' = TRUE /\ UNCHANGED temp

Pretend ==
    /\ Executor
    /\ step = "run"
    /\ dry_run
    /\ End("Success")
    /\ RemoveTemp
    /\ UNCHANGED <<order, artifact_bytes, staged, written, rebuilt>>

\* The tool cannot be started: the error returns at once.
SpawnFails ==
    /\ Executor
    /\ step = "run"
    /\ ~dry_run
    /\ End("CannotExecute")
    /\ UNCHANGED <<order, artifact_bytes, staged, temp, written, history>>

Spawn ==
    /\ Executor
    /\ step = "run"
    /\ ~dry_run
    /\ step' = "tool"
    /\ UNCHANGED <<order, artifact_bytes, staged, temp, written, result, history>>

\* generate_command: a device is one the arguments made for the candidate
\* let the tool take.
Takes(tool, candidate, device) ==
    CASE tool = "dfu_util" ->
            /\ device.usb_id = candidate.usb_id
            /\ candidate.serial_number # None
                => device.serial_number = candidate.serial_number
      [] tool \in {"stm32flash", "bossac"} ->
            candidate.serial_port => device.location = candidate.location
      [] tool = "picotool" ->
            candidate.addressed => device.location = candidate.location

\* What the tool finds in the file it was given.
Staged == IF Copied THEN temp ELSE files[staged]

\* The tool, a program of its own: it reads the file and writes a device.
\* dfu-util refuses to choose among several.
ToolWrites ==
    /\ Executor
    /\ step = "tool"
    /\ written = None
    /\ Staged # None
    /\ \E d \in devices, c \in order.candidates :
        /\ Takes(order.method, c, d)
        /\ order.method = "dfu_util"
            => \A e \in devices : Takes(order.method, c, e) => e = d
        /\ written' = [image |-> Staged, device |-> d]
    /\ UNCHANGED <<order, artifact_bytes, step, staged, temp, result, history>>

\* It succeeds only when it has written; it may also fail after that.
ToolEnds ==
    /\ Executor
    /\ step = "tool"
    /\ \/ written # None /\ End("Success")
       \/ End("ToolFailed")
    /\ RemoveTemp
    /\ UNCHANGED <<order, artifact_bytes, staged, written, rebuilt>>

Execute ==
    \/ Order \/ Validate
    \/ StageInPlace \/ StageCopy
    \/ Pretend \/ SpawnFails \/ Spawn
    \/ ToolWrites \/ ToolEnds

Next == Plan \/ Execute \/ EditPackage \/ Rebuild \/ Plug \/ Unplug

vars == <<snapshotVars, planVars, executorVars>>

Spec == Init /\ [][Next]_vars

-----------------------------------------------------------------------------

(* What a tool writes is the image built from the lock for the controller    *)
(* the plan is for, whatever became of the artifact files between the plan   *)
(* and the staging, and the plan named one device.  From the executor's own  *)
(* copy it is that image in any case; in an artifact used where it lies, it  *)
(* is unless an artifact was rebuilt after it was staged (execute_flash).    *)
FlashedAsPlanned ==
    written # None =>
        /\ \/ written.image =
                controller_image_manifest(request.lock, request.controller)
           \/ ~Copied /\ rebuilt
        /\ Cardinality(order.candidates) = 1

(* The executor leaves a copy of the artifact behind only when something     *)
(* failed that it does not clean up after: the writing of the copy, starting *)
(* the tool, or the removal itself; never because of how the tool ended      *)
(* (execute_flash, create_temp_artifact).                                    *)
NoCopyLeft ==
    step = "ended" /\ temp # None =>
        result \in {"CannotWrite", "CannotExecute"} \/ removal_refused

(* What the crate says of executions: they do not weaken the plan's checks.  *)
(* The device a tool writes is one that meets the selection rule             *)
(* (generate_command).                                                       *)
DeviceMeetsRule == written # None => Meets(written.device, order.select)
=============================================================================
