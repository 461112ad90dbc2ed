------------------------------ MODULE FlashPlan ------------------------------
(* The planning of a flash: the lock, the build plan and the registry are in *)
(* memory; the board's package and the artifact are files that others may    *)
(* rewrite between the reads; the USB devices are those once discovered.     *)
(* The plan is made even when something blocks it.                           *)
EXTENDS PackageSnapshot, FirmwareBuild

CONSTANTS
    Requests,      \* what a plan may be asked for
    Boards(_),     \* the flash metadata a package.yaml holds, or its error
    Images,        \* what the artifact files may hold
    Devices        \* the USB devices that may be there

Manifest == 1   \* package.yaml

ASSUME ManifestAssumption == Manifest \in Files
ASSUME BoardsAssumption ==
    \A c \in Contents :
        Boards(c).error \in {None, "InvalidBoardMetadata", "MissingFlashMetadata"}
ASSUME DevicesAssumption == IsFiniteSet(Devices)

VARIABLES
    request,       \* what is asked for
    files,         \* what is in the artifact files
    devices,       \* the USB devices that are there
    discovered,    \* those that were when they were enumerated
    rule,          \* the board's flash method, once read
    planning,      \* the step to come, or how the planning ended
    plan           \* the plan, once there is one

planVars == <<request, files, devices, discovered, rule, planning, plan>>

\* The board package as the lock pins it: its tree stands for its hashes.
BoardPath == request.lock.controllers[request.controller].board

Pinned == {p \in request.lock.packages : p.path = BoardPath}

Locked == (CHOOSE p \in Pinned : TRUE).content

expected_artifact == request.build_plan.expected_artifact

PlanInit ==
    /\ SnapshotInit
    /\ request \in Requests
    /\ files \in [{request.artifact, expected_artifact.path} -> Images \cup {None}]
    /\ devices \in SUBSET Devices
    /\ discovered = None
    /\ rule = None
    /\ planning = "discover"
    /\ plan = None

Refuse(reason) ==
    /\ planning' = reason
    /\ UNCHANGED <<snapshotVars, request, files, devices, discovered, rule, plan>>

discover_usb_devices ==
    /\ planning = "discover"
    /\ discovered' = devices
    /\ planning' = "check"
    /\ UNCHANGED <<snapshotVars, request, files, devices, rule, plan>>

-----------------------------------------------------------------------------
(* plan_dry_run, from one access of a file to the next.                      *)

\* Why a request is refused before any file is read.  A signature need not
\* be given; "" is one without text.
RequestErrors ==
    LET lock == request.lock
    IN  IF ~validate(lock) THEN {"InvalidLock"}
        ELSE IF lock.lock_version >= 5
                /\ request.registry_source # lock.registry_source
        THEN {"RegistryDrift"}
        ELSE IF ~nonempty_unpadded(request.expected_current_firmware)
        THEN {"InvalidInput"}
        ELSE IF request.signature = "" THEN {"InvalidInput"}
        ELSE IF request.controller \notin DOMAIN lock.controllers
        THEN {"UnknownController"}
        ELSE IF ~verify_build_plan(lock, request.controller, request.build_plan)
        THEN {"BuildOutput"}
        ELSE IF Cardinality(Pinned) # 1 THEN {"InvalidLock"}
        ELSE Code("RegistryDrift", ~request.available)

RefuseRequest ==
    /\ planning = "check"
    /\ \E reason \in RequestErrors : Refuse(reason)

\* The manifest is hashed by itself, before the whole package is.
ReadManifest ==
    /\ planning = "check"
    /\ RequestErrors = {}
    /\ IF tree[Manifest] = Locked[Manifest]
       THEN /\ BeginSnapshot
            /\ planning' = "snapshot"
            /\ UNCHANGED <<request, files, devices, discovered, rule, plan>>
       ELSE Refuse(IF tree[Manifest] = Absent THEN "RegistryIo" ELSE "RegistryDrift")

TakeSnapshot ==
    /\ planning = "snapshot"
    /\ ReadTree
    /\ UNCHANGED planVars

\* A mistake to detect: only the manifest's hash is compared.
ContentAgreesInManifest == current[Manifest] = Locked[Manifest]

ContentAgrees == current = Locked

CompareContent ==
    /\ planning = "snapshot"
    /\ reading \in {"done", "failed"}
    /\ Refuse(IF reading = "failed" THEN "RegistryIo"
              ELSE IF ContentAgrees THEN "board" ELSE "RegistryDrift")

\* board_payload reads package.yaml once more.
ReadBoard ==
    /\ planning = "board"
    /\ IF tree[Manifest] # Absent /\ Boards(tree[Manifest]).error = None
       THEN /\ rule' = Boards(tree[Manifest])
            /\ planning' = "artifact"
            /\ UNCHANGED <<snapshotVars, request, files, devices, discovered, plan>>
       ELSE Refuse(IF tree[Manifest] = Absent THEN "InvalidBoardMetadata"
                   ELSE Boards(tree[Manifest]).error)

-----------------------------------------------------------------------------
(* The plan.                                                                 *)

\* matches, optional_exact
Meets(device, select) ==
    /\ device.usb_id = select.usb_id
    /\ \A f \in {"serial_number", "product"} :
            select[f] # None => device[f] = select[f]

\* match_usb_devices
Candidates(select) == {d \in discovered : Meets(d, select)}

MatchStatus(candidates) ==
    CASE Cardinality(candidates) = 0 -> "Missing"
      [] Cardinality(candidates) = 1 -> "Unique"
      [] OTHER -> "Ambiguous"

\* The blocked reasons.
Blocked(image) ==
    LET status == MatchStatus(Candidates(rule.select))
    IN  Code(status, status # "Unique")
        \cup Code("ChecksumMismatch", image # expected_artifact.sha256)
        \cup Code("NotDeployable", ~expected_artifact.deployable)

\* An image that has the expected hash is the expected image, in its
\* canonical encoding.
ReadArtifact ==
    /\ planning = "artifact"
    /\ LET image == files[request.artifact]
       IN  IF image = None THEN Refuse("ArtifactIo")
           ELSE /\ plan' = [controller |-> request.controller,
                            method |-> rule.method,
                            select |-> rule.select,
                            candidates |-> Candidates(rule.select),
                            artifact |-> expected_artifact,
                            observed |-> image,
                            ready |-> Blocked(image) = {},
                            blocked_reasons |-> Blocked(image)]
                /\ planning' = "planned"
                /\ UNCHANGED <<snapshotVars, request, files, devices, discovered, rule>>

PlanDryRun ==
    \/ discover_usb_devices
    \/ RefuseRequest
    \/ ReadManifest
    \/ TakeSnapshot
    \/ CompareContent
    \/ ReadBoard
    \/ ReadArtifact

-----------------------------------------------------------------------------

(* A plan is made of the locked board package: the package held what the     *)
(* lock pins at one instant of the planning.  The selection rule is read     *)
(* after that; when it is another than the locked one, someone has rewritten *)
(* the package since, and it is the locked one no more.  A plan that nothing *)
(* but the reference image's format blocks has the locked controller's image *)
(* and one device that meets the rule (plan_dry_run).                        *)
PlanFromLock ==
    plan # None =>
        /\ before = Locked
        /\ rule # Boards(Locked[Manifest]) => tree # Locked
        /\ plan.blocked_reasons \subseteq {"NotDeployable"} =>
            /\ plan.observed =
                    controller_image_manifest(request.lock, plan.controller)
            /\ \E d \in discovered :
                    \A e \in discovered : Meets(e, rule.select) <=> e = d
=============================================================================
