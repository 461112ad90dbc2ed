---------------------------- MODULE FirmwareBuild ----------------------------
(* The reference backend: a controller's image and build plan, made of a     *)
(* lock and nothing else.  An image stands for its bytes and for their       *)
(* hash, and a lock for its hash.                                            *)
EXTENDS Lockfile

BUILD_PLAN_MINIMUM_LOCK_VERSION == 4

\* Why controller_image_manifest refuses; a valid lock of that version has
\* both configurations of every controller.
BuildErrors(lock, controller) ==
    IF ~validate(lock) THEN {"InvalidLock"}
    ELSE IF lock.lock_version < BUILD_PLAN_MINIMUM_LOCK_VERSION
    THEN {"UnsupportedBuildPlanLockVersion"}
    ELSE Code("UnknownController", controller \notin DOMAIN lock.controllers)

controller_image_manifest(lock, controller) ==
    [controller |-> controller,
     lock_hash |-> lock,
     build |-> lock.controllers[controller].build,
     resolved_resources |-> lock.controllers[controller].resolved_resources,
     safety |-> lock.controllers[controller].safety]

\* The plan and the image of a controller: the reference container is
\* nothing a controller could run.
build_controller(lock, controller) ==
    LET image == controller_image_manifest(lock, controller)
    IN  [inputs |-> image,
         expected_artifact |-> [path |-> <<"build", controller>>,
                                sha256 |-> image,
                                deployable |-> FALSE]]

verify_build_plan(lock, controller, plan) ==
    /\ BuildErrors(lock, controller) = {}
    /\ plan = build_controller(lock, controller)
=============================================================================
