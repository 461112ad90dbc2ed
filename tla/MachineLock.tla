----------------------------- MODULE MachineLock -----------------------------
(* The lock and verify-lock commands: a resolution that succeeded is written *)
(* down as machine.lock, and a lock is later compared with the registry on   *)
(* disk.  Both see the registry the machine was resolved against; the lock   *)
(* reads every package once more.                                            *)
EXTENDS MachineResolver, Lockfile

VARIABLES
    lockfile,    \* the lock, once there is one
    verified     \* whether verify-lock accepted it

lockVars == <<lockfile, verified>>

\* The contents of a package's tree are the package itself; a package whose
\* tree cannot be read whole and unchanged has none.
Content(path, version) == registry.packages[path][version]

\* pin_packages: the closure, not only what the manifest lists.
LockedPackage(path) ==
    [path |-> path, version |-> chosen[path], content |-> Content(path, chosen[path])]

\* apply_assignments: what each claim of a component got.
LockedResources(controller) ==
    LET own == {a \in assignments : a.resource[1] = controller}
    IN  [k \in {<<a.component, a.via>> : a \in own} |->
            (CHOOSE a \in own : <<a.component, a.via>> = k).resource[2]]

BindingsOn(controller) ==
    {b \in controller_safety : b.resource[1] = controller}

\* apply_safety
LockedSafety(controller) ==
    {[component |-> b.component, class |-> b.class, resource |-> b.resource[2],
      state |-> b.state,
      heartbeat_timeout_us |->
        IF b.heartbeat_timeout = None THEN None ELSE b.heartbeat_timeout.value,
      sensor |-> IF b.sensor = None THEN None ELSE b.sensor[2]] :
        b \in BindingsOn(controller)}

\* initialize_controllers and what the later steps add.
LockedController(controller) ==
    [board |-> doc.controllers[controller].board,
     resolved_resources |-> LockedResources(controller),
     safety |-> LockedSafety(controller),
     build |-> IF controller \in DOMAIN controller_build_plans
               THEN controller_build_plans[controller]
               ELSE None]

\* Of a path the closure holds one version.
lock ==
    [lock_version |-> 5,
     registry_source |-> registry.source,
     packages |-> {LockedPackage(p) : p \in DOMAIN chosen},
     safety_profile |-> LockedPackage(doc.profile),
     controllers |-> [c \in DOMAIN doc.controllers |-> LockedController(c)]]

\* Why there is no lock.
LockErrors ==
    IF registry.source = None THEN {"E1406"}
    ELSE IF \E p \in DOMAIN chosen : Content(p, chosen[p]).kind = None THEN {"E1400"}
    ELSE IF \E b \in controller_safety :
                b.sensor # None /\ b.sensor[1] # b.resource[1] THEN {"E1403"}
    ELSE IF doc.profile \notin DOMAIN chosen THEN {"E1401"}
    ELSE Code("E1405", ~validate(lock))

Lock ==
    /\ phase = "resolved"
    /\ Proceed(LockErrors, "locked")
    /\ lockfile' = IF LockErrors = {} THEN lock ELSE None
    /\ UNCHANGED <<doc, registry, chosen, constraints, round, warnings>>
    /\ UNCHANGED <<allocationVars, resolverVars, verified>>

\* cmd_verify_lock: the packages found by name, at whatever version is found.
Matches(package) ==
    /\ versions(package.path) # {}
    /\ Content(package.path, Highest(versions(package.path))) = package.content

VerifyLock ==
    /\ phase = "locked"
    /\ verified = None
    /\ verified' = \A p \in lockfile.packages : Matches(p)
    /\ UNCHANGED <<selectionVars, allocationVars, resolverVars, lockfile>>

\* The command is done.
Stop ==
    /\ phase = "failed" \/ verified # None
    /\ UNCHANGED <<vars, lockVars>>

LockInit == Init /\ lockfile = None /\ verified = None

Resolve ==
    /\ Select \/ Allocate \/ ValidateElectrical \/ ValidateSafety
        \/ PartitionFirmware \/ PlanArtifacts
    /\ UNCHANGED lockVars

LockNext == Resolve \/ Lock \/ VerifyLock \/ Stop

LockSpec == LockInit /\ [][LockNext]_<<vars, lockVars>>

-----------------------------------------------------------------------------

\* What a component got is in the lock of the controller that has it.
ResourcesCarried(l) ==
    \A a \in assignments :
        LET resources == l.controllers[a.resource[1]].resolved_resources
        IN  /\ <<a.component, a.via>> \in DOMAIN resources
            /\ resources[<<a.component, a.via>>] = a.resource[2]

\* So is the safe state of all that can heat or move.
SafetyCarried(l) ==
    \A c \in DOMAIN components : \A r \in Hazards(c) :
        \E s \in l.controllers[r[1]].safety :
            /\ s.resource = r[2] /\ s.component = c
            /\ Policy(c).requires_sensor =>
                <<r[1], s.sensor>> \in ResourcesOf(Attribute(c, "sensor"))

\* The packages of each firmware are pinned, at one version.
FirmwarePinned(l) ==
    \A c \in DOMAIN doc.controllers :
        LET build == l.controllers[c].build
        IN  \A id \in {build.board, build.chip} \cup build.native_drivers :
                \E p \in l.packages :
                    /\ p.path = id.path /\ p.version = id.version
                    /\ \A q \in l.packages : q.path = p.path => q = p

(* A lock is all a controller's firmware is built from: it holds every       *)
(* connector the resolution gave away, under the controller that has it;     *)
(* each power output in it has one safe state and the input that state       *)
(* watches is there too; and every package the firmware is built from is     *)
(* pinned, at one version (generate::lock).                                  *)
LockCarriesResolution ==
    phase = "locked" =>
        ResourcesCarried(lockfile) /\ SafetyCarried(lockfile) /\ FirmwarePinned(lockfile)

(* What verify-lock says it does: it compares the digests of the locked      *)
(* packages with the packages on disk.  A lock just made from an unchanged   *)
(* registry passes (cmd_verify_lock).                                        *)
FreshLockVerifies == verified # FALSE
=============================================================================
