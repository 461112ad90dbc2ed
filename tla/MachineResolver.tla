-------------------------- MODULE MachineResolver --------------------------
(* The resolution of a machine against a package registry, phase by phase:   *)
(* the selection of packages, the allocation of connectors, and then the     *)
(* electrical and safety validation, the partition of the safety policy into *)
(* controller-local bindings and the plan of each controller's firmware.     *)
(* Every phase reports all it finds and the resolution stops at the first    *)
(* phase that reports an error.                                              *)
EXTENDS ConnectorAllocation

CONSTANT Provides(_, _)   \* whether a component kind matches a family's name

VARIABLES
    controller_safety,        \* the safe states bound on controllers
    controller_build_plans    \* the firmware inputs of each controller

resolverVars == <<controller_safety, controller_build_plans>>

vars == <<selectionVars, allocationVars, resolverVars>>

components == expanded.components

Assigned(component) == {a \in assignments : a.component = component}

ResourcesOf(component) == {a.resource : a \in Assigned(component)}

Attribute(component, name) ==
    IF name \in DOMAIN components[component].attributes
    THEN components[component].attributes[name]
    ELSE None

\* Runs the phase that reports found and goes on to the next one.
Validate(this, found, next) ==
    /\ phase = this
    /\ Proceed(found, next)
    /\ UNCHANGED <<doc, registry, chosen, constraints, round, warnings>>
    /\ UNCHANGED allocationVars

-----------------------------------------------------------------------------
(* Phase 8: electrical validation.                                           *)

\* The current a component draws fits the connectors that declare a limit.
CurrentErrors(component) ==
    LET draw == Attribute(component, "current")
    IN  IF draw = None THEN {}
        ELSE IF ~ParsesAs(draw, "current") THEN {"E1301"}
        ELSE Code("E1300", \E r \in ResourcesOf(component) :
                /\ Connector(r).max_current # None
                /\ draw.value > Connector(r).max_current.value)

ElectricalErrors ==
    UNION {LET kind == components[c].kind
           IN  Code("E1302", \E r \in ResourcesOf(c) : ~DomainFits(kind, r))
                \cup Code("E1315", \E r \in ResourcesOf(c) : ~BusFits(kind, r))
                \cup CurrentErrors(c) :
           c \in DOMAIN components}

ValidateElectrical ==
    /\ Validate("electrical_validation", ElectricalErrors, "safety_validation")
    /\ UNCHANGED resolverVars

-----------------------------------------------------------------------------
(* Phase 10: safety validation.                                              *)

Policies == Payload(doc.profile)

Covered(component) == components[component].kind \in DOMAIN Policies

Policy(component) == Policies[components[component].kind]

Delegates(component) ==
    ResourcesOf(component) = {} /\ Attribute(component, "driver") # None

\* safety_target_resources: what a component's safety policy governs - its
\* own connectors or, without any, those of its driver.
SafetyTargets(component) ==
    IF Delegates(component)
    THEN ResourcesOf(Attribute(component, "driver"))
    ELSE ResourcesOf(component)

\* A driver that holds anything but driver sockets cannot be delegated to.
DriverMisfit(component) ==
    /\ Delegates(component)
    /\ \/ Attribute(component, "driver") = ""
       \/ \E r \in SafetyTargets(component) : Connector(r).kind # Socket

SensorKinds == {"analog_input", "digital_input"}

\* The inputs a component's sensor holds on a controller.
SensorInputs(component, controller) ==
    {r \in ResourcesOf(Attribute(component, "sensor")) :
        Connector(r).kind \in SensorKinds /\ r[1] = controller}

\* A mistake to detect: a sensor on any controller does.
SensorErrorsAnywhere(component) ==
    LET sensor == Attribute(component, "sensor")
    IN  IF sensor \in {None, ""} THEN {"E1502"}
        ELSE IF ResourcesOf(sensor) = {} THEN {"E1503"}
        ELSE Code("E1507", \A r \in ResourcesOf(sensor) :
                                Connector(r).kind \notin SensorKinds)

SensorErrors(component) ==
    LET sensor == Attribute(component, "sensor")
    IN  IF sensor \in {None, ""} THEN {"E1502"}
        ELSE IF ResourcesOf(sensor) = {} THEN {"E1503"}
        ELSE IF \A r \in ResourcesOf(sensor) : Connector(r).kind \notin SensorKinds
        THEN {"E1507"}
        ELSE Code("E1504", \E r \in SafetyTargets(component) :
                                SensorInputs(component, r[1]) = {})

\* Drives a power output, or an actuator through a driver.
Hazardous(component) ==
    \/ \E r \in ResourcesOf(component) : Connector(r).kind = "power_output"
    \/ Delegates(component)

ComponentSafetyErrors(component) ==
    IF DriverMisfit(component) THEN {"E1506"}
    ELSE IF ~Covered(component) THEN Code("E1501", Hazardous(component))
    ELSE IF SafetyTargets(component) = {} THEN {"E1505"}
    ELSE IF Policy(component).requires_sensor THEN SensorErrors(component)
    ELSE {}

SafetyErrors ==
    IF select(doc.profile) = None THEN {"E1500"}
    ELSE IF ~Readable(doc.profile, "safety-profile")
    THEN PayloadErrors(PackageAt(doc.profile), "safety-profile")
    ELSE UNION {ComponentSafetyErrors(c) : c \in DOMAIN components}

\* machine_supports_capability_family
Supported(family) ==
    \E c \in DOMAIN components :
        \/ Provides(components[c].kind, family)
        \/ family = "motion" /\ components[c].kind = "stepper_motor"

\* workflows::validate for one workflow; a capability and a call are their
\* family and their name.
WorkflowErrors(name) ==
    LET reference == doc.workflows[name]
        workflow == Payload(reference.package)
        lockable == {a.resource : a \in assignments}
                        \cup {<<c>> : c \in DOMAIN components}
                        \cup {<<c>> : c \in DOMAIN doc.controllers}
    IN  IF select(reference.package) = None THEN {"E1700"}
        ELSE IF ~Readable(reference.package, "workflow")
        THEN PayloadErrors(PackageAt(reference.package), "workflow")
        ELSE Code("E1701", ~ (reference.parameters \subseteq workflow.parameters))
            \cup Code("E1702", \E c \in workflow.capabilities : ~Supported(c[1]))
            \cup Code("E1703", ~ (workflow.locks \subseteq lockable))
            \cup Code("E1704", \E call \in workflow.steps :
                    call \notin workflow.capabilities /\ ~Supported(call[1]))

ValidateSafety ==
    /\ Validate("safety_validation",
            SafetyErrors \cup UNION {WorkflowErrors(w) : w \in DOMAIN doc.workflows},
            "firmware_partitioning")
    /\ UNCHANGED resolverVars

-----------------------------------------------------------------------------
(* Phase 11: firmware partitioning.                                          *)

\* The first component in order to govern a resource binds it.
Governors(resource) ==
    {c \in DOMAIN components : Covered(c) /\ resource \in SafetyTargets(c)}

FirstGovernor(resource) ==
    {c \in Governors(resource) :
        \A d \in Governors(resource) \ {c} : Precedes(c, d)}

SafetyBinding(component, resource) ==
    [component |-> component,
     class |-> components[component].kind,
     resource |-> resource,
     state |-> Policy(component).safe_state,
     heartbeat_timeout |-> Policy(component).heartbeat_timeout,
     sensor |->
        IF Policy(component).requires_sensor
            /\ SensorInputs(component, resource[1]) # {}
        THEN CHOOSE r \in SensorInputs(component, resource[1]) : TRUE
        ELSE None]

GovernedResources ==
    UNION {SafetyTargets(c) : c \in {d \in DOMAIN components : Covered(d)}}

PartitionFirmware ==
    /\ Validate("firmware_partitioning",
            Code("E1508", \E r \in GovernedResources :
                            \E c, d \in Governors(r) : c # d),
            "artifact_planning")
    /\ controller_safety' =
            UNION {{SafetyBinding(c, r) : c \in FirstGovernor(r)} :
                    r \in GovernedResources}
    /\ UNCHANGED controller_build_plans

-----------------------------------------------------------------------------
(* Phase 12: artifact planning.                                              *)

PlanErrors(controller) ==
    LET chip == Chip(controller)
    IN  IF chip = None THEN {"E1600"}
        ELSE IF None \in {chip.memory, chip.boot, chip.firmware} THEN {"E1600"}
        ELSE Code("E1602", doc.controllers[controller].board \notin DOMAIN chosen)

\* A package at the version selected for it.
Exactly(path) == [path |-> path, version |-> select(path)]

BuildPlan(controller) ==
    LET chip == Chip(controller)
    IN  [board |-> Exactly(doc.controllers[controller].board),
         chip |-> Exactly(Board(controller).chip),
         flash_bytes |-> chip.memory.flash_bytes,
         ram_bytes |-> chip.memory.ram_bytes,
         bootloader_offset_bytes |-> chip.boot,
         toolchain |-> chip.firmware.toolchain,
         abi_version |-> chip.firmware.abi_version,
         features |-> chip.firmware.features,
         native_drivers |->
            {Exactly(DevicePath(components[c].kind)) :
                c \in {d \in DOMAIN components :
                        /\ HasDevice(components[d].kind)
                        /\ \E r \in ResourcesOf(d) : r[1] = controller}}]

PlanArtifacts ==
    /\ Validate("artifact_planning",
            UNION {PlanErrors(c) : c \in DOMAIN doc.controllers},
            "resolved")
    /\ controller_build_plans' =
            [c \in {d \in DOMAIN doc.controllers : PlanErrors(d) = {}} |->
                BuildPlan(c)]
    /\ UNCHANGED controller_safety

-----------------------------------------------------------------------------

Init ==
    /\ SelectionInit
    /\ AllocationInit
    /\ controller_safety = {}
    /\ controller_build_plans = << >>

Select ==
    /\ SelectionNext
    /\ UNCHANGED <<allocationVars, resolverVars>>

Allocate ==
    /\ AllocationNext
    /\ UNCHANGED resolverVars

Next ==
    \/ Select
    \/ Allocate
    \/ ValidateElectrical
    \/ ValidateSafety
    \/ PartitionFirmware
    \/ PlanArtifacts

Spec == Init /\ [][Next]_vars

-----------------------------------------------------------------------------

SocketsDriven ==
    {r \in {a.resource : a \in assignments} : Connector(r).kind = Socket}

\* The sockets whose step pins the chips say something of.
Stepped == {r \in SocketsDriven : "step" \in DOMAIN Capabilities(r)}

TimersSeparate ==
    /\ \A r \in Stepped : StepTimers(r) # {}
    /\ \A r, s \in Stepped : Timer(r) = Timer(s) => r = s

(* No connector is ever given twice, and under a declared step rate no two   *)
(* motors ever step from one timer channel, whether a connector was named in *)
(* the manifest or found by the search, which only the claims made in both   *)
(* passes together ensure (allocation::allocate).                            *)
HardwareExclusive ==
    /\ \A a, b \in assignments : a.resource = b.resource => a = b
    /\ (expanded # None /\ StepRateDeclared) => TimersSeparate

\* The bindings that put a resource into a safe state.
Bindings(resource) == {b \in controller_safety : b.resource = resource}

\* What a component can make move or heat: the power outputs it holds, and
\* the sockets of the driver it delegates to.
Hazards(component) ==
    {r \in ResourcesOf(component) : Connector(r).kind = "power_output"}
        \cup (IF Delegates(component) THEN SafetyTargets(component) ELSE {})

(* In a resolved machine whatever can heat or move has one safe state on its *)
(* own controller, bound for the component that uses it; and where its class *)
(* demands a sensor, that binding watches an input that the component's own  *)
(* sensor holds on that very controller, so that it can act alone when the   *)
(* link is gone (safety::validate, safety::partition).                       *)
HazardsGuarded ==
    phase = "resolved" =>
        \A c \in DOMAIN components : \A r \in Hazards(c) :
            \E b \in controller_safety :
                /\ Bindings(r) = {b}
                /\ b.component = c
                /\ b.state = Policy(c).safe_state
                /\ Policy(c).requires_sensor =>
                    /\ b.sensor \in ResourcesOf(Attribute(c, "sensor"))
                    /\ b.sensor[1] = r[1]
                    /\ Connector(b.sensor).kind \in SensorKinds
=============================================================================
