------------------------ MODULE ConnectorAllocation ------------------------
(* Phases 4 to 7 of a resolution: reading the boards and chips of the        *)
(* controllers, expanding the machine by the templates of its class, and     *)
(* giving components connectors - first those they name, then, for devices   *)
(* that require one, the first free connector that suits.  Claims made       *)
(* earlier narrow what later ones may have.                                  *)
EXTENDS PackageSelection, SequencesExt

CONSTANT Precedes(_, _)   \* the order of names, in which maps are walked

VARIABLES
    expanded,       \* the manifest with its templates
    pending,        \* what is still to be placed
    claims,         \* the connectors taken
    timer_claims,   \* the timer channels reserved
    assignments     \* what was given to whom

allocationVars == <<expanded, pending, claims, timer_claims, assignments>>

\* A map's names as its iteration meets them.
InOrder(names) ==
    [i \in 1..Cardinality(names) |->
        CHOOSE n \in names : Cardinality({m \in names : Precedes(m, n)}) = i - 1]

-----------------------------------------------------------------------------
(* Phase 4: controller targets.                                              *)

Board(controller) == Payload(doc.controllers[controller].board)

\* The chip's payload; None for a board that names none.
Chip(controller) ==
    IF Board(controller).chip = None THEN None
    ELSE Payload(Board(controller).chip)

WiredPins(board) ==
    UNION {{board.connectors[c].pins[s] : s \in DOMAIN board.connectors[c].pins} :
            c \in DOMAIN board.connectors}

ChipTargetErrors(board) ==
    IF board.chip = None THEN {}
    ELSE IF select(board.chip) = None THEN {"E1313"}
    ELSE PayloadErrors(PackageAt(board.chip), "chip")
        \cup Code("E1312",
                /\ Readable(board.chip, "chip")
                /\ Payload(board.chip).pin_functions # << >>
                /\ ~ (WiredPins(board)
                        \subseteq DOMAIN Payload(board.chip).pin_functions))

TargetErrors(controller) ==
    LET ref == doc.controllers[controller].board
    IN  IF Len(ref) # 2 THEN {"E1110"}
        ELSE IF select(ref) = None THEN {"E1111"}
        ELSE IF ~Readable(ref, "board") THEN PayloadErrors(PackageAt(ref), "board")
        ELSE Code("E1120", doc.controllers[controller].transport.kind
                                \notin Payload(ref).transports)
                \cup ChipTargetErrors(Payload(ref))

\* A chip outside the closure is only warned about.
TargetWarnings ==
    Code("E1311", \E c \in DOMAIN doc.controllers :
                    /\ TargetErrors(c) = {}
                    /\ Board(c).chip \notin DOMAIN chosen \cup {None})

LoadTargets ==
    /\ phase = "package_loading"
    /\ Proceed(UNION {TargetErrors(c) : c \in DOMAIN doc.controllers},
               "graph_expansion")
    /\ warnings' = warnings \cup TargetWarnings
    /\ UNCHANGED <<doc, registry, chosen, constraints, round>>
    /\ UNCHANGED allocationVars

-----------------------------------------------------------------------------
(* Phase 5: graph expansion.                                                 *)

Templates ==
    {p \in DOMAIN chosen : PackageAt(p).kind = "machine" /\ Payload(p) # None}

PathPrecedes(p, q) ==
    Precedes(p[1], q[1]) \/ (p[1] = q[1] /\ Precedes(p[2], q[2]))

\* Of the templates that contribute a name the first one counts.
FirstTemplate(templates) ==
    CHOOSE p \in templates : \A q \in templates \ {p} : PathPrecedes(p, q)

Contributed(field) ==
    UNION {DOMAIN Payload(p)[field] : p \in Templates}

\* What the machine declares shadows what templates contribute.
Shadowing(declared, field) ==
    [n \in DOMAIN declared \cup {m \in Contributed(field) :
                        field = "components" => valid_identifier(m)} |->
        IF n \in DOMAIN declared THEN declared[n]
        ELSE LET template ==
                    FirstTemplate({p \in Templates : n \in DOMAIN Payload(p)[field]})
             IN  Payload(template)[field][n]]

ExpansionErrors ==
    LET limits == Shadowing(doc.limits, "limits")
    IN  Code("E1131", \E n \in Contributed("components") : ~valid_identifier(n))
        \cup Code("E1134", \E l \in DOMAIN limits \ DOMAIN doc.limits :
                                ~Parses(limits[l]))

\* The attributes by which a component claims connectors.
ClaimsOf(components, c) ==
    DOMAIN components[c].attributes \cap ClaimAttributes

\* requirements::collect for one kind of component.
DevicePath(kind) == <<"devices", kind>>

HasDevice(kind) == Readable(DevicePath(kind), "device")

Device(kind) == Payload(DevicePath(kind))

\* The claim of a component that leaves the choice to the resolver.
Search == "requires.connector"

\* What the allocation will place: each claim of each component, and the
\* components without one whose device requires a connector.
Placements(components) ==
    LET searched == {c \in DOMAIN components :
                        /\ ClaimsOf(components, c) = {}
                        /\ HasDevice(components[c].kind)
                        /\ Device(components[c].kind).connector # None}
    IN  {<<c, Search>> : c \in searched}
        \cup UNION {{<<c, via>> : via \in ClaimsOf(components, c)} : c \in DOMAIN components}

\* The searches come after the claims, and each in the order of the maps.
PlacedBefore(p, q) ==
    \/ p[2] # Search /\ q[2] = Search
    \/ (p[2] = Search <=> q[2] = Search) /\ PathPrecedes(p, q)

ExpandGraph ==
    /\ phase = "graph_expansion"
    /\ Proceed(ExpansionErrors, "resource_allocation")
    /\ expanded' = [doc EXCEPT !.components = Shadowing(@, "components"),
                               !.limits = Shadowing(@, "limits")]
    /\ pending' = Placements(expanded'.components)
    /\ UNCHANGED <<doc, registry, chosen, constraints, round, warnings>>
    /\ UNCHANGED <<claims, timer_claims, assignments>>

-----------------------------------------------------------------------------
(* Phase 6: capabilities.                                                    *)

Connector(resource) == Board(resource[1]).connectors[resource[2]]

\* derive_pin_capabilities: for each signal of a connector the functions the
\* chip has on its pin; nothing without a chip or its table.
Capabilities(resource) ==
    LET chip == Chip(resource[1])
        pin == Connector(resource).pins
    IN  IF chip = None
        THEN << >>
        ELSE [s \in {s \in DOMAIN pin : pin[s] \in DOMAIN chip.pin_functions} |->
                chip.pin_functions[pin[s]]]

\* The metadata of a bus meets a requirement; silence never does.
AtLeast(declared, minimum) ==
    minimum # None => declared # None /\ declared.value >= minimum.value

AtMost(declared, maximum) ==
    maximum # None => declared # None /\ declared.value <= maximum.value

\* bus_satisfied: the first function of the bus family decides the instance.
BusSatisfied(resource, bus) ==
    LET capabilities == Capabilities(resource)
        signals == InOrder(DOMAIN capabilities)
        functions == FlattenSeq(
                        [i \in DOMAIN signals |-> capabilities[signals[i]]])
        matching == SelectSeq(functions, LAMBDA f : f.family = bus.kind)
        instance == <<matching[1].family, matching[1].instance>>
        chip == Chip(resource[1])
        metadata == chip.buses[instance]
    IN  /\ matching # << >>
        /\ \/ /\ {bus.min_frequency, bus.max_latency, bus.max_jitter} = {None}
              /\ bus.dma_signals = {}
           \/ /\ instance \in DOMAIN chip.buses
              /\ AtLeast(metadata.max_frequency, bus.min_frequency)
              /\ AtMost(metadata.worst_case_latency, bus.max_latency)
              /\ AtMost(metadata.worst_case_jitter, bus.max_jitter)
              /\ \A s \in bus.dma_signals : instance \o <<s>> \in chip.dma_routes

BusFits(kind, resource) ==
    HasDevice(kind) /\ Device(kind).bus # None
        => BusSatisfied(resource, Device(kind).bus)

\* The machine declares a step rate the checks of timers go by.
StepRateDeclared ==
    /\ "max_step_rate" \in DOMAIN expanded.limits
    /\ ParsesAs(expanded.limits["max_step_rate"], "frequency")

Socket == "stepper_driver_socket"

\* A claim for a connector kind needs a timer on the step pin.
NeedsTimer(resource, kind) ==
    StepRateDeclared /\ kind = Socket /\ "step" \in DOMAIN Capabilities(resource)

\* The functions of the step pin that are timers, by their place.
StepTimers(resource) ==
    LET functions == Capabilities(resource)["step"]
    IN  {i \in DOMAIN functions : functions[i].family = "tim"}

\* The channel a socket takes: the first timer function of its step pin.
Timer(resource) ==
    LET first == CHOOSE i \in StepTimers(resource) :
                    \A j \in StepTimers(resource) : i <= j
    IN  <<resource[1], Capabilities(resource)["step"][first]>>

TimerFree(resource, kind) ==
    NeedsTimer(resource, kind) =>
        StepTimers(resource) # {} /\ Timer(resource) \notin timer_claims

-----------------------------------------------------------------------------
(* Phase 7: allocation.                                                      *)

\* claim_kind
claim_kind(attribute) ==
    CASE attribute = "connected_to" -> Socket
      [] attribute = "output" -> "power_output"
      [] attribute = "input" -> "analog_input"

\* The kind of connector a component needs: its device decides.
ExpectedKind(component, via) ==
    LET kind == expanded.components[component].kind
    IN  IF HasDevice(kind) /\ Device(kind).connector # None
        THEN Device(kind).connector
        ELSE claim_kind(via)

NamesConnector(target) ==
    \E c \in DOMAIN doc.controllers : \E port \in DOMAIN Board(c).connectors :
        target = <<c, port>>

\* An explicit claim is accepted.
Claimable(component, via, target) ==
    /\ NamesConnector(target)
    /\ Connector(target).kind = ExpectedKind(component, via)
    /\ target \notin claims
    /\ BusFits(expanded.components[component].kind, target)
    /\ TimerFree(target, ExpectedKind(component, via))

\* The controller a component without a claim is placed on, or None.
SearchedController(component) ==
    LET attributes == expanded.components[component].attributes
    IN  IF "controller" \in DOMAIN attributes
        THEN attributes["controller"]
        ELSE IF Cardinality(DOMAIN doc.controllers) = 1
             THEN CHOOSE c \in DOMAIN doc.controllers : TRUE
             ELSE None

DomainFits(kind, resource) ==
    HasDevice(kind) /\ Device(kind).domains # {}
        => Connector(resource).voltage_domain \in Device(kind).domains

\* The connectors the search may choose.
Eligible(component) ==
    LET controller == SearchedController(component)
        kind == expanded.components[component].kind
    IN  IF controller \notin DOMAIN doc.controllers THEN {} ELSE
        {port \in DOMAIN Board(controller).connectors :
            LET resource == <<controller, port>>
            IN  /\ Connector(resource).kind = Device(kind).connector
                /\ resource \notin claims
                /\ DomainFits(kind, resource)
                /\ TimerFree(resource, Device(kind).connector)
                /\ BusFits(kind, resource)}

\* A mistake to detect: a socket the search finds reserves no timer.
GrantUnreserved(component, via, resource, kind) ==
    /\ claims' = claims \cup {resource}
    /\ timer_claims' = timer_claims \cup
            (IF via # Search /\ NeedsTimer(resource, kind)
             THEN {Timer(resource)} ELSE {})
    /\ assignments' = assignments \cup
            {[component |-> component, via |-> via, resource |-> resource]}
    /\ UNCHANGED errors

Grant(component, via, resource, kind) ==
    /\ claims' = claims \cup {resource}
    /\ timer_claims' = timer_claims \cup
            (IF NeedsTimer(resource, kind) THEN {Timer(resource)} ELSE {})
    /\ assignments' = assignments \cup
            {[component |-> component, via |-> via, resource |-> resource]}
    /\ UNCHANGED errors

\* A claim or a search that fails is reported and the next one is tried.
Refuse(code) ==
    /\ errors' = errors \cup {code}
    /\ UNCHANGED <<claims, timer_claims, assignments>>

\* The placement p is next.
PlaceNext(p) ==
    /\ phase = "resource_allocation"
    /\ \A q \in pending \ {p} : PlacedBefore(p, q)
    /\ pending' = pending \ {p}
    /\ UNCHANGED <<phase, doc, registry, chosen, constraints, round, warnings>>
    /\ UNCHANGED expanded

\* The connector a claim names.
Target(p) == expanded.components[p[1]].attributes[p[2]]

ClaimConnector ==
    \E p \in pending :
        /\ PlaceNext(p) /\ p[2] # Search
        /\ Claimable(p[1], p[2], Target(p))
        /\ Grant(p[1], p[2], Target(p), ExpectedKind(p[1], p[2]))

RefuseClaim ==
    \E p \in pending :
        /\ PlaceNext(p) /\ p[2] # Search
        /\ ~Claimable(p[1], p[2], Target(p))
        /\ Refuse("claim refused")

SearchConnector ==
    \E p \in pending :
        /\ PlaceNext(p) /\ p[2] = Search
        /\ \E port \in Eligible(p[1]) :
            /\ \A other \in Eligible(p[1]) \ {port} : Precedes(port, other)
            /\ LET resource == <<SearchedController(p[1]), port>>
               IN  Grant(p[1], Search, resource, Connector(resource).kind)

SearchFails ==
    \E p \in pending :
        /\ PlaceNext(p) /\ p[2] = Search
        /\ Eligible(p[1]) = {}
        /\ Refuse("no connector")

FinishAllocation ==
    /\ phase = "resource_allocation"
    /\ pending = {}
    /\ Proceed(errors, "electrical_validation")
    /\ UNCHANGED <<doc, registry, chosen, constraints, round, warnings>>
    /\ UNCHANGED allocationVars

AllocationNext ==
    \/ LoadTargets \/ ExpandGraph
    \/ ClaimConnector \/ RefuseClaim \/ SearchConnector \/ SearchFails
    \/ FinishAllocation

AllocationInit ==
    /\ expanded = None
    /\ pending = {}
    /\ claims = {}
    /\ timer_claims = {}
    /\ assignments = {}
=============================================================================
