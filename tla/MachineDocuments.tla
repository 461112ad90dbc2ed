-------------------------- MODULE MachineDocuments --------------------------
(* The documents a machine is resolved from: the machine manifest and the    *)
(* payloads of the package kinds.  A diagnostic is its code; where a         *)
(* document is at fault, the operators return the codes the code reports.    *)
(*                                                                           *)
(* A reference "namespace/name" is the pair <<namespace, name>> and a        *)
(* resource "controller.port" the pair <<controller, port>>; a text without  *)
(* the separator is a sequence of one.  A quantity is its canonical value    *)
(* and its dimension, and a text that does not parse has dimension Unparsed. *)
(* Attributes hold only the values that are strings.                         *)
EXTENDS Integers, Sequences, FiniteSets

CONSTANTS
    Identifiers,   \* the texts valid_identifier accepts
    Interfaces,    \* the texts versioned_interface accepts
    None           \* an absent value

\* No resource of named parts is absent.
ASSUME NoneAssumption == None \notin Identifiers \X Identifiers

Unparsed == "unparsed"

\* The set holding code when broken is true.
Code(code, broken) == IF broken THEN {code} ELSE {}

valid_identifier(text) == text \in Identifiers

valid_package_ref_name(ref) ==
    Len(ref) = 2 /\ \A i \in 1..2 : valid_identifier(ref[i])

\* Quantity::parse and Quantity::parse_as succeed.
Parses(quantity) == quantity.dimension # Unparsed
ParsesAs(quantity, dimension) == quantity.dimension = dimension

\* An optional quantity is absent or has the dimension.
AbsentOr(quantity, dimension) ==
    quantity # None => ParsesAs(quantity, dimension)

-----------------------------------------------------------------------------
(* The machine manifest.                                                     *)

ClaimAttributes == {"connected_to", "output", "input"}

expected_limit_dimension(limit) ==
    CASE limit \in {"max_velocity", "max_z_velocity"} -> "velocity"
      [] limit = "max_acceleration" -> "acceleration"
      [] limit = "max_step_rate" -> "frequency"
      [] OTHER -> None

LimitParses(limit, value) ==
    IF expected_limit_dimension(limit) = None
    THEN Parses(value)
    ELSE ParsesAs(value, expected_limit_dimension(limit))

\* The errors of a reference to a controller's port.
PortErrors(doc, target) ==
    IF Len(target) # 2
    THEN {"E0503"}
    ELSE Code("E0502", target[1] \notin DOMAIN doc.controllers)

\* The errors of one attribute of one component.
AttributeErrors(doc, attribute, target) ==
    CASE attribute \in {"driver", "sensor"} ->
            Code("E0501", target \notin DOMAIN doc.components)
      [] attribute \in ClaimAttributes -> PortErrors(doc, target)
      [] OTHER -> {}

\* The errors of one component's references.
ComponentErrors(doc, component) ==
    LET attributes == doc.components[component].attributes
    IN  UNION {AttributeErrors(doc, a, attributes[a]) : a \in DOMAIN attributes}

\* validate: everything the parser holds against a manifest.
ManifestErrors(doc) ==
    LET names == DOMAIN doc.controllers \cup DOMAIN doc.components
                    \cup DOMAIN doc.workflows
        references == {doc.workflows[w].package : w \in DOMAIN doc.workflows}
                        \cup {doc.packages[i].path : i \in DOMAIN doc.packages}
        parents == {doc.controllers[c].transport.parent :
                        c \in DOMAIN doc.controllers} \ {None}
    IN  Code("E0200", doc.api_version # "dryer.machine/v0.1")
        \cup Code("E0201", doc.kind # "Machine")
        \cup Code("E0202", doc.controllers = << >>)
        \cup Code("E0300", \E n \in names : ~valid_identifier(n))
        \cup Code("E0500", \E r \in references : ~valid_package_ref_name(r))
        \cup Code("E0400", \E l \in DOMAIN doc.limits :
                                ~LimitParses(l, doc.limits[l]))
        \cup UNION ({ComponentErrors(doc, c) : c \in DOMAIN doc.components}
                        \cup {PortErrors(doc, p) : p \in parents})

-----------------------------------------------------------------------------
(* The payloads of the packages, as each kind's reader accepts or refuses    *)
(* them.                                                                     *)

nonempty_unpadded(text) == text \notin {"", " padded"}

\* validate_flash
FlashErrors(flash) ==
    LET methods == {flash.methods[m] : m \in DOMAIN flash.methods}
    IN  Code("E0615", \E m \in DOMAIN flash.methods \cup {flash.default_method} :
                            ~valid_identifier(m))
        \cup Code("E0616", flash.default_method \notin DOMAIN flash.methods)
        \cup Code("E0617", \E m \in methods : m.transport # "usb")
        \cup Code("E0618", \E m \in methods : m.verify # "sha256")
        \cup Code("E0619", \E m \in methods :
                \/ "" \in {m.select[f] :
                        f \in {"serial_number", "manufacturer", "product"}}
                \/ m.recovery = << >>)

\* board_payload
BoardErrors(board) ==
    LET connectors == {board.connectors[c] : c \in DOMAIN board.connectors}
    IN  Code("E0613", \E c \in DOMAIN board.connectors : ~valid_identifier(c))
        \cup Code("E0614", \E c \in connectors :
                ~ (AbsentOr(c.max_current, "current")
                    /\ AbsentOr(c.pullup, "resistance")))
        \cup (IF board.flash = None THEN {} ELSE FlashErrors(board.flash))

\* A pin function is a peripheral instance of a family ("spi", 1 for spi1)
\* and what the pin does on it; buses are the spi, i2c and uart instances.
\* chip_payload
ChipErrors(chip) ==
    LET functions == UNION {{chip.pin_functions[p][i] :
                                i \in DOMAIN chip.pin_functions[p]} :
                            p \in DOMAIN chip.pin_functions}
        buses == {chip.buses[b] : b \in DOMAIN chip.buses}
        Time(q) == q # None => ParsesAs(q, "time") /\ q.value >= 0
    IN  Code("E0653", \E f \in functions :
                f.family # "gpio"
                /\ <<f.family, f.instance>> \notin chip.peripherals)
        \cup Code("E0654", \E b \in buses :
                ~AbsentOr(b.max_frequency, "frequency"))
        \cup Code("E0655", \E b \in buses : ~Time(b.worst_case_latency))
        \cup Code("E0656", \E b \in buses : ~Time(b.worst_case_jitter))
        \cup Code("E0658", \E d \in chip.dma_routes :
                <<d[1], d[2]>> \notin DOMAIN chip.buses)
        \cup (IF chip.memory = None THEN {} ELSE
                Code("E0659", ~ (chip.memory.flash_bytes > 0
                                    /\ chip.memory.ram_bytes > 0))
                \cup Code("E0660", chip.memory.flash_bytes > 0 /\ chip.boot # None
                        /\ chip.boot >= chip.memory.flash_bytes))
        \cup (IF chip.firmware = None THEN {} ELSE
                Code("E0661",
                    \/ ~nonempty_unpadded(chip.firmware.toolchain)
                    \/ chip.firmware.abi_version \notin Interfaces)
                \cup Code("E0662", \E f \in chip.firmware.features :
                                        ~valid_identifier(f)))

\* device_payload
DeviceErrors(device) ==
    IF device.bus = None THEN {} ELSE
        LET Time(q) == q # None => ParsesAs(q, "time") /\ q.value >= 0
        IN  Code("E0623", ~AbsentOr(device.bus.min_frequency, "frequency"))
            \cup Code("E0624", ~Time(device.bus.max_latency))
            \cup Code("E0625", ~Time(device.bus.max_jitter))
            \cup Code("E0626", \E s \in device.bus.dma_signals :
                                    ~valid_identifier(s))

\* safety_profile_payload: a timeout is a positive number of whole
\* microseconds, the unit quantities of time have here.
SafetyProfileErrors(profile) ==
    LET timeouts == {profile[k].heartbeat_timeout : k \in DOMAIN profile} \ {None}
    IN  Code("E0633", \E t \in timeouts : ~ParsesAs(t, "time"))
        \cup Code("E0634", \E t \in timeouts :
                ParsesAs(t, "time") /\ t.value <= 0)

\* workflow_payload: a call is absent, or its name and whether it is one.
WorkflowPackageErrors(workflow) ==
    Code("E0654", \E p \in workflow.parameters : ~valid_identifier(p))
    \cup Code("E0658", \E s \in workflow.steps : s = None)

\* What reading a package as one kind reports.
PayloadErrors(package, kind) ==
    IF package.kind # kind
    THEN {CASE kind = "board" -> "E0610" [] kind = "device" -> "E0620"
            [] kind = "safety-profile" -> "E0630" [] kind = "machine" -> "E0640"
            [] OTHER -> "E0650"}
    ELSE CASE kind = "board" -> BoardErrors(package.payload)
           [] kind = "chip" -> ChipErrors(package.payload)
           [] kind = "device" -> DeviceErrors(package.payload)
           [] kind = "safety-profile" -> SafetyProfileErrors(package.payload)
           [] kind = "workflow" -> WorkflowPackageErrors(package.payload)
           [] OTHER -> {}
=============================================================================
