-------------------------- MODULE MCMachineResolver --------------------------
(* A printer on one or two controllers and the packages it is built from,    *)
(* each varied where the resolution takes another way.                       *)
EXTENDS MachineLock

MCIdentifiers ==
    {"main", "tool", "xdrv", "ydrv", "xmot", "ymot", "hot", "therm", "fan", "print",
     "b", "s", "w", "m", "c", "devices", "board", "std", "job", "class",
     "chip", "core", "tmc", "usb0", "s0", "s1", "h0", "h1", "t0", "rx", "speed"}

MCInterfaces == {"abi1"}

Names ==
    <<"a", "b", "c", "chip", "connected_to", "devices", "dir", "fan", "h0", "h1",
      "hot", "input", "m", "main", "output", "s0", "s1", "step", "t0", "therm",
      "tmc", "tool", "w", "xdrv", "xmot", "ydrv", "ymot", "z">>

Position == [n \in {Names[i] : i \in DOMAIN Names} |->
                CHOOSE i \in DOMAIN Names : Names[i] = n]

MCPrecedes(a, b) == Position[a] < Position[b]

MCProvides(kind, family) == kind = family

Amount(value, dimension) == [value |-> value, dimension |-> dimension]

BoardPath == <<"b", "board">>
ChipPath == <<"c", "chip">>
CorePath == <<"c", "core">>
ProfilePath == <<"s", "std">>
JobPath == <<"w", "job">>
ClassPath == <<"m", "class">>

-----------------------------------------------------------------------------
(* The manifests: where the two drivers are claimed or left to the search,   *)
(* where the hotend's sensor is, whether the motors share a driver, how many *)
(* controllers there are, and whether a step rate is declared.               *)

Boards(two) ==
    LET one == [board |-> BoardPath, transport |-> [kind |-> "usb", parent |-> None]]
        second == [one EXCEPT !.transport.parent = <<"main", "usb0">>]
    IN  IF two THEN [main |-> one, tool |-> second] ELSE [main |-> one]

Driver(claim) ==
    [kind |-> "tmc",
     attributes |-> CASE claim = "any" -> << >>
                      [] claim = "on tool" -> [controller |-> "tool"]
                      [] OTHER -> [connected_to |-> <<"main", claim>>]]

Motor(driver) == [kind |-> "stepper_motor", attributes |-> [driver |-> driver]]

Printer(x, y, thermistor, driver) ==
    [xdrv |-> Driver(x), ydrv |-> Driver(y),
     xmot |-> Motor(driver), ymot |-> Motor("ydrv"),
     hot |-> [kind |-> "hotend",
              attributes |-> [output |-> <<"main", "h0">>, sensor |-> "therm",
                              current |-> Amount(5, "current")]],
     therm |-> [kind |-> "thermistor",
                attributes |-> [input |-> <<thermistor, "t0">>]]]

Manifest(components_, two, rate, pinned) ==
    [api_version |-> "dryer.machine/v0.1", kind |-> "Machine",
     packages |-> pinned, controllers |-> Boards(two),
     components |-> components_,
     limits |-> IF rate THEN [max_step_rate |-> Amount(10, "frequency")] ELSE << >>,
     profile |-> ProfilePath,
     workflows |-> [print |-> [package |-> JobPath, parameters |-> {"speed"}]]]

PinDevice == [path |-> DevicePath("tmc"), version |-> 1]
PinClass == <<PinDevice, [path |-> ClassPath, version |-> 1]>>
PinChip(version) == <<PinDevice, [path |-> ChipPath, version |-> version]>>

Plain == Manifest(Printer("s0", "s1", "main", "xdrv"), TRUE, FALSE, <<PinDevice>>)

MCDocuments ==
    {Manifest(Printer(x, y, thermistor, driver), two, rate, PinClass) :
        x \in {"s0", "any"}, y \in {"s0", "any", "on tool"},
        thermistor \in {"main", "tool"}, driver \in {"xdrv", "ydrv"},
        two \in BOOLEAN, rate \in BOOLEAN}
    \cup {Plain,
          [Plain EXCEPT !.packages = PinChip(1)],
          [Plain EXCEPT !.packages = PinChip(3)],
          [Plain EXCEPT !.packages = << >>],
          [Plain EXCEPT !.components.hot.attributes =
                [output |-> <<"main", "h0">>, input |-> <<"main", "t0">>,
                 sensor |-> "hot"],
                !.components.therm.attributes = << >>],
          [Plain EXCEPT !.profile = <<"s", "none">>],
          [Plain EXCEPT !.components.hot.attributes.current = Amount(9, "current")],
          [Plain EXCEPT !.components.therm.kind = "hotend"],
          [Plain EXCEPT !.workflows.print.parameters = {"other"}]}

-----------------------------------------------------------------------------
(* The registries: the timers of the second socket, the safety policy of the *)
(* hotend, the template of the machine's class, and what a chip version      *)
(* depends on.                                                               *)

Package(kind, dependencies, payload) ==
    [kind |-> kind, dependencies |-> dependencies, payload |-> payload]

Board1 ==
    LET Plug(kind, pins_, domain, limit) ==
            [kind |-> kind, pins |-> pins_, voltage_domain |-> domain,
             max_current |-> limit, pullup |-> None]
    IN  [chip |-> ChipPath, transports |-> {"usb"}, flash |-> None,
         connectors |->
            [s0 |-> Plug(Socket, [step |-> "P0", dir |-> "P2"], "24v", None),
             s1 |-> Plug(Socket, [step |-> "P1", dir |-> "P3"], "24v", None),
             h0 |-> Plug("power_output", [step |-> "P4"], "24v", Amount(8, "current")),
             h1 |-> Plug("power_output", [step |-> "P5"], "12v", None),
             t0 |-> Plug("analog_input", [step |-> "P6"], "3v3", None)]]

Function(family, instance) == [family |-> family, instance |-> instance]

ChipWith(second) ==
    [pin_functions |->
        [P0 |-> <<Function("gpio", 0), Function("tim", 1)>>, P1 |-> second,
         P2 |-> <<Function("spi", 1)>>, P3 |-> <<Function("spi", 1)>>,
         P4 |-> << >>, P5 |-> << >>, P6 |-> << >>],
     peripherals |-> {<<"tim", 1>>, <<"tim", 2>>, <<"spi", 1>>},
     buses |-> [b \in {<<"spi", 1>>} |->
        [max_frequency |-> Amount(8, "frequency"),
         worst_case_latency |-> Amount(2, "time"), worst_case_jitter |-> None]],
     dma_routes |-> {<<"spi", 1, "rx">>},
     memory |-> [flash_bytes |-> 512, ram_bytes |-> 128], boot |-> 32,
     firmware |-> [toolchain |-> "gcc", abi_version |-> "abi1", features |-> {"usb0"}]]

Stepper ==
    [connector |-> Socket, domains |-> {"24v"},
     bus |-> [kind |-> "spi", min_frequency |-> Amount(4, "frequency"),
              max_latency |-> Amount(3, "time"), max_jitter |-> None,
              dma_signals |-> {"rx"}]]

Profile(sensed) ==
    LET Class(requires_sensor) ==
            [safe_state |-> "off", heartbeat_timeout |-> Amount(1, "time"),
             requires_sensor |-> requires_sensor]
    IN  [hotend |-> Class(sensed), fan |-> Class(FALSE),
         stepper_motor |-> [Class(FALSE) EXCEPT !.safe_state = "disabled"]]

Job ==
    [parameters |-> {"speed"}, capabilities |-> {<<"motion", "home">>},
     locks |-> {<<"hot">>, <<"main">>, <<"main", "h0">>},
     steps |-> {<<"motion", "home">>, <<"hotend", "set">>}]

Template(fan, rate) ==
    [components |->
        IF fan = None THEN << >>
        ELSE [fan |-> [kind |-> "fan", attributes |-> [output |-> <<"main", fan>>]]],
     limits |-> IF rate = None THEN << >> ELSE [max_step_rate |-> rate]]

\* Requires with no dependency on a core leaves the chip to its versions.
Registry(second, sensed, fan, rate, chips) ==
    LET core == [p \in {CorePath} |-> {1}]
        Chip_(dependencies) == Package("chip", dependencies, ChipWith(second))
        chip == IF chips = "steady" THEN << >> ELSE core
        back == [p \in {ChipPath} |-> IF chips = "oscillating" THEN {1} ELSE {3}]
    IN  [source |-> "local",
         packages |->
            [p \in {BoardPath, ChipPath, CorePath, ProfilePath, JobPath, ClassPath,
                    DevicePath("tmc")} |->
                CASE p = BoardPath ->
                        <<Package("board", [q \in {ChipPath} |-> {2}], Board1),
                          Package("board", [q \in {ChipPath} |-> {1, 2}], Board1)>>
                  [] p = ChipPath -> <<Chip_(<< >>), Chip_(chip)>>
                  [] p = CorePath -> <<Package("chip", back, ChipWith(second))>>
                  [] p = ProfilePath ->
                        <<Package("safety-profile", << >>, Profile(sensed))>>
                  [] p = JobPath -> <<Package("workflow", << >>, Job)>>
                  [] p = ClassPath -> <<Package("machine", << >>, Template(fan, rate))>>
                  [] OTHER -> <<Package("device", << >>, Stepper)>>]]

SecondTimers ==
    {<<Function("tim", 1), Function("tim", 2)>>, <<Function("tim", 2)>>,
     <<Function("gpio", 0)>>}

Steady == Registry(<<Function("tim", 2)>>, TRUE, "h1", None, "steady")

MCRegistries ==
    {Registry(second, sensed, fan, None, "steady") :
        second \in SecondTimers, sensed \in BOOLEAN, fan \in {None, "h0", "h1"}}
    \cup {Registry(second, TRUE, "h1", rate, "steady") :
            second \in SecondTimers,
            rate \in {Amount(300, "frequency"), Amount(300, "length")}}
    \cup {Registry(<<Function("tim", 2)>>, TRUE, "h1", None, "oscillating"),
          Registry(<<Function("tim", 2)>>, TRUE, "h1", None, "conflicting"),
          [Steady EXCEPT !.packages[ChipPath][2].payload.memory = None],
          [Steady EXCEPT !.packages[ProfilePath][1].payload =
                [fan |-> Profile(TRUE).fan]],
          [Steady EXCEPT !.packages[DevicePath("tmc")][1].payload.bus.min_frequency =
                Amount(9, "frequency")],
          [Steady EXCEPT !.packages[DevicePath("tmc")][1].payload.bus.dma_signals =
                {"r x"}],
          [Steady EXCEPT !.source = None],
          [Steady EXCEPT !.packages[BoardPath][2].dependencies = << >>],
          [Steady EXCEPT !.packages[BoardPath][2].dependencies =
                [q \in {ChipPath} |-> None]],
          [Steady EXCEPT !.packages[JobPath][1].payload.locks = {<<"main", "h9">>}]}
=============================================================================
