------------------------------- MODULE MCFlash -------------------------------
(* One controller's board, whose package has two files, flashed while its    *)
(* package is edited, its artifact rebuilt and a second device plugged in.   *)
EXTENDS FlashExecutor

MCIdentifiers == {"main"}
MCInterfaces == {"abi1"}

Id(name) == [path |-> name, version |-> 1]

Package(name, tree_) == [path |-> name, version |-> 1, content |-> tree_]

LockedTree == <<"flash", "flash">>

Build ==
    [board |-> Id("board"), chip |-> Id("chip"), native_drivers |-> {},
     toolchain |-> "gcc", abi_version |-> "abi1", flash_bytes |-> 512,
     ram_bytes |-> 128, bootloader_offset_bytes |-> 32, features |-> {}]

Hotend ==
    [component |-> "hot", class |-> "hotend", resource |-> "h0", state |-> "off",
     heartbeat_timeout_us |-> 1, sensor |-> "t0"]

Lock(version, safety_) ==
    [lock_version |-> version, registry_source |-> "local",
     packages |-> {Package("board", LockedTree), Package("chip", LockedTree)},
     safety_profile |-> Package("std", LockedTree),
     controllers |->
        [main |->
            [board |-> "board", safety |-> safety_, build |-> Build,
             resolved_resources |-> [hot |-> "h0", therm |-> "t0"]]]]

Good == Lock(5, {Hotend})
Stale == Lock(5, {})

Request(lock) ==
    [lock |-> lock, controller |-> "main",
     build_plan |-> build_controller(lock, "main"),
     registry_source |-> "local", available |-> TRUE,
     expected_current_firmware |-> "v1", signature |-> None,
     artifact |-> <<"given">>]

Usual == Request(Good)

MCRequests ==
    {Usual,
     [Usual EXCEPT !.artifact = Usual.build_plan.expected_artifact.path,
                   !.signature = "signed"],
     Request(Lock(5, {[Hotend EXCEPT !.sensor = "t1"]})),
     Request(Lock(3, {Hotend})),
     Request([Good EXCEPT !.packages = @ \cup {[Package("board", LockedTree)
                                                EXCEPT !.version = 2]}]),
     [Usual EXCEPT !.registry_source = "other"],
     [Usual EXCEPT !.expected_current_firmware = " padded"],
     [Usual EXCEPT !.signature = ""],
     [Usual EXCEPT !.controller = "tool"],
     [Usual EXCEPT !.build_plan = build_controller(Stale, "main")],
     [Usual EXCEPT !.available = FALSE]}

MCImages ==
    {controller_image_manifest(Good, "main"), controller_image_manifest(Stale, "main")}

MCBoards(content) ==
    LET Recipe(method, product) ==
            [error |-> None, method |-> method,
             select |-> [usb_id |-> "dfu", serial_number |-> None,
                         product |-> product]]
    IN  CASE content = "flash" -> Recipe("dfu_util", "mainboard")
          [] content = "loose" -> Recipe("picotool", None)
          [] content = "serial" -> Recipe("stm32flash", "mainboard")
          [] content = "unknown" -> Recipe("avrdude", "mainboard")
          [] OTHER -> [error |-> "MissingFlashMetadata"]

Device(product, location, addressed) ==
    [usb_id |-> "dfu", serial_number |-> None, product |-> product,
     location |-> location, addressed |-> addressed, serial_port |-> FALSE]

MCDevices == {Device("mainboard", 1, TRUE), Device("toolboard", 2, FALSE)}
=============================================================================
