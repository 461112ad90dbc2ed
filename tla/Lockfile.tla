------------------------------ MODULE Lockfile ------------------------------
(* machine.lock: the exact packages, resources, safety states and firmware   *)
(* inputs of a resolved machine, and what every reader and writer of a lock  *)
(* checks.  Locks of versions 1 to 4 lack the parts added later.             *)
EXTENDS MachineDocuments

\* The package ids are pairs of a path and a version, and content stands for
\* both hashes of a package.
PinnedIds(lock) == {[path |-> p.path, version |-> p.version] : p \in lock.packages}

\* What validate asks of a controller's safety states from version 3 on: one
\* per resource, on resources and with sensors the controller has.
ValidSafety(controller) ==
    LET ports == {controller.resolved_resources[k] :
                    k \in DOMAIN controller.resolved_resources}
    IN  /\ controller.safety # None
        /\ \A s \in controller.safety :
            /\ nonempty_unpadded(s.component) /\ nonempty_unpadded(s.class)
            /\ s.resource \in ports
            /\ s.sensor \in ports \cup {None}
            /\ s.heartbeat_timeout_us # 0
        /\ \A s, t \in controller.safety : s.resource = t.resource => s = t

\* A mistake to detect: the firmware inputs of a controller need no pins.
ValidBuildUnpinned(lock, controller) ==
    LET build == controller.build
    IN  /\ build # None
        /\ build.board.path = controller.board
        /\ build.bootloader_offset_bytes < build.flash_bytes

\* And of its firmware inputs from version 4 on: pinned and laid out.
ValidBuild(lock, controller) ==
    LET build == controller.build
    IN  /\ build # None
        /\ build.board.path = controller.board
        /\ {build.board, build.chip} \cup build.native_drivers \subseteq PinnedIds(lock)
        /\ nonempty_unpadded(build.toolchain)
        /\ build.abi_version \in Interfaces
        /\ build.flash_bytes > 0
        /\ build.ram_bytes > 0
        /\ build.bootloader_offset_bytes < build.flash_bytes
        /\ \A f \in build.features : valid_identifier(f)

Controllers(lock) ==
    {lock.controllers[c] : c \in DOMAIN lock.controllers}

validate(lock) ==
    /\ lock.lock_version >= 2 =>
        None \notin {p.content : p \in lock.packages \cup {lock.safety_profile}}
    /\ lock.lock_version >= 3 =>
        \A c \in Controllers(lock) : ValidSafety(c)
    /\ lock.lock_version >= 4 =>
        \A c \in Controllers(lock) : ValidBuild(lock, c)
    /\ lock.lock_version >= 5 => lock.registry_source # None
=============================================================================
