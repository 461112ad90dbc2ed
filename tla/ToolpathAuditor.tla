--------------------------- MODULE ToolpathAuditor ---------------------------
(***************************************************************************)
(* The auditor of crates/toolpath-auditor/src/lib.rs: one pass over the    *)
(* commands of a job that collects diagnostics.  Positions stay far from   *)
(* the ends of i64, where the code saturates.                              *)
(***************************************************************************)
EXTENDS Integers, Sequences

CONSTANTS
    axes,                    \* for each limited axis its [min_um, max_um]
    max_feed_rate_um_s,      \* 0 when there is none
    heater_ceilings_milli_c  \* for each known heater its ceiling

\* An audit is [positions, diagnostics]; an axis that was not mentioned is at 0.
PositionOf(positions, axis) == IF axis \in DOMAIN positions THEN positions[axis] ELSE 0

Placed(positions, axis, position) ==
    [a \in DOMAIN positions \cup {axis} |-> IF a = axis THEN position ELSE positions[a]]

TooFast(rate_um_s) == max_feed_rate_um_s > 0 /\ rate_um_s > max_feed_rate_um_s

Diagnosed(audit, found, code, index) ==
    IF found THEN [audit EXCEPT !.diagnostics = Append(@, [code |-> code, command_index |-> index - 1])]
    ELSE audit

AuditHeater(audit, command, index) ==
    IF command.heater \notin DOMAIN heater_ceilings_milli_c
    THEN Diagnosed(audit, TRUE, "A004", index)
    ELSE Diagnosed(audit, command.target_milli_c > heater_ceilings_milli_c[command.heater],
                   "A003", index)

\* A mistake to detect: homing does not bring the axis to 0.
AuditHomeInPlace(audit, command, index) ==
    Diagnosed(audit, TooFast(command.rate_um_s), "A002", index)

AuditHome(audit, command, index) ==
    [Diagnosed(audit, TooFast(command.rate_um_s), "A002", index)
        EXCEPT !.positions = Placed(@, command.axis, 0)]

\* A mistake to detect: the rate of a move is not looked at.
AuditMoveAnyRate(audit, command, index) ==
    LET axis == command.axis
        new_pos == PositionOf(audit.positions, axis) + command.distance_um
        outside == axis \in DOMAIN axes /\ new_pos \notin axes[axis].min_um .. axes[axis].max_um
    IN  Diagnosed([audit EXCEPT !.positions = Placed(@, axis, new_pos)], outside, "A001", index)

AuditMove(audit, command, index) ==
    LET axis == command.axis
        new_pos == PositionOf(audit.positions, axis) + command.distance_um
        outside == axis \in DOMAIN axes /\ new_pos \notin axes[axis].min_um .. axes[axis].max_um
        fast == Diagnosed(audit, TooFast(command.rate_um_s), "A002", index)
    IN  Diagnosed([fast EXCEPT !.positions = Placed(@, axis, new_pos)], outside, "A001", index)

AuditCommand(audit, command, index) ==
    CASE command.kind = "Heartbeat" -> audit
      [] command.kind = "SetHeaterTarget" -> AuditHeater(audit, command, index)
      [] command.kind = "Home" -> AuditHome(audit, command, index)
      [] OTHER -> AuditMove(audit, command, index)

\* The diagnostics of a job, with positions that count from 0.
Audit(commands) ==
    LET audit[i \in 0 .. Len(commands)] ==
            IF i = 0 THEN [positions |-> <<>>, diagnostics |-> <<>>]
            ELSE AuditCommand(audit[i - 1], commands[i], i)
    IN  audit[Len(commands)].diagnostics

Passed(commands) == Audit(commands) = <<>>
=============================================================================
