---------------------------- MODULE MCControlLink ----------------------------
(* An instance of ControlLink for TLC: one supervised heater. *)
EXTENDS ControlLink

MCHeartbeatTimeout == [h \in TimedHeaters |-> 2]
MCGainMilliC == [h \in Heaters |-> 1]
MCTemperatures == 0 .. 1
MCStartPosition == [a \in Axes |-> 0]
MCDefaultWindow == [min_lead_ticks |-> 0, max_horizon_ticks |-> 4]
MCWindows == { [min_lead_ticks |-> 2, max_horizon_ticks |-> 4] }
MCCommands == { [type |-> "heartbeat"],
                [type |-> "set_heater_target", heater |-> "hotend", target_milli_c |-> 1] }
=============================================================================
