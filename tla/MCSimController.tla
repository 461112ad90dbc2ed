--------------------------- MODULE MCSimController ---------------------------
(* An instance of SimController for TLC. *)
EXTENDS SimController

MCHeartbeatTimeout == [h \in TimedHeaters |-> 2]
MCGainMilliC == [h \in Heaters |-> 2]
MCStartPosition == [a \in Axes |-> 3]
MCDefaultWindow == [min_lead_ticks |-> 2, max_horizon_ticks |-> 4]
MCWindows == { MCDefaultWindow, [min_lead_ticks |-> 0, max_horizon_ticks |-> 4] }
WarmTemperatures == 0 .. 2

Heartbeat == [type |-> "heartbeat"]
Heat(h, t) == [type |-> "set_heater_target", heater |-> h, target_milli_c |-> t]

HeatCommands == { Heartbeat, Heat("hotend", 2), Heat("hotend", 0), Heat("chamber", 2),
                  Heat("ghost", 2) }
=============================================================================
