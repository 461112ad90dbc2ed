---------------------------- MODULE MCJobStream ----------------------------
(* Instances of JobStream for TLC: one axis, no heaters. *)
EXTENDS JobStream

MCNoHeaters == [h \in {} |-> 0]
MCTemperatures == {0}
MCStartPosition == [a \in Axes |-> 0]
MCDefaultWindow == [min_lead_ticks |-> 2, max_horizon_ticks |-> 8]
MCPasses(envelopes) == TRUE

Move(d, r) == [type |-> "move", axis |-> "x", distance_um |-> d, rate_um_s |-> r]
\* It takes two iterations, so that a motion outlives what started it.
Step == [command |-> Move(2, 2), execute_at |-> None]

\* An axis that is away from its endstop.
MCAwayPosition == [a \in Axes |-> 3]
MotionJob == { [command |-> c, execute_at |-> None] :
                 c \in { [type |-> "home", axis |-> "x", rate_um_s |-> 4], Move(3, 4), Move(-2, 2) } }

\* As lowered from a job: no command has a tick of its own.
LoweredJob == { Step }
=============================================================================
