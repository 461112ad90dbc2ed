-------------------------- MODULE MCWorkflowRunner --------------------------
(* An instance of WorkflowRunner for TLC with arbitrary controller reports. *)
EXTENDS WorkflowRunner

\* An auditor that refuses one of the commands.
MCPasses(envelopes) == \A i \in DOMAIN envelopes : envelopes[i].command # "crash"

MCEnvelopes == { [command |-> "move", execute_at |-> None],
                 [command |-> "move", execute_at |-> 3],
                 [command |-> "crash", execute_at |-> None] }

Status(fill, earliest, underrun, ok) ==
    [queue_capacity |-> 3, queue_fill |-> fill, earliest_accepted_tick |-> earliest,
     latest_accepted_tick |-> earliest + 4, underrun |-> underrun, heartbeat_ok |-> ok]

MCStatuses == { Status(fill, earliest, FALSE, TRUE) : fill \in 0 .. 3, earliest \in {1, 3} }
                \cup { Status(fill, 1, TRUE, ok) : fill \in {0, 3}, ok \in BOOLEAN }
=============================================================================
