-------------------------- MODULE ControllerDaemon --------------------------
(***************************************************************************)
(* The daemon of crates/controller-daemon/src/lib.rs: what the host knows  *)
(* of each controller and when it last heard of it.  The clock sessions    *)
(* the daemon keeps beside are created with each registration and not used *)
(* by any of its operations; they are left out.                            *)
(***************************************************************************)
EXTENDS ControlProtocol

CONSTANTS
    Controllers,  \* controller ids
    Timeouts      \* heartbeat timeouts a controller is registered with

VARIABLES
    daemon_state,
    sessions  \* for each controller id its session, None when not registered

daemonVars == <<daemon_state, sessions>>

DaemonInit ==
    /\ daemon_state = "Uninitialized"
    /\ sessions = [c \in Controllers |-> None]

\* A registration, the second and later ones of a controller included,
\* starts from nothing.
NewSession(timeout) ==
    [heartbeat_timeout_us |-> timeout, last_seen_host_us |-> 0, last_status |-> None]

RegisterController(c, timeout) ==
    /\ sessions' = [sessions EXCEPT ![c] = NewSession(timeout)]
    /\ daemon_state' = IF daemon_state = "Uninitialized" THEN "Connected" ELSE daemon_state

\* A controller that was never seen, or at host time 0, counts as alive.
IsHeartbeatAlive(session, host_us) ==
    \/ session.last_seen_host_us = 0
    \/ host_us - session.last_seen_host_us <= session.heartbeat_timeout_us

RecordHeartbeat(c, host_us) ==
    /\ sessions[c] # None
    /\ sessions' = [sessions EXCEPT ![c].last_seen_host_us = host_us]
    /\ UNCHANGED daemon_state

\* A mistake to detect: only the first status is kept.
SessionSeen(session, status, host_us) ==
    [session EXCEPT !.last_status = IF @ = None THEN status ELSE @, !.last_seen_host_us = host_us]

SessionUpdated(session, status, host_us) ==
    [session EXCEPT !.last_status = status, !.last_seen_host_us = host_us]

\* A status for a controller that is not registered is decoded and dropped.
UpdateQueueStatus(c, status, host_us) ==
    /\ sessions' = [sessions EXCEPT ![c] = IF @ = None THEN None
                                           ELSE SessionUpdated(@, status, host_us)]
    /\ UNCHANGED daemon_state

Dead(host_us) ==
    { c \in Controllers : sessions[c] # None /\ ~IsHeartbeatAlive(sessions[c], host_us) }

AuditHeartbeats(host_us) ==
    /\ daemon_state' = IF Dead(host_us) # {} THEN "Faulted" ELSE daemon_state
    /\ UNCHANGED sessions

\* Reported of a controller that has reported nothing.
BlankStatus == [capacity |-> 0, fill |-> 0, earliest_accepted |-> 0,
                latest_accepted |-> 0, underrun |-> FALSE]

\* What the daemon reports of a registered controller (ControllerSession::status).
SessionStatus(c, host_us) ==
    LET s == sessions[c]
        status == IF s.last_status # None THEN s.last_status
                  ELSE BlankStatus
    IN  [queue_capacity |-> status.capacity, queue_fill |-> status.fill,
         earliest_accepted_tick |-> status.earliest_accepted,
         latest_accepted_tick |-> status.latest_accepted,
         underrun |-> status.underrun,
         heartbeat_ok |-> IsHeartbeatAlive(s, host_us)]
=============================================================================
