---------------------------- MODULE ControlLink ----------------------------
(***************************************************************************)
(* SimTransport of crates/simulator/src/lib.rs in front of the controller: *)
(* a one-way link from the host that delays, loses, duplicates and         *)
(* reorders commands and can be severed.  The pseudo-random rolls for      *)
(* loss, jitter and duplication are nondeterministic choices.              *)
(***************************************************************************)
EXTENDS SimController

CONSTANTS
    LatencyTicks, JitterTicks,  \* TransportConfig
    Duplicates,                 \* dup_per_mille > 0
    MaxInFlight                 \* bound on the messages in flight

ASSUME LinkAssumption ==
    /\ LatencyTicks \in Nat /\ JitterTicks \in Nat /\ MaxInFlight \in Nat
    /\ Duplicates \in BOOLEAN

VARIABLES
    link_up,
    in_flight,       \* messages with their time of arrival, in sending order
    arriving,        \* what deliver_due returned and run has not accepted yet
    host_heartbeat,  \* history: when the last heartbeat was put on the link
    severed_at       \* history: when the link last went down

linkVars == <<link_up, in_flight, arriving, host_heartbeat, severed_at>>
allVars == <<vars, linkVars>>

LinkInit ==
    /\ Init
    /\ link_up = TRUE /\ in_flight = <<>> /\ arriving = <<>>
    /\ host_heartbeat = 0 /\ severed_at = 0

-----------------------------------------------------------------------------
(* The host side of the link, between two calls of run.                    *)

\* The message, and perhaps its duplicate one tick later.  A send over a
\* severed link, or one that the loss roll eats, leaves no trace: it is a
\* stuttering step.
Send(command, execute_at) ==
    /\ ~stepping /\ link_up
    /\ \E jitter \in 0 .. JitterTicks, copies \in IF Duplicates THEN {1, 2} ELSE {1} :
          LET message(i) == [at |-> now + LatencyTicks + jitter + (i - 1),
                             command |-> command, execute_at |-> execute_at]
          IN  /\ Len(in_flight) + copies <= MaxInFlight
              /\ in_flight' = in_flight \o [i \in 1 .. copies |-> message(i)]
    /\ host_heartbeat' = IF IsHeartbeat(command) /\ execute_at = None
                         THEN now ELSE host_heartbeat
    /\ UNCHANGED <<vars, link_up, arriving, severed_at>>

\* A mistake to detect: what is in flight still arrives.
DropLinkKeepingFlight ==
    /\ ~stepping
    /\ link_up' = FALSE
    /\ severed_at' = IF link_up THEN now ELSE severed_at
    /\ UNCHANGED <<vars, in_flight, arriving, host_heartbeat>>

\* Commands in flight are lost with the link.
DropLink ==
    /\ ~stepping
    /\ link_up' = FALSE
    /\ in_flight' = <<>>
    /\ severed_at' = IF link_up THEN now ELSE severed_at
    /\ UNCHANGED <<vars, arriving, host_heartbeat>>

RestoreLink ==
    /\ ~stepping
    /\ link_up' = TRUE
    /\ UNCHANGED <<vars, in_flight, arriving, host_heartbeat, severed_at>>

-----------------------------------------------------------------------------
(* The controller side: run pulls what has arrived.                        *)

Due(t) == { i \in DOMAIN in_flight : in_flight[i].at <= t }

\* What is due leaves the link, by a stable sort by arrival time; the rest
\* stays in its order.  Both are listed by their positions in flight.
DeliverDue(t) ==
    LET kept == DOMAIN in_flight \ Due(t) IN
    \E d \in [1 .. Cardinality(Due(t)) -> Due(t)],
       k \in [1 .. Cardinality(kept) -> kept] :
          /\ \A i, j \in DOMAIN d : i < j =>
                \/ in_flight[d[i]].at < in_flight[d[j]].at
                \/ in_flight[d[i]].at = in_flight[d[j]].at /\ d[i] < d[j]
          /\ \A i, j \in DOMAIN k : i < j => k[i] < k[j]
          /\ arriving' = [i \in DOMAIN d |-> in_flight[d[i]]]
          /\ in_flight' = [i \in DOMAIN k |-> in_flight[k[i]]]

LinkTick ==
    /\ Tick
    /\ DeliverDue(now + STEP_TICKS)
    /\ UNCHANGED <<link_up, host_heartbeat, severed_at>>

LinkDeliver ==
    /\ arriving # <<>>
    /\ Deliver(Head(arriving).command, Head(arriving).execute_at)
    /\ arriving' = Tail(arriving)
    /\ UNCHANGED <<link_up, in_flight, host_heartbeat, severed_at>>

LinkFinish ==
    /\ arriving = <<>>
    /\ Finish
    /\ UNCHANGED linkVars

LinkReset == Reset /\ UNCHANGED linkVars

LinkSetQueueWindow(window) == SetQueueWindow(window) /\ UNCHANGED linkVars

LinkNext ==
    \/ \E c \in Commands, t \in ExecuteTimes \cup {None} : Send(c, t)
    \/ DropLink \/ RestoreLink
    \/ LinkTick \/ LinkDeliver \/ LinkFinish
    \/ LinkReset
    \/ \E w \in Windows : LinkSetQueueWindow(w)

LinkSpec == LinkInit /\ [][LinkNext]_allVars

-----------------------------------------------------------------------------
(***************************************************************************)
(* Properties.                                                             *)
(***************************************************************************)

\* A severed link starves the heaters: nothing sent before keeps one
\* energized beyond its timeout counted from the cut (drop_link clears what
\* is in flight, and run accepts nothing afterwards).
SeveredLinkStarves ==
    ~link_up /\ ~stepping =>
        \A h \in TimedHeaters : Energized(h) => now - severed_at <= HeartbeatTimeout[h]

\* The longest the link delays a message, and the longest until a run has
\* accepted it: the first run after it arrived, which is not the one that
\* ended when it was sent.
MaxDelay == LatencyTicks + JitterTicks + (IF Duplicates THEN 1 ELSE 0)
MaxTransit == STEP_TICKS + (IF MaxDelay = 0 THEN 0 ELSE MaxDelay - 1)

\* The reaction time from end to end: a host that stops sending heartbeats
\* finds every supervised heater off after its timeout and one transit,
\* whatever the link duplicated or reordered.
SilentHostStarves ==
    ~stepping => \A h \in TimedHeaters :
        Energized(h) => now - host_heartbeat <= HeartbeatTimeout[h] + MaxTransit

\* Commands that come over the link execute on the very quantum they are
\* queued for: latency consumes lead, and what it makes late is refused.
ExecutesOnItsQuantum ==
    [][IterationEnds => \A i \in DOMAIN queue :
          queue[i].execute_at <= now => queue[i].execute_at = now]_allVars
=============================================================================
