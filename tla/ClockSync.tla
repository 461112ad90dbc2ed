----------------------------- MODULE ClockSync -----------------------------
(***************************************************************************)
(* The clock estimator of crates/clock-sync/src/lib.rs: from exchanges of  *)
(* four timestamps it keeps an interval for the offset of the controller's *)
(* clock and bounds for its drift, and projects host ticks into windows of *)
(* controller ticks.  The estimator is a value (its fields are Copy) that  *)
(* push replaces.  The source computes in i128 with checks; ticks are u64  *)
(* there and no intermediate result of the model comes near an overflow.   *)
(* Midpoints, which nothing is decided on, are left out.                   *)
(***************************************************************************)
EXTENDS Integers, FiniteSetsExt

CONSTANTS
    PARTS_PER_BILLION,  \* 10^9; drift is counted in this fraction of a tick per tick
    max_slew_ppb,       \* bound on the relative rate of the two clocks
    None                \* Option::None

ASSUME SlewAssumption == PARTS_PER_BILLION \in Nat \ {0} /\ max_slew_ppb \in Nat

ClockSample == [host_send : Nat, controller_receive : Nat,
                controller_send : Nat, host_receive : Nat]
OffsetObservation == [reference_host : Nat, offset_min_ticks : Int, offset_max_ticks : Int]

\* A new estimator (ClockSync::new).
NoSync == [session_start |-> None, previous |-> None, drift |-> None,
           last_raw |-> None]

\* For a positive denominator \div is div_floor.
DivCeil(n, d) == -((-n) \div d)

\* A mistake to detect: the clocks' slew within the exchange is not allowed for.
NoAllowance(sample) == 0

\* How far the clocks may drift apart between the middle and the ends of the exchange.
Allowance(sample) ==
    DivCeil((sample.host_receive - sample.host_send) * max_slew_ppb, 2 * PARTS_PER_BILLION)

\* The offset interval of one sample (observe_bounded).
Observed(sample) ==
    [reference_host |-> sample.host_send + (sample.host_receive - sample.host_send) \div 2,
     offset_min_ticks |-> sample.controller_send - sample.host_receive - Allowance(sample),
     offset_max_ticks |-> sample.controller_receive - sample.host_send + Allowance(sample)]

\* No clock ran backwards, in the sample or since the last one, and the
\* controller did not take longer than the whole exchange.
Consistent(sync, sample) ==
    /\ sample.host_send <= sample.host_receive
    /\ sample.controller_receive <= sample.controller_send
    /\ Observed(sample).offset_min_ticks <= Observed(sample).offset_max_ticks
    /\ sync.last_raw # None =>
          \A f \in DOMAIN sample : sync.last_raw[f] <= sample[f]

\* Host time passed since the observation before.
Separated(sync, sample) ==
    sync.previous # None => sync.previous.reference_host < Observed(sample).reference_host

\* Drift bounds from two consecutive observations (estimate_drift).
Drift(previous, current) ==
    LET baseline == current.reference_host - previous.reference_host
        ppb(delta) == delta * PARTS_PER_BILLION
    IN  [min_ppb |-> ppb(current.offset_min_ticks - previous.offset_max_ticks) \div baseline,
         max_ppb |-> DivCeil(ppb(current.offset_max_ticks - previous.offset_min_ticks), baseline)]

\* The estimator after push; a sample it rejects leaves it as it was.
Pushed(sync, sample) ==
    IF ~(Consistent(sync, sample) /\ Separated(sync, sample)) THEN sync
    ELSE LET now == Observed(sample)
             first == sync.previous = None
         IN  [session_start |-> IF first THEN now.reference_host ELSE sync.session_start,
              previous |-> now,
              drift |-> IF first THEN sync.drift ELSE Drift(sync.previous, now),
              last_raw |-> sample]

\* An estimate takes two samples; its anchor is the latest observation.
HasEstimate(sync) == sync.drift # None

\* A mistake to detect: only the drift that was measured is projected.
DriftBoundsMeasured(sync) == <<sync.drift.min_ppb, sync.drift.max_ppb>>

\* The measured drift, widened to the configured envelope.
DriftBounds(sync) == <<Min({sync.drift.min_ppb, -max_slew_ppb}),
                       Max({sync.drift.max_ppb, max_slew_ppb})>>

\* The ends of the window a host tick is projected to (project), for ticks
\* from the session's start on.
Projected(sync, host) ==
    LET anchor == sync.previous
        elapsed == host - anchor.reference_host
        bounds == DriftBounds(sync)
        ppb == IF elapsed < 0 THEN <<bounds[2], bounds[1]>> ELSE bounds
    IN  [earliest |-> host + anchor.offset_min_ticks
                        + (elapsed * ppb[1]) \div PARTS_PER_BILLION,
         latest |-> host + anchor.offset_max_ticks
                        + DivCeil(elapsed * ppb[2], PARTS_PER_BILLION)]
=============================================================================
