--------------------------- MODULE MCClockSession ---------------------------
(* An instance of ClockSession for TLC: clocks that differ by up to 2/3. *)
EXTENDS ClockSession

MCRates == { -2, 0, 1, 2 }
MCRequestLink == [latency_ticks |-> 0, jitter_ticks |-> 1, loses |-> FALSE, duplicates |-> FALSE]
MCResponseLink == [latency_ticks |-> 0, jitter_ticks |-> 1, loses |-> TRUE, duplicates |-> TRUE]
=============================================================================
