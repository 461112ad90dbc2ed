----------------------------- MODULE EdgeSafety -----------------------------
(***************************************************************************)
(* What a controller promises about its dangerous outputs, whatever its    *)
(* queue holds and whatever the host does (spec.md, 3.5 and 18.1): an      *)
(* output under heartbeat supervision is off once the host has been silent *)
(* for longer than its timeout, and every output is off from a latched     *)
(* fault on.  Time advances by whole steps; silence is the time since the  *)
(* last heartbeat at the last completed step.                              *)
(***************************************************************************)
EXTENDS Naturals

CONSTANTS Outputs, TimedOutputs, Timeout, Step

VARIABLES silence, energized, faulted

edgeVars == <<silence, energized, faulted>>

Init == silence = 0 /\ energized = {} /\ faulted = FALSE

\* The outputs that may be energized after silence s.
Permitted(s) == { o \in Outputs : o \in TimedOutputs => s <= Timeout[o] }

\* A heartbeat arrives; a faulted controller no longer listens.
Hear ==
    /\ ~faulted
    /\ silence' = 0
    /\ UNCHANGED <<energized, faulted>>

\* A step completes.  Only the silence that began within it may still be 0.
Elapse ==
    /\ silence' \in {silence + Step} \cup (IF silence = 0 THEN {0} ELSE {})
    /\ energized' \subseteq IF faulted THEN {} ELSE Permitted(silence')
    /\ UNCHANGED faulted

Fault ==
    /\ faulted' = TRUE
    /\ energized' = {}
    /\ UNCHANGED silence

Next == Hear \/ Elapse \/ Fault

Spec == Init /\ [][Next]_edgeVars
=============================================================================
