-------------------------- MODULE MCJobPreparation --------------------------
(* An instance of JobPreparation for TLC. *)
EXTENDS JobPreparation

W(letter, number) == [letter |-> letter, value |-> number * 1000]
Comment(letter) == [letter |-> letter, value |-> None]

MCLines ==
    { << W("G", 90) >>, << W("G", 91) >>, << W("G", 28) >>, << W("G", 28), W("Y", 0) >>,
      << W("G", 1), W("F", 600), W("X", 3) >>,
      << W("G", 0), W("X", 2), W("F", 1), W("Y", -2) >>,
      << W("G", 1), W("X", 2), Comment("("), W("Y", 9) >>,
      << W("G", 1), W("E", 1), Comment("("), W("X", 3), Comment(";"), W("Y", 9) >>,
      << W("M", 104), W("S", 1) >>, << W("M", 190), W("S", 2) >>, << W("M", 109) >>,
      << W("M", 105) >>, << W("M", 82) >>, << Comment(";") >> }

MCAxes == [axis \in {"X", "Y"} |-> [min_um |-> 0, max_um |-> 4000]]
MCCeilings == [heater \in {"hotend_heater", "bed_heater"} |-> 1000]
=============================================================================
