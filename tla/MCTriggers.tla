---------------------------- MODULE MCTriggers ----------------------------
(***************************************************************************)
(* Instances of Triggers for TLC.                                          *)
(***************************************************************************)
EXTENDS Triggers, TLC

CONSTANTS m1, m2, x1, x2

OneModule    == {m1}
TwoModules   == {m1, m2}
OneMeasure   == {x1}
TwoMeasures  == {x1, x2}

Reports      == {"UE_REPORT"}
Measurements == {"UE_MEASURE"}
UeRequests   == {"UE_REPORT", "UE_MEASURE"}
AllRequests  == {"UE_REPORT", "UE_MEASURE", "CELL_MEASURE"}

\* The modules of the controller, and the measurements, are interchangeable.
Symmetry == Permutations(Mod) \cup Permutations(Meas)
===========================================================================
