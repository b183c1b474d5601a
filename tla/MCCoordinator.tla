--------------------------- MODULE MCCoordinator ---------------------------
(* The coordinator, with what its detectors reported, on small instances   *)
(* for TLC.                                                                *)
EXTENDS CoordinatorReports, TLC

Symmetry == Permutations(Detectors) \cup Permutations(Devices)

\* The last output is unbuffered as in the tests, the others as in main.go.
MixedCaps == [o \in Outputs |-> IF o = NumOutputs THEN 0 ELSE 1]
=============================================================================
