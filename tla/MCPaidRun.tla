------------------------------ MODULE MCPaidRun ------------------------------
(* Small instances of PaidRun for TLC. *)
EXTENDS PaidRun

CONSTANTS c1, a1, i1

OneCalibration == {c1}
OneR2 == {a1}
OneR3 == {i1}
FourBuckets == {"calibration", "r2_main", "r3_main", "retry"}
SomeCalls == [b \in FourBuckets |-> IF b = "r3_main" THEN 6 ELSE 2]
FreeOrDear == {0, 3}
==============================================================================
