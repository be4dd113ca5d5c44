--------------------------- MODULE MCGEMTestBeamScan ---------------------------
(* A model-checking instance of the test beam scans: a range of three or four     *)
(* points, of which the last one meets the end of the register.                 *)
EXTENDS GEMTestBeamScan

AllKinds == {"latency", "threshold", "adc"}
=============================================================================
