------------------------------- MODULE MCGEMScan -------------------------------
(* A model-checking instance of the scan: registers of six values, which the      *)
(* scans fit and a pause of the operator's can overrun.                         *)
EXTENDS GEMScan

(* One that ends on its maximum and one that ends before it. *)
ShortScans == {[min |-> 1, max |-> 3, step |-> 1], [min |-> 0, max |-> 5, step |-> 3]}

AnyCommand == {"Start", "Pause", "Resume", "Stop"}
=============================================================================
