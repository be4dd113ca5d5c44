----------------------------- MODULE MCGEMPhaseShift -----------------------------
(* A model-checking instance of the phase search: a ring of 32 phases, half of them in
   lock, with thresholds in the proportions of the code's.                         *)
EXTENDS GEMPhaseShift

MCGood    == 0..15
MCBadRun  == [BC0 |-> 7,  PLL |-> 4]
MCGoodRun == [BC0 |-> 9,  PLL |-> 4]
MCBestRun == [BC0 |-> 13, PLL |-> 6]
MCHalf    == [BC0 |-> 8,  PLL |-> 8]
=============================================================================
