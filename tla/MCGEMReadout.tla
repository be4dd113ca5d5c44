----------------------------- MODULE MCGEMReadout -----------------------------
(* A model-checking instance of the readout: two runs, a chunk for every event. *)
EXTENDS GEMReadout
=============================================================================
