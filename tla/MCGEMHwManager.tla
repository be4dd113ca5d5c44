---------------------------- MODULE MCGEMHwManager ----------------------------
(* A model-checking instance of the managers: three cards, so that an action can fail *)
(* with cards behind it and before it.                                           *)
EXTENDS GEMHwManager
=============================================================================
