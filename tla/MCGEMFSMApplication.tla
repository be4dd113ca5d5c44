------------------------- MODULE MCGEMFSMApplication -------------------------
(* Model-checking instance of one GEM application. *)
EXTENDS GEMFSMApplication

ThrowingAction == {"returns", "throws"}

AnyAction == {"returns", "throws", "swallows"}
=============================================================================
