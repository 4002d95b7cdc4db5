------------------------------ MODULE MCOtaUpdate ------------------------------
(***************************************************************************)
(* OtaUpdate for TLC: three versions, so that an image that rolled back    *)
(* can be followed by a newer one, and two requests with two power cuts.   *)
(***************************************************************************)
EXTENDS OtaUpdate
=============================================================================
