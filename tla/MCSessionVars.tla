--------------------------- MODULE MCSessionVars ----------------------------
(***************************************************************************)
(* Instances of SessionVars for TLC.                                       *)
(***************************************************************************)
EXTENDS SessionVars
=============================================================================
