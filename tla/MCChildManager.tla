--------------------------- MODULE MCChildManager ---------------------------
(***************************************************************************)
(* Instances of ChildManager for TLC.  Liveness is checked, so there is no *)
(* symmetry reduction.                                                     *)
(***************************************************************************)
EXTENDS ChildManager
=============================================================================
