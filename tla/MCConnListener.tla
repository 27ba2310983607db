--------------------------- MODULE MCConnListener ---------------------------
(***************************************************************************)
(* Instances of ConnListener for TLC.  Liveness is checked, so there is no *)
(* symmetry reduction.                                                     *)
(***************************************************************************)
EXTENDS ConnListener
=============================================================================
