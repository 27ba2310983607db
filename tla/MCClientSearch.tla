--------------------------- MODULE MCClientSearch ---------------------------
(***************************************************************************)
(* Instances of ClientSearch for TLC.  Liveness is checked, so there is no *)
(* symmetry reduction.                                                     *)
(***************************************************************************)
EXTENDS ClientSearch
=============================================================================
