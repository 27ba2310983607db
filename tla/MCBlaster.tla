----------------------------- MODULE MCBlaster -----------------------------
(* The Blaster with two servers of one object each, for TLC. *)
EXTENDS Blaster
=============================================================================
