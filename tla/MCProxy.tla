------------------------------ MODULE MCProxy ------------------------------
(* The search proxy with servers of one object each, for TLC. *)
EXTENDS Proxy

MCFound == [c \in Conn |-> 1]
=============================================================================
