----------------------------- MODULE MCPortLocks -----------------------------
(* Model-checking instance of PortLocks *)
EXTENDS PortLocks
=============================================================================
