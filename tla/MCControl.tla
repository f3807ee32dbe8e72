----------------------------- MODULE MCControl -----------------------------
(* Model-checking instances of Control *)
EXTENDS Control
=============================================================================
