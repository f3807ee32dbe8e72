----------------------------- MODULE MCChThreads -----------------------------
(* Model-checking instance of ChThreads *)
EXTENDS ChThreads
=============================================================================
