------------------------- MODULE MCStreamProgrammer -------------------------
(* Model-checking instances of StreamProgrammer *)
EXTENDS StreamProgrammer
=============================================================================
